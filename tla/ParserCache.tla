----------------------------- MODULE ParserCache -----------------------------
(***************************************************************************)
(* The cache of generated parsers: the tables parsers_cache and domains,   *)
(* the extraction phase of process_content, which looks parsers up, uses   *)
(* and invalidates them, and the thread that generates and stores parsers  *)
(* after the handler went on.  This is the inside of TaskPipeline's step   *)
(* Extract: a handler leaves it to persist its result, to report that      *)
(* there is no data, or to fail.                                           *)
(*                                                                         *)
(* Each step is one transaction on the tables; the handler and its thread  *)
(* share one session, which a failed statement poisons until the handler   *)
(* closes it.  A page changes while tasks wait, so that a handler may hold *)
(* an older version than the one a parser was made from.                   *)
(***************************************************************************)
EXTENDS Integers, FiniteSets, Sequences, SequencesExt

CONSTANTS
  Urls,         \* url_pattern, the complete URL of a page
  Hosts,        \* names of the table domains
  HostOf,       \* HostOf[u]: the host of u
  Fields,       \* what can be asked of a page
  Workers,      \* processes that run process_content
  Parsers,      \* ids of parsers_cache: a bound on the parsers made
  NoParser,
  Requests,     \* the pairs <<fields, mode>> that tasks may come with
  MadeTypes,    \* source types under which parsers are made, see SourceTypes
  MaxVersion,   \* bound on the changes of a page
  Threshold,    \* confidence_threshold: 70
  Confidence,   \* Confidence[m]: of a new parser, 90 for a schema, 85 for keywords
  MaxConfidence,\* 100
  QueryLimit,   \* parsers that the query of a lookup returns: 20
  Limit,        \* parsers that a lookup of a whole request returns: 3
  Faults        \* {"db"}: any statement may fail

Modes == {"schema", "keywords"}

\* The source types under which parser_factory.generate_parser makes parsers,
\* and those that process_content looks up, one after the other.
SourceTypes == {"CSS", "JSONPATH", "REGEX"}
Passes == <<"SEMANTIC", "CSS", "HTML">>

ASSUME CacheAssumption ==
  /\ Urls # {} /\ HostOf \in [Urls -> Hosts]
  /\ IsFiniteSet(Parsers) /\ NoParser \notin Parsers
  /\ Requests \subseteq (SUBSET Fields) \X Modes
  /\ \A r \in Requests : r[1] = {} => r[2] = "keywords"
  /\ MadeTypes \subseteq SourceTypes
  /\ MaxVersion \in Nat
  /\ Threshold \in Nat \ {0} /\ MaxConfidence \in Nat
  /\ Confidence \in [Modes -> Threshold .. MaxConfidence]
  /\ QueryLimit \in Nat \ {0} /\ Limit \in Nat \ {0}
  /\ Faults \subseteq {"db"}

VARIABLES
  page,     \* page[u]: the version of the page that is online
  hosts,    \* the names in domains
  parser,   \* parser[i]: the row of parsers_cache, or NoRow
  job,      \* job[w]: the extraction that w's handler runs
  draft     \* draft[w]: the parsers that w is making

vars == <<page, hosts, parser, job, draft>>

Versions == 0 .. MaxVersion
AnyUrl == CHOOSE u \in Urls : TRUE

\* on: the versions of the page on which the parser finds something.
NoRow == [stored |-> FALSE, url |-> AnyUrl, fields |-> {}, type |-> "CSS",
          on |-> {}, active |-> FALSE, confidence |-> 0]

Idle == [pc |-> "idle", url |-> AnyUrl, version |-> 0, fields |-> {},
         mode |-> "schema", pass |-> 1, todo |-> {}, missed |-> FALSE,
         chosen |-> [f \in Fields |-> NoParser], cands |-> <<>>,
         seen |-> [i \in Parsers |-> 0], known |-> {}, found |-> FALSE,
         poisoned |-> FALSE]

NoDraft == [pc |-> "none", url |-> AnyUrl, version |-> 0, fields |-> {},
            mode |-> "schema", type |-> "CSS", todo |-> {}, cur |-> {}, host |-> FALSE]

Init ==
  /\ page = [u \in Urls |-> 0]
  /\ hosts = {}
  /\ parser = [i \in Parsers |-> NoRow]
  /\ job = [w \in Workers |-> Idle]
  /\ draft = [w \in Workers |-> NoDraft]

-----------------------------------------------------------------------------
(***************************************************************************)
(* shared/database/utils.py                                                *)
(***************************************************************************)
Stored == {i \in Parsers : parser[i].stored}

Selectable(u, type) ==
  {i \in Stored : /\ parser[i].url = u
                  /\ parser[i].type = type
                  /\ parser[i].active
                  /\ parser[i].confidence >= Threshold}

\* What the query may return: the most confident of them, whatever their
\* fields. Equal parsers are ordered by their last use, which is left open.
Queried(u, type, limit) ==
  LET S == Selectable(u, type) IN
  {T \in SUBSET S :
     /\ Cardinality(T) <= limit
     /\ T = S \/ Cardinality(T) = limit
     /\ \A i \in T, j \in S \ T : parser[i].confidence >= parser[j].confidence}

\* i is a better answer than j: exactly the fields asked for count as ten of
\* them, then the confidence decides.
Better(i, j, F) ==
  LET score(k) == IF parser[k].fields = F THEN 10 ELSE Cardinality(F) IN
  \/ score(i) > score(j)
  \/ score(i) = score(j) /\ parser[i].confidence > parser[j].confidence

\* The first limit parsers of T that serve the fields, the better ones first.
Ranked(T, F, limit) ==
  LET ranked == {q \in SetToSeqs({i \in T : F \subseteq parser[i].fields}) :
                   \A m, n \in DOMAIN q : m < n => ~Better(q[n], q[m], F)}
  IN {SubSeq(q, 1, IF Len(q) < limit THEN Len(q) ELSE limit) : q \in ranked}

\* Mutant of Found: the query returns no more than are asked for.
FoundShort(u, F, type, limit) ==
  UNION {Ranked(T, F, limit) : T \in Queried(u, type, limit)}

\* find_cached_parser_by_fields: what it may return. The fields are only
\* looked at after the query.
Found(u, F, type, limit) ==
  UNION {Ranked(T, F, limit) : T \in Queried(u, type, QueryLimit)}

\* Mutant of Used: the whole object is written back, as it was loaded.
UsedWhole(i, confidence) ==
  [parser EXCEPT ![i].confidence = IF confidence < MaxConfidence
                                   THEN confidence + 1 ELSE MaxConfidence,
                 ![i].active = TRUE]

\* Mutant of Used: a use without a match costs confidence.
UsedOrBlamed(i, confidence) ==
  [parser EXCEPT ![i].confidence = IF confidence > 0 THEN confidence - 1 ELSE 0]

\* update_parser_usage: the new confidence is computed from the loaded one.
Used(i, confidence) ==
  [parser EXCEPT ![i].confidence = IF confidence < MaxConfidence
                                   THEN confidence + 1 ELSE MaxConfidence]

\* Mutant of Invalidated: only the confidence is lowered.
Distrusted(i) == [parser EXCEPT ![i].confidence = 0]

\* invalidate_parser
Invalidated(i) == [parser EXCEPT ![i].active = FALSE, ![i].confidence = 0]

-----------------------------------------------------------------------------
(***************************************************************************)
(* Building blocks                                                         *)
(***************************************************************************)
Request(w) == job[w].fields
Type(w) == Passes[job[w].pass]

\* The parser finds something in the content that w holds.
Matches(w, i) == job[w].version \in parser[i].on

\* A commit expires the objects of the session: what w uses later of them is
\* loaded again.
Reloaded(w) == [i \in Parsers |-> IF job[w].seen[i] > 0 THEN parser'[i].confidence ELSE 0]

\* A statement that would replace the parsers by new raises, with or without
\* effect, and w goes on as r.
Raises(w, new, r) ==
  /\ job[w].poisoned \/ "db" \in Faults
  /\ parser' \in IF job[w].poisoned THEN {parser} ELSE {parser, new}
  /\ \E p \in BOOLEAN :
       /\ job[w].poisoned => p
       /\ job' = [job EXCEPT ![w] = [r EXCEPT !.poisoned = p]]

\* What is left of a handler that is done with the cache.
Leaving(w, pc) == [Idle EXCEPT !.pc = pc, !.poisoned = job[w].poisoned]

\* w forgets the fields' parsers and turns to those for the whole request.
Whole(w) ==
  [job[w] EXCEPT !.pc = "legacy", !.todo = {}, !.missed = FALSE,
                 !.chosen = Idle.chosen, !.seen = Idle.seen]

\* Mutant of Trying: the next pass looks the same source type up again.
TryingAgain(r, q) ==
  IF q # <<>> THEN [r EXCEPT !.pc = "try", !.cands = q]
  ELSE [r EXCEPT !.cands = <<>>, !.seen = Idle.seen, !.todo = r.fields, !.pc = "find"]

\* The parsers in q are left to try. Without any the next source type is
\* looked up, or the language model is asked.
Trying(r, q) ==
  IF q # <<>> THEN [r EXCEPT !.pc = "try", !.cands = q]
  ELSE [r EXCEPT !.cands = <<>>, !.seen = Idle.seen, !.todo = r.fields,
                 !.pc = IF r.pass < Len(Passes) THEN "find" ELSE "extract",
                 !.pass = IF r.pass < Len(Passes) THEN r.pass + 1 ELSE r.pass]

-----------------------------------------------------------------------------
(***************************************************************************)
(* process_content, from the normalized fields on; check_cached_parser is  *)
(* "find", "apply", "legacy" and "try".                                    *)
(***************************************************************************)
ChangePage(u) ==
  /\ page[u] < MaxVersion
  /\ page' = [page EXCEPT ![u] = @ + 1]
  /\ UNCHANGED <<hosts, parser, job, draft>>

\* The handler holds the version that was online when the page was fetched.
\* Nothing is looked up when nothing is asked for.
\* Bound: a worker starts no extraction while its last thread still runs.
StartExtraction(w, u, F, m) ==
  /\ job[w].pc = "idle"
  /\ draft[w].pc = "none"
  /\ \E v \in 0 .. page[u] :
       job' = [job EXCEPT ![w] = [Idle EXCEPT
                 !.pc = IF F = {} THEN "extract" ELSE "find", !.url = u, !.version = v, !.fields = F,
                 !.mode = m, !.todo = F, !.known = Stored]]
  /\ UNCHANGED <<page, hosts, parser, draft>>

\* w's record when parser i is found for field f. With parsers for all fields
\* they are applied.
Chosen(w, f, i) ==
  LET last == job[w].todo = {f} IN
  [job[w] EXCEPT !.chosen = [job[w].chosen EXCEPT ![f] = i],
                 !.seen = [job[w].seen EXCEPT ![i] = parser[i].confidence],
                 !.pc = IF last THEN "apply" ELSE "find",
                 !.todo = IF last THEN Request(w) ELSE job[w].todo \ {f}]

\* One field's parser is looked up; without one the loop is left at once.
FindFieldParser(w, f) ==
  /\ job[w].pc = "find"
  /\ f \in job[w].todo
  /\ \/ /\ ~job[w].poisoned
        /\ \E q \in Found(job[w].url, {f}, Type(w), 1) :
             job' = [job EXCEPT ![w] = IF q = <<>> THEN Whole(w) ELSE Chosen(w, f, q[1])]
        /\ parser' = parser
     \/ Raises(w, parser, Leaving(w, "failing"))
  /\ UNCHANGED <<page, hosts, draft>>

\* One field's parser is executed, and counted as used, match or no match.
\* All fields with a match are a hit; otherwise the whole request is tried.
ApplyFieldParser(w, f) ==
  LET i == job[w].chosen[f]
      new == Used(i, job[w].seen[i])
      missed == job[w].missed \/ ~Matches(w, i)
  IN
  /\ job[w].pc = "apply"
  /\ f \in job[w].todo
  /\ \/ /\ ~job[w].poisoned
        /\ parser' = new
        /\ job' = [job EXCEPT ![w] =
             IF job[w].todo # {f}
             THEN [job[w] EXCEPT !.todo = job[w].todo \ {f}, !.missed = missed,
                                 !.seen = Reloaded(w)]
             ELSE IF missed THEN Whole(w) ELSE Leaving(w, "persist")]
     \/ Raises(w, new, Leaving(w, "failing"))
  /\ UNCHANGED <<page, hosts, draft>>

\* The parsers for the whole request are looked up.
FindParsers(w) ==
  /\ job[w].pc = "legacy"
  /\ \/ /\ ~job[w].poisoned
        /\ \E q \in Found(job[w].url, Request(w), Type(w), Limit) :
             LET seen == [i \in Parsers |-> IF i \in ToSet(q) THEN parser[i].confidence ELSE 0]
             IN job' = [job EXCEPT ![w] = Trying([job[w] EXCEPT !.seen = seen], q)]
        /\ parser' = parser
     \/ Raises(w, parser, Leaving(w, "failing"))
  /\ UNCHANGED <<page, hosts, draft>>

\* The best of them that matches is used; an exception is passed over.
HitParser(w) ==
  /\ job[w].pc = "try"
  /\ LET i == Head(job[w].cands)
         new == Used(i, job[w].seen[i])
     IN
     /\ Matches(w, i)
     /\ \/ /\ ~job[w].poisoned
           /\ parser' = new
           /\ job' = [job EXCEPT ![w] = Leaving(w, "persist")]
        \/ Raises(w, new, Leaving(w, "persist"))
  /\ UNCHANGED <<page, hosts, draft>>

\* Mutant of DropParser: a parser without a match is just passed over.
SkipParser(w) ==
  /\ job[w].pc = "try"
  /\ ~Matches(w, Head(job[w].cands))
  /\ job' = [job EXCEPT ![w] = Trying(job[w], Tail(job[w].cands))]
  /\ UNCHANGED <<page, hosts, parser, draft>>

\* One that does not match is invalidated; an exception is only logged. What
\* is left of them has expired by then: loading the next one may raise, too,
\* which ends the handler.
DropParser(w) ==
  /\ job[w].pc = "try"
  /\ LET i == Head(job[w].cands)
         new == Invalidated(i)
         left == Tail(job[w].cands)
     IN
     /\ ~Matches(w, i)
     /\ \/ /\ ~job[w].poisoned
           /\ parser' = new
           /\ job' = [job EXCEPT ![w] = Trying([job[w] EXCEPT !.seen = Reloaded(w)], left)]
        \/ Raises(w, new, Trying(job[w], left))
        \/ left # <<>> /\ Raises(w, new, Leaving(w, "failing"))
  /\ UNCHANGED <<page, hosts, draft>>

-----------------------------------------------------------------------------
(***************************************************************************)
(* run_schema_extraction, run_field_extraction                             *)
(***************************************************************************)
\* Bound: parsers are made while there are ids for them and for all drafts.
Room(n) ==
  Cardinality(Parsers \ Stored) >=
    n + Cardinality(UNION {{w} \X draft[w].todo : w \in Workers})

\* w's draft of parsers for the field sets, made in the thread or, for one
\* keyword, in the handler.
ToStore(w, type, sets) ==
  draft' = [draft EXCEPT ![w] =
    [draft[w] EXCEPT !.pc = "read", !.type = type, !.todo = sets, !.fields = {}]]

Start(w, type, sets) ==
  draft' = [draft EXCEPT ![w] =
    [NoDraft EXCEPT !.pc = "read", !.url = job[w].url, !.version = job[w].version,
                    !.mode = job[w].mode, !.type = type, !.todo = sets]]

\* The language model finds nothing or fails; or it finds the items of a
\* schema, which are returned while a thread makes parsers; or it names
\* examples of the keywords, one after the other.
ExtractWithModel(w) ==
  /\ job[w].pc = "extract"
  /\ \/ /\ job[w].mode = "schema"
        /\ job' = [job EXCEPT ![w] = Leaving(w, "nodata")]
        /\ draft' = draft
     \/ /\ job[w].mode = "schema"
        /\ job' = [job EXCEPT ![w] = Leaving(w, "persist")]
        /\ draft' = [draft EXCEPT ![w] =
             [NoDraft EXCEPT !.pc = "generate", !.url = job[w].url,
                             !.version = job[w].version, !.fields = Request(w)]]
     \/ /\ job[w].mode = "keywords"
        /\ job' = [job EXCEPT ![w] = [job[w] EXCEPT !.pc = "keywords", !.known = {}]]
        /\ draft' = draft
  /\ UNCHANGED <<page, hosts, parser>>

\* A parser is generated for one keyword and its matches are kept, or no
\* valid one is found; an answer of an unexpected shape raises.
GenerateForKeyword(w, f) ==
  /\ job[w].pc = "keywords"
  /\ draft[w].pc = "none"
  /\ f \in job[w].todo
  /\ \/ /\ \/ job' = [job EXCEPT ![w] = [job[w] EXCEPT !.todo = job[w].todo \ {f}]]
           \/ job' = [job EXCEPT ![w] = Leaving(w, "failing")]
        /\ draft' = draft
     \/ /\ Room(1)
        /\ job' = [job EXCEPT ![w] =
             [job[w] EXCEPT !.todo = job[w].todo \ {f}, !.found = TRUE]]
        /\ \E type \in MadeTypes : Start(w, type, {{f}})
  /\ UNCHANGED <<page, hosts, parser>>

EndKeywords(w) ==
  /\ job[w].pc = "keywords"
  /\ draft[w].pc = "none"
  /\ job[w].todo = {}
  /\ job' = [job EXCEPT ![w] = Leaving(w, IF job[w].found THEN "persist" ELSE "nodata")]
  /\ UNCHANGED <<page, hosts, parser, draft>>

\* Mutant of FinishExtraction: the session is kept for the next message.
FinishUnclosed(w) ==
  /\ job[w].pc \in {"persist", "nodata", "failing"}
  /\ job' = [job EXCEPT ![w] = Leaving(w, "idle")]
  /\ UNCHANGED <<page, hosts, parser, draft>>

\* The result, or its lack, or the failure is written, as TaskPipeline says,
\* and the session is closed, whatever the thread still does with it.
FinishExtraction(w) ==
  /\ job[w].pc \in {"persist", "nodata", "failing"}
  /\ job' = [job EXCEPT ![w] = Idle]
  /\ UNCHANGED <<page, hosts, parser, draft>>

\* _cache_parser_from_extraction: no valid parser in two attempts; one for
\* each field of the first example, be it asked for or not; or a single one
\* for the whole schema.
GenerateForSchema(w) ==
  /\ draft[w].pc = "generate"
  /\ \/ draft' = [draft EXCEPT ![w] = NoDraft]
     \/ \E K \in (SUBSET Fields) \ {{}}, type \in MadeTypes \ {"JSONPATH"} :
          /\ Room(Cardinality(K))
          /\ ToStore(w, type, {{f} : f \in K})
     \/ \E type \in MadeTypes :
          /\ Room(1)
          /\ ToStore(w, type, {draft[w].fields})
  /\ UNCHANGED <<page, hosts, parser, job>>

-----------------------------------------------------------------------------
(***************************************************************************)
(* create_parser_cache_by_fields, in the thread or in the handler. An      *)
(* exception ends the thread; the handler goes on with the next keyword.   *)
(* As long as the handler runs, they share the session.                    *)
(***************************************************************************)
GiveUp(w, p) ==
  /\ draft' = [draft EXCEPT ![w] = NoDraft]
  /\ job' = [job EXCEPT ![w] = [job[w] EXCEPT !.poisoned = p]]

StoreFails(w) ==
  /\ job[w].poisoned \/ "db" \in Faults
  /\ \E p \in BOOLEAN :
       /\ job[w].poisoned => p
       /\ p => job[w].pc # "idle"
       /\ GiveUp(w, p)

\* get_or_create_domain: the host is looked up.
ReadHost(w) ==
  /\ draft[w].pc = "read"
  /\ \/ /\ ~job[w].poisoned
        /\ \E F \in draft[w].todo :
             draft' = [draft EXCEPT ![w] =
               [draft[w] EXCEPT !.pc = "insert", !.cur = F,
                                !.host = HostOf[draft[w].url] \in hosts]]
        /\ job' = job
     \/ StoreFails(w)
  /\ UNCHANGED <<page, hosts, parser>>

\* The host that was missing and the parser are inserted and committed. A
\* generated parser matches the content that it was made from.
Inserted(w) ==
  LET host == HostOf[draft[w].url] IN
  /\ draft[w].host \/ host \notin hosts
  /\ \E i \in Parsers \ Stored, on \in SUBSET Versions :
       /\ draft[w].version \in on
       /\ parser' = [parser EXCEPT ![i] =
            [stored |-> TRUE, url |-> draft[w].url, fields |-> draft[w].cur,
             type |-> draft[w].type, on |-> on, active |-> TRUE,
             confidence |-> Confidence[draft[w].mode]]]
  /\ hosts' = hosts \cup {host}

\* The name of a host is unique: the flush of a host stored meanwhile fails.
\* A commit, or the refresh after it, may raise although it took effect.
InsertParser(w) ==
  LET left == draft[w].todo \ {draft[w].cur} IN
  /\ draft[w].pc = "insert"
  /\ \/ /\ ~job[w].poisoned
        /\ Inserted(w)
        /\ draft' = [draft EXCEPT ![w] =
             IF left = {} THEN NoDraft ELSE [draft[w] EXCEPT !.pc = "read", !.todo = left]]
        /\ job' = job
     \/ /\ ~job[w].poisoned
        /\ ~draft[w].host /\ HostOf[draft[w].url] \in hosts
        /\ GiveUp(w, job[w].pc # "idle")
        /\ UNCHANGED <<hosts, parser>>
     \/ StoreFails(w) /\ UNCHANGED <<hosts, parser>>
     \/ ~job[w].poisoned /\ Inserted(w) /\ StoreFails(w)
  /\ UNCHANGED page

-----------------------------------------------------------------------------
LookingUp(w) ==
  \/ \E f \in Fields : FindFieldParser(w, f) \/ ApplyFieldParser(w, f)
  \/ FindParsers(w) \/ HitParser(w) \/ DropParser(w)

Extracting(w) ==
  \/ ExtractWithModel(w) \/ EndKeywords(w) \/ FinishExtraction(w)
  \/ \E f \in Fields : GenerateForKeyword(w, f)

Storing(w) == GenerateForSchema(w) \/ ReadHost(w) \/ InsertParser(w)

Next ==
  \/ \E u \in Urls : ChangePage(u)
  \/ \E w \in Workers, u \in Urls, r \in Requests : StartExtraction(w, u, r[1], r[2])
  \/ \E w \in Workers : LookingUp(w) \/ Extracting(w) \/ Storing(w)

Spec == Init /\ [][Next]_vars

\* A handler that runs, and its thread, go on: calls to the language model
\* and the database time out.
Fairness ==
  \A w \in Workers : WF_vars(LookingUp(w) \/ Extracting(w)) /\ WF_vars(Storing(w))

FairSpec == Spec /\ Fairness

-----------------------------------------------------------------------------
(***************************************************************************)
(* Properties                                                              *)
(***************************************************************************)
RowType == [stored : BOOLEAN, url : Urls, fields : SUBSET Fields,
            type : SourceTypes, on : SUBSET Versions, active : BOOLEAN,
            confidence : 0 .. MaxConfidence]

JobType == [pc : {"idle", "find", "apply", "legacy", "try", "extract",
                  "keywords", "persist", "nodata", "failing"},
            url : Urls, version : Versions, fields : SUBSET Fields, mode : Modes,
            pass : 1 .. Len(Passes), todo : SUBSET Fields, missed : BOOLEAN,
            chosen : [Fields -> Parsers \cup {NoParser}], cands : Seq(Parsers),
            seen : [Parsers -> 0 .. MaxConfidence], known : SUBSET Parsers,
            found : BOOLEAN, poisoned : BOOLEAN]

DraftType == [pc : {"none", "generate", "read", "insert"}, url : Urls,
              version : Versions, fields : SUBSET Fields, mode : Modes,
              type : SourceTypes, todo : SUBSET SUBSET Fields, cur : SUBSET Fields,
              host : BOOLEAN]

\* The shape of the tables and handlers; a session is only ever poisoned
\* while its handler runs, and a thread writes only what it still has to.
TypeOK ==
  /\ page \in [Urls -> Versions]
  /\ hosts \subseteq Hosts
  /\ parser \in [Parsers -> RowType]
  /\ job \in [Workers -> JobType]
  /\ draft \in [Workers -> DraftType]
  /\ \A w \in Workers :
       /\ job[w].pc = "idle" => ~job[w].poisoned
       /\ draft[w].pc = "insert" => draft[w].cur \in draft[w].todo

\* The host of every cached parser is in domains, and every active parser
\* can be found: no interleaving of uses, which compute a confidence from
\* the one they loaded, takes an active parser below the threshold.
ActiveIsSelectable ==
  \A i \in Stored :
    /\ HostOf[parser[i].url] \in hosts
    /\ parser[i].active => parser[i].confidence >= Threshold

\* An invalidated parser is never active again, although handlers that had
\* loaded it before go on using it and write it afterwards.
InvalidIsFinal ==
  [][\A i \in Parsers : parser[i].stored /\ ~parser[i].active => ~parser'[i].active]_vars

\* Parser i serves the fields of a request for the page.
Covers(i, u, F) == parser[i].stored /\ parser[i].url = u /\ F \subseteq parser[i].fields

\* The parsers of i's page and source type, which its lookup competes with.
Rivals(i) == {j \in Stored : parser[j].url = parser[i].url /\ parser[j].type = parser[i].type}

\* When a lookup found nothing, a parser for the whole request that it knew
\* of, of a type it looks up, is only still active when one of the two limits
\* left it out: no other that matched was overlooked, and none that failed is
\* left to fail again.
MissLeavesNone ==
  \A w \in Workers :
    job[w].pc = "extract" /\ Request(w) # {} /\ ~job[w].poisoned =>
      \A i \in job[w].known :
        /\ Covers(i, job[w].url, Request(w))
        /\ parser[i].type \in ToSet(Passes)
        /\ parser[i].active
        => \/ Cardinality(Rivals(i)) > QueryLimit
           \/ Cardinality({j \in Rivals(i) : Request(w) \subseteq parser[j].fields}) > Limit

\* Every extraction ends, however the cache changes while it looks around.
ExtractionEnds == \A w \in Workers : job[w].pc # "idle" ~> job[w].pc = "idle"

-----------------------------------------------------------------------------
\* REGEX_CACHING_ARCHITECTURE.md: "Request 1 ... generates regex -> caches;
\* Request 2 ... cache hit! (same fields)": a cached parser for the fields
\* asked for, which matches the page, is not passed over.
CachedIsReused ==
  \A w \in Workers :
    job[w].pc = "extract" =>
      \A i \in job[w].known :
        Covers(i, job[w].url, Request(w)) /\ parser[i].fields = Request(w)
          => ~parser[i].active \/ ~Matches(w, i)
=============================================================================
