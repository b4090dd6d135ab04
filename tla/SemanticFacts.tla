---------------------------- MODULE SemanticFacts ----------------------------
(***************************************************************************)
(* The table semantic_facts of core/store.py with its full text index, and *)
(* those who write it: the discovery job, which seeds facts of the schema, *)
(* removes duplicates and extracts facts from source files; chat requests, *)
(* which store corrections; and administrators, who edit and delete rows   *)
(* (api/routes/knowledge.py).  A save is two transactions: it looks for an *)
(* active row of the fact's key and then writes under the id it found.     *)
(*                                                                         *)
(* A fact is [key, claim]: the key is its source, concept and type, and    *)
(* the claim stands for the words that are indexed.  Stamps (updated_at)   *)
(* are only compared, so they are renumbered after every step; those of    *)
(* inactive rows are never compared and are 0.                             *)
(***************************************************************************)
EXTENDS Naturals, FiniteSets, Sequences, SequencesExt

CONSTANTS
    Chatters,      \* chat requests that may store a correction
    Schemas,       \* the schemas discovery may find
    Extracted,     \* the sequences of facts that may be extracted from source files
    Corrections,   \* the corrections users may make
    Size,          \* estimated tokens of a claim
    StopWords,     \* the words build_fts5_query leaves out
    Questions,     \* the sets of words users may ask with
    Anomalies,     \* the anomalies looked up: [metric, table], the words left of the metric's name
    ForQuestion, ForAnomalies,   \* the limits of the two contexts: [facts, tokens]
    MaxRows,       \* bound on the rowids
    MaxEvents      \* bound on corrections, extractions, edits and failures

Discovery == "discovery"
Writers   == Chatters \cup {Discovery}
-----------------------------------------------------------------------------
\* What a schema tells, in the order it is saved (_analyze_table): a trait of
\* a table or a column gives a fact.  The concept of a timestamp and of a flag
\* is the name of the column alone, so tables share it.
SchemaKey(concept, type) ==
    [source |-> "schema_analysis", concept |-> concept, type |-> type]

ColumnFacts(t, c) ==
    LET told == << [trait |-> "comment", concept |-> << t.name, c.name >>, type |-> "definition"],
                   [trait |-> "at",      concept |-> << c.name >>,         type |-> "mapping"],
                   [trait |-> "status",  concept |-> << t.name, "status" >>, type |-> "workflow"],
                   [trait |-> "values",  concept |-> << t.name, c.name, "values" >>, type |-> "definition"],
                   [trait |-> "flag",    concept |-> << c.name >>,         type |-> "mapping"] >>
        held == SelectSeq(told, LAMBDA f : f.trait \in c.traits)
    IN  [i \in 1..Len(held) |-> [key |-> SchemaKey(held[i].concept, held[i].type), claim |-> t.name]]

TableFacts(t) ==
    LET told == << [trait |-> "table",       concept |-> << t.name >>, type |-> "entity"],
                   [trait |-> "soft-delete", concept |-> << t.name, "soft-delete" >>, type |-> "rule"],
                   [trait |-> "rls",         concept |-> << t.name, "rls" >>, type |-> "rule"] >>
        held == SelectSeq(told, LAMBDA f : f.trait = "table" \/ f.trait \in t.traits)
    IN  [i \in 1..Len(held) |-> [key |-> SchemaKey(held[i].concept, held[i].type), claim |-> t.name]]
        \o FlattenSeq([i \in 1..Len(t.columns) |-> ColumnFacts(t, t.columns[i])])

RelationshipFact(r) ==
    [key |-> SchemaKey(<< r.from, "to", r.to >>, "mapping"), claim |-> r.from]

SchemaFacts(s) ==
    FlattenSeq([i \in 1..Len(s.tables) |-> TableFacts(s.tables[i])])
    \o [i \in 1..Len(s.rels) |-> RelationshipFact(s.rels[i])]

Correction(c) ==
    [key |-> [source |-> "user_correction", concept |-> << c.concept >>, type |-> "correction"],
     claim |-> c.claim]

Facts  == (UNION {ToSet(SchemaFacts(s)) : s \in Schemas}) \cup (UNION {ToSet(e) : e \in Extracted})
          \cup {Correction(c) : c \in Corrections}
Keys   == {f.key : f \in Facts}
Claims == {f.claim : f \in Facts}

ASSUME FactsAssumption ==
    /\ IsFiniteSet(Chatters) /\ Discovery \notin Chatters
    /\ \A s \in Schemas : SchemaFacts(s) \in Seq(Facts)
    /\ Extracted \subseteq Seq(Facts)
    /\ MaxRows \in Nat /\ MaxEvents \in Nat

ASSUME LimitsAssumption ==
    /\ \A c \in Claims : Size[c] \in Nat
    /\ {ForQuestion, ForAnomalies} \subseteq [facts : Nat, tokens : Nat]
-----------------------------------------------------------------------------
VARIABLES
    rows,     \* the table: of each rowid in use, the row
    index,    \* the full text index: which word leads to which rowid
    jobs,     \* of each writer: what it has still to save, and its open save
    events,   \* bounded by MaxEvents
    expect    \* history: of each key, the claim of its last save, or Unknown

vars == << rows, index, jobs, events, expect >>

Rowids  == DOMAIN rows
Unknown == "unknown"
Idle    == [phase |-> "idle", todo |-> << >>, id |-> 0, at |-> 0, made |-> 0, raced |-> FALSE]
Active  == {r \in Rowids : rows[r].active}
Of(k)   == {r \in Active : rows[r].key = k}
Saving(w) == jobs[w].id # 0

TypeOK ==
    /\ Rowids \subseteq 1..MaxRows
    /\ \A r \in Rowids : /\ rows[r].id \in 1..MaxRows + Cardinality(Writers)
                         /\ rows[r].key \in Keys /\ rows[r].claim \in Claims
                         /\ rows[r].at \in Nat /\ rows[r].active \in BOOLEAN
                         /\ rows[r].active => rows[r].at > 0
    /\ index \subseteq (1..MaxRows) \X Claims
    /\ \A w \in Writers : /\ jobs[w].phase \in {"idle", "seeding", "extracting", "correcting"}
                          /\ ToSet(jobs[w].todo) \subseteq Facts
                          /\ Saving(w) => jobs[w].todo # << >>
    /\ events \in 0..MaxEvents
    /\ expect \in [Keys -> Claims \cup {Unknown}]

Init ==
    /\ rows = << >> /\ index = {}
    /\ jobs = [w \in Writers |-> Idle]
    /\ events = 0
    /\ expect = [k \in Keys |-> Unknown]
-----------------------------------------------------------------------------
\* Time: a stamp later than all, and the renumbering of those in use.
Stamps(rs, js) ==
    ({rs[r].at : r \in DOMAIN rs} \cup UNION {{js[w].at, js[w].made} : w \in Writers}) \ {0}
Latest == Cardinality(Stamps(rows, jobs)) + 1

Store(rs, js) ==
    LET used    == Stamps(rs, js)
        Rank(t) == Cardinality({u \in used : u <= t})
    IN  /\ rows' = [r \in DOMAIN rs |-> [rs[r] EXCEPT !.at = Rank(@)]]
        /\ jobs' = [w \in Writers |-> [js[w] EXCEPT !.at = Rank(@), !.made = Rank(@)]]

\* SQLite gives a new row the rowid after the largest in use, and the model
\* gives a new fact an id (uuid4) nobody holds.
NewRowid == Cardinality({r \in 1..MaxRows : \E q \in Rowids : r <= q}) + 1
NewId ==
    CHOOSE i \in 1..MaxRows + Cardinality(Writers) :
        i \notin {rows[r].id : r \in Rowids} \cup {jobs[w].id : w \in Writers}

\* FTS5 with external content: what leaves the index with a row are the words
\* the table holds for it now, and the rows it can name are those of the table.
FtsReplace(r, w)      == (index \ {<< r, w >>}) \cup {<< r, w >>}
FtsDeleteAbsent(left) ==
    LET listed == DOMAIN left   \* what SELECT rowid FROM semantic_facts_fts reads
    IN  {e \in index : e[1] \notin listed \ DOMAIN left}
-----------------------------------------------------------------------------
Bounded == events < MaxEvents /\ events' = events + 1

\* Facts of a schema and of a chunk are stamped when they are made, and that
\* stamp is the one of a new row; a correction has none.
Job(phase, facts, made) == [Idle EXCEPT !.phase = phase, !.todo = facts, !.made = made]

\* run_discovery_cycle: facts of the schema, then those of source files.
StartSeeding ==
    /\ jobs[Discovery].phase = "idle"
    /\ \E s \in Schemas :
         Store(rows, [jobs EXCEPT ![Discovery] = Job("seeding", SchemaFacts(s), Latest)])
    /\ UNCHANGED << index, events, expect >>

\* _detect_and_store_correction.
StartCorrection(w) ==
    /\ jobs[w].phase = "idle"
    /\ Bounded
    /\ \E c \in Corrections : jobs' = [jobs EXCEPT ![w] = Job("correcting", << Correction(c) >>, 0)]
    /\ UNCHANGED << rows, index, expect >>

\* find_existing_fact_id: an active row of the key; which one is not defined.
Existing(k) == IF Of(k) = {} THEN {NewId} ELSE {rows[r].id : r \in Of(k)}

\* save_semantic_fact up to its second transaction: the time is taken first.
Find(w) ==
    /\ jobs[w].todo # << >> /\ ~Saving(w)
    /\ LET key    == Head(jobs[w].todo).key
           rivals == {v \in Writers \ {w} : Saving(v) /\ Head(jobs[v].todo).key = key}
       IN  \E i \in Existing(key) :
             Store(rows, [v \in Writers |->
                 IF v = w THEN [jobs[w] EXCEPT !.id = i, !.at = Latest, !.raced = rivals # {}]
                 ELSE IF v \in rivals THEN [jobs[v] EXCEPT !.raced = TRUE]
                 ELSE jobs[v]])
    /\ UNCHANGED << index, events, expect >>

\* What is left of a job once its first fact is saved.
AfterFirst(j) ==
    IF j.phase = "seeding" \/ Len(j.todo) > 1
    THEN Job(j.phase, Tail(j.todo), j.made)
    ELSE Idle
Written(id) == {r \in Rowids : rows[r].id = id}

\* Variant: the index is not brought up to date with an existing row.
ResyncOnInsertOnly(r, w) ==
    IF r \in Rowids THEN index ELSE FtsReplace(r, w)
Resync(r, w) == FtsReplace(r, w)

\* The upsert and the index, in one transaction.
Save(w) ==
    /\ Saving(w)
    /\ LET j == jobs[w]
           f == Head(j.todo)
           r == IF Written(j.id) # {} THEN CHOOSE q \in Written(j.id) : TRUE ELSE NewRowid
           row == IF r \in Rowids
                  THEN [rows[r] EXCEPT !.claim = f.claim, !.at = j.at, !.active = TRUE]
                  ELSE [id |-> j.id, key |-> f.key, claim |-> f.claim,
                        at |-> IF j.made = 0 THEN j.at ELSE j.made, active |-> TRUE]
       IN  /\ r <= MaxRows
           /\ Store([q \in Rowids \cup {r} |-> IF q = r THEN row ELSE rows[q]],
                    [jobs EXCEPT ![w] = AfterFirst(j)])
           /\ index' = Resync(r, f.claim)
           /\ expect' = [expect EXCEPT ![f.key] = IF j.raced THEN Unknown ELSE f.claim]
    /\ UNCHANGED events
-----------------------------------------------------------------------------
\* Variant: the oldest of the duplicates is kept.
KeepOldest(r) == \A q \in Of(rows[r].key) : rows[r].at <= rows[q].at
\* ORDER BY updated_at DESC, the first is kept.
Kept(r) == \A q \in Of(rows[r].key) : rows[q].at <= rows[r].at

\* Variant: only duplicates of facts of the schema are removed.
OfSchemaOnly(r) == rows[r].key.source = "schema_analysis"
Grouped(r) == TRUE

\* _run_source_extraction, which has these facts to save, or none.
Extraction(e) == IF e = << >> THEN Idle ELSE Job("extracting", e, Latest)

\* dedup_semantic_facts, for the rows of all sources.
Dedup ==
    /\ jobs[Discovery].phase = "seeding" /\ jobs[Discovery].todo = << >>
    /\ \E e \in Extracted \cup {<< >>} :
         /\ IF e = << >> THEN UNCHANGED events ELSE Bounded
         /\ Store([r \in Rowids |->
                     IF r \in Active /\ Grouped(r) /\ ~Kept(r)
                     THEN [rows[r] EXCEPT !.active = FALSE, !.at = 0] ELSE rows[r]],
                  [jobs EXCEPT ![Discovery] = Extraction(e)])
    /\ UNCHANGED << index, expect >>

\* A call of the store or of the LLM raises, or the timeout of the extraction
\* fires: what is left of the job is not saved.  (A request that fails before
\* it looks for its row has done nothing.)  A seeding that raises is followed
\* by the extraction all the same, without a removal of duplicates, and an
\* extraction by that of another chunk.
Fails(w) ==
    /\ Saving(w) \/ (w = Discovery /\ jobs[w].phase # "idle")
    /\ Bounded
    /\ \E e \in (IF w = Discovery THEN Extracted ELSE {}) \cup {<< >>} :
         Store(rows, [jobs EXCEPT ![w] = Extraction(e)])
    /\ UNCHANGED << index, expect >>
-----------------------------------------------------------------------------
\* An administrator writes a row: nobody can tell what is to be expected of
\* its key until the next save.
Edited(k, rs) ==
    /\ Bounded
    /\ Store(rs, [w \in Writers |->
           IF Saving(w) /\ Head(jobs[w].todo).key = k THEN [jobs[w] EXCEPT !.raced = TRUE] ELSE jobs[w]])
    /\ expect' = [expect EXCEPT ![k] = Unknown]

\* update_semantic_fact: PATCH /facts/{fact_id}.
Patch(r, active, claim) ==
    /\ Edited(rows[r].key,
              [rows EXCEPT ![r].active = active, ![r].claim = claim,
                           ![r].at = IF active THEN Latest ELSE 0])
    /\ index' = Resync(r, claim)

\* delete_semantic_fact: DELETE /facts/{fact_id}.
Delete(r) ==
    /\ Edited(rows[r].key, [q \in Rowids \ {r} |-> rows[q]])
    /\ index' = FtsDeleteAbsent([q \in Rowids \ {r} |-> rows[q]])

Administrator ==
    \E r \in Rowids :
        \/ \E active \in BOOLEAN, f \in {g \in Facts : g.key = rows[r].key} : Patch(r, active, f.claim)
        \/ Delete(r)
-----------------------------------------------------------------------------
Next ==
    \/ StartSeeding \/ Dedup \/ Administrator
    \/ \E w \in Chatters : StartCorrection(w)
    \/ \E w \in Writers : Find(w) \/ Save(w) \/ Fails(w)

Spec == Init /\ [][Next]_vars

\* The discovery job fires again and its calls return, as those of a request:
\* weak fairness, with what enables each step in the place of ENABLED.
Idling    == jobs[Discovery].phase = "idle"
Seeded    == jobs[Discovery].phase = "seeding" /\ jobs[Discovery].todo = << >>
Unsaved(w) == jobs[w].todo # << >>

FairSpec ==
    /\ Spec
    /\ []<>~Idling \/ []<><< StartSeeding >>_vars
    /\ []<>~Seeded \/ []<><< Dedup >>_vars
    /\ \A w \in Writers : []<>~Unsaved(w) \/ []<><< Find(w) \/ Save(w) >>_vars
-----------------------------------------------------------------------------
\* build_fts5_query: the words that mean something, or all where none does.
SearchWords(words) == IF words \ StopWords = {} THEN words ELSE words \ StopWords

\* _build_anomaly_search_query: the words of the metric, its table, and of the
\* table's columns the first five.
AnomalyWords(a, schema) ==
    LET tables == {t \in ToSet(schema.tables) : t.name = a.table}
    IN  a.metric \cup ({a.table} \ {"none"})
        \cup UNION {{t.columns[i].name : i \in {i \in 1..Len(t.columns) : i <= 5}} : t \in tables}

Searches == Questions \cup {AnomalyWords(a, s) : a \in Anomalies, s \in Schemas}

\* search_semantic_facts: the active rows a word leads to, in the order of
\* their rank, which is any.
Found(words) == {r \in Active : \E w \in SearchWords(words) : << r, w >> \in index}
Ranked(words) == {s \in [1..Cardinality(Found(words)) -> Found(words)] : IsInjective(s)}

Priority(r) ==
    CASE rows[r].key.source = "user_correction" -> 0
      [] rows[r].key.source = "code_extraction" -> 1
      [] OTHER -> 3

\* Variant: the pool is no wider than the context.
NarrowCandidates(s, limits) == SubSeq(s, 1, IF Len(s) < limits.facts THEN Len(s) ELSE limits.facts)
\* Three times the facts that may be used.
Pool(limits) == 3 * limits.facts
Candidates(s, limits) == SubSeq(s, 1, IF Len(s) < Pool(limits) THEN Len(s) ELSE Pool(limits))

\* The sort by source, then rank: which positions go before one, and the rows
\* in their new places.
Ahead(s, j) ==
    {i \in 1..Len(s) : \/ Priority(s[i]) < Priority(s[j])
                       \/ Priority(s[i]) = Priority(s[j]) /\ i < j}
ByPriority(s) ==
    [n \in 1..Len(s) |-> s[CHOOSE j \in 1..Len(s) : Cardinality(Ahead(s, j)) = n - 1]]

\* The tokens of the facts of a sequence, and how many facts are used: the
\* first that exceeds what is left of the budget ends them.
Tokens(s) == UNION {{i} \X (1..Size[rows[s[i]].claim]) : i \in 1..Len(s)}
Fitting(s, limits) ==
    {n \in 1..Len(s) : n <= limits.facts /\ Cardinality(Tokens(SubSeq(s, 1, n))) <= limits.tokens}

\* The facts of the prompt.
Context(s, limits) ==
    LET sorted == ByPriority(Candidates(s, limits))
    IN  SubSeq(sorted, 1, Cardinality(Fitting(sorted, limits)))

\* get_freshness_status, of when the last extraction ended and of what is
\* recorded with it.
Freshness(meta) ==
    CASE meta.at = "never"                    -> "unavailable"
      [] meta.at = "invalid" \/ (meta.at # "never" /\ meta.failed) -> "error"
      [] meta.at = "yesterday" /\ ~meta.failed -> "stale"
      [] meta.at = "today" /\ ~meta.failed     -> "current"
Metas == [at : {"never", "invalid", "yesterday", "today"}, failed : BOOLEAN]

\* run_chat_agent asks for no facts as long as nothing was ever extracted.
QuestionContext(meta, s) ==
    IF Freshness(meta) = "unavailable" THEN << >> ELSE Context(s, ForQuestion)
\* get_context_for_anomalies.
AnomalyContext(meta, s) ==
    IF Freshness(meta) \in {"unavailable", "error"} THEN << >> ELSE Context(s, ForAnomalies)
-----------------------------------------------------------------------------
\* After saves that did not overlap, the newest active row of a key holds the
\* last claim saved: neither a duplicate nor the removal of duplicates brings
\* an older claim back.
LastSaveStands ==
    \A k \in Keys : expect[k] # Unknown =>
        \E r \in Of(k) : /\ rows[r].claim = expect[k]
                         /\ \A q \in Of(k) : rows[q].at <= rows[r].at

\* An active row is found by the words it holds, whatever has become of the
\* rows that had its rowid or its words before.
ActiveFactsAreFound == \A r \in Active : << r, rows[r].claim >> \in index

\* A context that is not withheld uses what matches as the sources rank it: no
\* fact of a worse one is in it while a better one within the pool was left
\* out, and a correction that is affordable comes first, whatever its rank.
BestFirst(s, limits, context) ==
    LET used == ToSet(context)
    IN  /\ \A r \in ToSet(Candidates(s, limits)) \ used : \A q \in used : Priority(q) <= Priority(r)
        /\ (/\ Len(s) <= Pool(limits)
            /\ \E r \in ToSet(s) : Priority(r) = 0
            /\ \A r \in ToSet(s) : Size[rows[r].claim] <= limits.tokens)
           => used # {} /\ Priority(context[1]) = 0

\* In the prompt of a chat and in that of diagnostics alike, users' corrections
\* stand before what was read from source code, and that before what the
\* schema tells.
CorrectionsComeFirst ==
    \A words \in Searches : \A s \in Ranked(words) : \A meta \in Metas :
        /\ Freshness(meta) # "unavailable" => BestFirst(s, ForQuestion, QuestionContext(meta, s))
        /\ Freshness(meta) \in {"current", "stale"} => BestFirst(s, ForAnomalies, AnomalyContext(meta, s))

\* Two rows of a key that are active at once, of overlapping saves or of an
\* administrator who reactivates one, do not stay: discovery removes them.
DuplicatesGo == \A k \in Keys : Cardinality(Of(k)) > 1 ~> Cardinality(Of(k)) <= 1
=============================================================================
