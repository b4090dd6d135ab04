------------------------------ MODULE ChatServer ------------------------------
(***************************************************************************)
(* POST /api/chat/query (api/routes/chat.py): the sessions held in memory  *)
(* (api/session_store.py), the agent (agent/chat_agent.py) with the pool   *)
(* of connections to the application database (core/app_db.py), and the    *)
(* answer without an LLM, with its cache of query results.                 *)
(*                                                                         *)
(* A request is a process; its steps are the code from one await to the    *)
(* next.  A session is named by the request that created it.  What queries *)
(* return is left out, and of the entries of the cache only the lifetimes  *)
(* are kept.                                                               *)
(***************************************************************************)
EXTENDS Naturals, FiniteSets, Sequences, SequencesExt

CONSTANTS
    Requests,      \* the requests
    Users, UserOf, \* who makes each
    Corrects,      \* the requests whose question states a correction
    Plans,         \* the sequences of tool calls the LLM may ask for, each [tool, formed, sql]
    AppTables,     \* the tables of the system model (get_app_table_names)
    Words,         \* the keywords in the question of each request
    PoolSize,      \* max_size of AppDatabasePool
    MaxTurns,      \* MAX_TURNS
    SessionTTL, CacheTTL,   \* in ticks of the clock
    MaxTime        \* bound on the clock

ASSUME ChatAssumption ==
    /\ UserOf \in [Requests -> Users] /\ Corrects \subseteq Requests
    /\ PoolSize \in Nat \ {0} /\ MaxTurns \in Nat \ {0}
    /\ SessionTTL \in Nat /\ CacheTTL \in Nat /\ MaxTime \in Nat \ {0}

VARIABLES
    now,        \* the clock
    analyzer,   \* whether the analyzer has been registered (set_analyzer)
    connected,  \* whether the application database's pool is connected (set_app_db)
    sessions,   \* of each session that exists: user, last_active, turns
    pc,         \* where each request is
    session,    \* the session of each request, or None
    context,    \* the turns it has been given
    tools,      \* the tools it has still to call
    held,       \* the connections: by which requests
    expires,    \* until when the entry of each query in the cache is good; 0: there is none
    stored,     \* the corrections stored
    log         \* history: of each session, the requests answered, in their order

chat == << sessions, session, context >>
work == << tools, held >>
setup == << analyzer, connected >>
vars == << now, setup, chat, pc, work, expires, stored, log >>

None  == "none"
Queries == {"metrics", "insight", "alert", "change", "cost"}
Over  == {"done", "failed"}

TypeOK ==
    /\ now \in 1..MaxTime /\ analyzer \in BOOLEAN /\ connected \in BOOLEAN
    /\ connected => analyzer
    /\ DOMAIN sessions \subseteq Requests
    /\ \A s \in DOMAIN sessions :
         /\ sessions[s].user \in Users /\ sessions[s].active \in 1..MaxTime
         /\ ToSet(sessions[s].turns) \subseteq Requests /\ Len(sessions[s].turns) <= MaxTurns
    /\ pc \in [Requests -> Over \cup
                {"new", "snapshot", "plan", "tools", "explain", "between", "query",
                 "synthesis", "correction", "answer", "lookup", "fallback", "save"}]
    /\ session \in [Requests -> Requests \cup {None}]
    /\ held \subseteq Requests /\ Cardinality(held) <= PoolSize
    /\ \A r \in Requests : (r \in held) <=> (pc[r] \in {"explain", "query"})
    /\ stored \subseteq Corrects
    /\ expires \in [Queries -> 0..MaxTime + CacheTTL]
    /\ log \in [Requests -> Seq(Requests)]

Init ==
    /\ now = 1 /\ analyzer = FALSE /\ connected = FALSE
    /\ sessions = << >>
    /\ pc = [r \in Requests |-> "new"]
    /\ session = [r \in Requests |-> None]
    /\ context = [r \in Requests |-> << >>]
    /\ tools = [r \in Requests |-> << >>]
    /\ held = {} /\ expires = [q \in Queries |-> 0]
    /\ stored = {} /\ log = [s \in Requests |-> << >>]

Go(r, to) == pc' = [pc EXCEPT ![r] = to]
-----------------------------------------------------------------------------
\* The session store.  A lookup removes a session that has expired, and refreshes one that has not.
Without(ss, s) == [t \in DOMAIN ss \ {s} |-> ss[t]]
Expired(ss, s) == s \in DOMAIN ss /\ now - ss[s].active > SessionTTL
Alive(ss, s)   == s \in DOMAIN ss /\ ~Expired(ss, s)

\* Variant: the owner of a session is not compared with the user.
AnyoneOwns(ss, s, u) == Alive(ss, s)
Owns(ss, s, u) == Alive(ss, s) /\ ss[s].user = u

\* get_session, with the user and without.
Looked(ss, s, u) ==
    IF Expired(ss, s) THEN Without(ss, s)
    ELSE IF Owns(ss, s, u) THEN [ss EXCEPT ![s].active = now] ELSE ss

\* create_session.
Created(ss, s, u) ==
    [t \in DOMAIN ss \cup {s} |->
        IF t = s THEN [user |-> u, active |-> now, turns |-> << >>] ELSE ss[t]]

\* Variant: the first turns are kept.
FirstTurns(turns) == SubSeq(turns, 1, IF Len(turns) < MaxTurns THEN Len(turns) ELSE MaxTurns)
LastTurns(turns) == SubSeq(turns, IF Len(turns) > MaxTurns THEN Len(turns) - MaxTurns + 1 ELSE 1, Len(turns))

\* add_turn.
TurnAdded(ss, s, r) ==
    IF Alive(ss, s) THEN [ss EXCEPT ![s].active = now, ![s].turns = LastTurns(Append(@, r))]
    ELSE Without(ss, s)
-----------------------------------------------------------------------------
\* chat_query up to its first await: the session, its context (get_context), and the analyzer.
Begin(r, given) ==
    /\ pc[r] = "new"
    /\ LET u  == UserOf[r]
           ss == IF given = None THEN sessions ELSE Looked(sessions, given, u)
           s  == IF given # None /\ Owns(ss, given, u) THEN given ELSE r
       IN  /\ session' = [session EXCEPT ![r] = s]
           /\ sessions' = IF s = r THEN Created(ss, r, u) ELSE ss
           /\ context' = [context EXCEPT ![r] = sessions'[s].turns]
    /\ Go(r, IF analyzer THEN "snapshot" ELSE "lookup")
    /\ UNCHANGED << now, setup, work, expires, stored, log >>

\* get_latest_system_snapshot is outside of the try statement.
Snapshot(r) ==
    /\ pc[r] = "snapshot"
    /\ Go(r, "plan") \/ Go(r, "failed")
    /\ UNCHANGED << now, setup, chat, work, expires, stored, log >>

\* The answer, recorded as a turn; the event that follows is best effort.
Answered(r) ==
    /\ sessions' = TurnAdded(sessions, session[r], r)
    /\ log' = [log EXCEPT ![session[r]] = Append(@, r)]
    /\ Go(r, "done")
    /\ UNCHANGED << session, context >>

Fails(r) == Go(r, "failed") /\ UNCHANGED << chat, log >>

\* The plan of the LLM: tools to call, or an answer without any, which returns
\* at once; or the provider raises, whatever the error.
Plan(r) ==
    /\ pc[r] = "plan"
    /\ \/ \E p \in Plans : /\ tools' = [tools EXCEPT ![r] = p]
                           /\ Go(r, IF p = << >> THEN "answer" ELSE "tools")
       \/ Go(r, "lookup") /\ UNCHANGED tools
    /\ UNCHANGED << now, setup, chat, held, expires, stored, log >>

\* A result or an error; then the next tool, or the synthesis.
Called(r) ==
    /\ tools' = [tools EXCEPT ![r] = Tail(@)]
    /\ Go(r, IF Len(tools[r]) = 1 THEN "synthesis" ELSE "tools")

\* A tool that looks at its parameters raises when they are no object, and
\* when their SQL is no text; nobody looks at those of another name, or of a
\* query of an application that is not connected.  (An entry of the plan that
\* is itself no object is one of these.)
Raises(call) ==
    /\ ~call.formed
    /\ \/ call.tool \in {"observability", "infrastructure"}
       \/ call.tool = "application" /\ connected

MalformedCall(r) ==
    /\ pc[r] = "tools" /\ Raises(Head(tools[r]))
    /\ tools' = [tools EXCEPT ![r] = << >>]
    /\ Go(r, "lookup")
    /\ UNCHANGED << now, setup, chat, held, expires, stored, log >>

Asks(r, tool) == pc[r] = "tools" /\ Head(tools[r]).tool = tool /\ ~Raises(Head(tools[r]))

\* Tools that wait for no connection of the pool: rows, or an error as the result.
AtOnce(r) == Called(r) /\ UNCHANGED << now, setup, chat, held, expires, stored, log >>

\* query_observability: refused by the sandbox, or run on the store, where
\* EXPLAIN is not asked for (SQLite).
StoreTool(r) == Asks(r, "observability") /\ AtOnce(r)
\* query_infrastructure: the services of the model, or the recent changes.
InfrastructureTool(r) == Asks(r, "infrastructure") /\ AtOnce(r)
\* Any other name.
UnknownTool(r) == Asks(r, "other") /\ AtOnce(r)

\* validate_query: anything but a single SELECT, another table than those
\* allowed, and functions that are blocked are refused.
Refused(sql) == ~sql.select \/ ~(sql.tables \subseteq AppTables) \/ sql.blocked

\* query_application: not connected or refused, or it waits for a connection
\* to ask for the plan of the query.
Free == Cardinality(held) < PoolSize

ApplicationTool(r) ==
    /\ Asks(r, "application")
    /\ IF ~connected \/ Refused(Head(tools[r]).sql)
       THEN Called(r) /\ UNCHANGED held
       ELSE /\ Free /\ held' = held \cup {r}
            /\ Go(r, "explain") /\ UNCHANGED tools
    /\ UNCHANGED << now, setup, chat, expires, stored, log >>

\* Variant: the connection of EXPLAIN is kept until the query has another.
HeldWhileWaiting(r) == held
AfterExplain(r) == held \ {r}

\* The connection is given back, then: too expensive, or the query may run,
\* which is also the answer when EXPLAIN fails.
Explained(r) ==
    /\ pc[r] = "explain"
    /\ held' = AfterExplain(r)
    /\ \/ Called(r)
       \/ Go(r, "between") /\ UNCHANGED tools
    /\ UNCHANGED << now, setup, chat, expires, stored, log >>

\* execute_sandboxed.
RunQuery(r) ==
    /\ pc[r] = "between" /\ Free
    /\ held' = held \cup {r} /\ Go(r, "query")
    /\ UNCHANGED << now, setup, chat, tools, expires, stored, log >>

QueryEnds(r) ==
    /\ pc[r] = "query"
    /\ held' = held \ {r}
    /\ Called(r)
    /\ UNCHANGED << now, setup, chat, expires, stored, log >>

\* The second call of the LLM; when it raises, the results are dropped.
Synthesize(r) ==
    /\ pc[r] = "synthesis"
    /\ Go(r, "correction") \/ Go(r, "lookup")
    /\ UNCHANGED << now, setup, chat, work, expires, stored, log >>

\* _detect_and_store_correction; an error of the store is swallowed.
StoreCorrection(r) ==
    /\ pc[r] = "correction"
    /\ stored' \in {stored, stored \cup ({r} \cap Corrects)}
    /\ Go(r, "answer")
    /\ UNCHANGED << now, setup, chat, work, expires, log >>

\* The response is made outside of the try statement, of what the LLM gave.
Answer(r) ==
    /\ pc[r] = "answer"
    /\ Answered(r) \/ Fails(r)
    /\ UNCHANGED << now, setup, work, expires, stored >>
-----------------------------------------------------------------------------
\* _build_sql_for_question: the first keyword found decides, and metrics are the default.
Topics == << "insight", "alert", "change", "cost" >>
Sql(r) ==
    LET found == {i \in DOMAIN Topics : Topics[i] \in Words[r]}
    IN  IF {"metric", "recent"} \subseteq Words[r] \/ found = {} THEN "metrics"
        ELSE Topics[CHOOSE i \in found : \A j \in found : i <= j]

\* _deterministic_fallback: the entry of its query in the cache, while it is good.
Good(r) == now <= expires[Sql(r)]

LookUp(r) ==
    /\ pc[r] = "lookup"
    /\ \/ Good(r) /\ Answered(r)
       \/ ~Good(r) /\ Go(r, "fallback") /\ UNCHANGED << chat, log >>
       \/ Fails(r)
    /\ UNCHANGED << now, setup, work, expires, stored >>

\* The query is run; when it fails, that is the answer.
Fallback(r) ==
    /\ pc[r] = "fallback"
    /\ \/ Go(r, "save") /\ UNCHANGED << chat, log >>
       \/ Answered(r)
    /\ UNCHANGED << now, setup, work, expires, stored >>

\* _save_cache: the lifetime counts from now; a store that raises loses the
\* answer, and its turn.
SaveCache(r) ==
    /\ pc[r] = "save"
    /\ \/ expires' = [expires EXCEPT ![Sql(r)] = now + CacheTTL] /\ Answered(r)
       \/ Fails(r) /\ UNCHANGED expires
    /\ UNCHANGED << now, setup, work, stored >>
-----------------------------------------------------------------------------
\* MonitorLoop.start: the pool only where queries of the application are
\* enabled and it could be connected.
SetAnalyzer ==
    /\ ~analyzer /\ analyzer' = TRUE /\ connected' \in BOOLEAN
    /\ UNCHANGED << now, chat, pc, work, expires, stored, log >>

Tick ==
    /\ now < MaxTime /\ now' = now + 1
    /\ UNCHANGED << setup, chat, pc, work, expires, stored, log >>

Steps(r) ==
    \/ Snapshot(r) \/ Plan(r) \/ StoreTool(r) \/ InfrastructureTool(r) \/ UnknownTool(r)
    \/ ApplicationTool(r) \/ MalformedCall(r) \/ Explained(r) \/ RunQuery(r) \/ QueryEnds(r)
    \/ Synthesize(r) \/ StoreCorrection(r) \/ Answer(r) \/ LookUp(r) \/ Fallback(r) \/ SaveCache(r)

Next ==
    \/ SetAnalyzer \/ Tick
    \/ \E r \in Requests : Steps(r) \/ \E given \in DOMAIN sessions \cup {None} : Begin(r, given)

Spec == Init /\ [][Next]_vars

\* Every call returns: of the LLM and of the databases (each has a timeout),
\* and a connection that is free is given to a request that waits.
FairSpec == Spec /\ \A r \in Requests : WF_vars(Steps(r))
-----------------------------------------------------------------------------
\* The turns of a session, and the context of a request, are exchanges of the
\* session's own user.
TurnsBelongToOwner ==
    /\ \A s \in DOMAIN sessions : \A t \in ToSet(sessions[s].turns) : UserOf[t] = sessions[s].user
    /\ \A r \in Requests : \A t \in ToSet(context[r]) : UserOf[t] = UserOf[r]

Recent(s) == IF Len(log[s]) < MaxTurns THEN Len(log[s]) ELSE MaxTurns

\* A session that exists remembers its last exchanges, on whatever path they
\* were answered and in the order they were: one that could not be recorded
\* has lost its session.
SessionRemembers ==
    \A s \in DOMAIN sessions :
        sessions[s].turns = SubSeq(log[s], Len(log[s]) - Recent(s) + 1, Len(log[s]))

\* Every request is answered or fails: none waits for ever for a connection.
RequestsEnd == \A r \in Requests : pc[r] = "snapshot" \/ pc[r] = "lookup" ~> pc[r] \in Over
=============================================================================
