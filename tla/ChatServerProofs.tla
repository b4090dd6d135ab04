--------------------------- MODULE ChatServerProofs ---------------------------
(***************************************************************************)
(* Theorems about ChatServer, for every set of requests and users, every   *)
(* set of plans, every size of the pool and every number of turns a        *)
(* session keeps, as long as there are: whoever names whichever session,   *)
(* turns stay with their owner and a session remembers its last ones.      *)
(***************************************************************************)
EXTENDS ChatServer, FiniteSetTheorems, TLAPS

Stages == Over \cup
    {"new", "snapshot", "plan", "tools", "explain", "between", "query",
     "synthesis", "correction", "answer", "lookup", "fallback", "save"}

Entry == [user : Users, active : 1..MaxTime, turns : Seq(Requests)]

(***************************************************************************)
(* The inductive invariant.  Of the pool: the connections are held by the  *)
(* requests that are at EXPLAIN or at their query.                         *)
(***************************************************************************)
PoolInv ==
    /\ pc \in [Requests -> Stages]
    /\ held \subseteq Requests /\ IsFiniteSet(held) /\ Cardinality(held) <= PoolSize
    /\ \A r \in Requests : (r \in held) <=> (pc[r] \in {"explain", "query"})

Store ==
    /\ now \in 1..MaxTime
    /\ DOMAIN sessions \subseteq Requests
    /\ sessions = [s \in DOMAIN sessions |-> sessions[s]]
    /\ \A s \in DOMAIN sessions : sessions[s] \in Entry
    /\ session \in [Requests -> Requests \cup {None}]
    /\ context \in [Requests -> Seq(Requests)]
    /\ log \in [Requests -> Seq(Requests)]

\* A session, and what is remembered of it, begins with the request it is named after.
Begun ==
    \A s \in Requests : s \in DOMAIN sessions \/ log[s] # << >> => pc[s] # "new"

\* A request that has begun has a session, of its own user, which has begun too.
Mine ==
    \A r \in Requests : pc[r] # "new" =>
        /\ session[r] \in Requests /\ pc[session[r]] # "new"
        /\ UserOf[session[r]] = UserOf[r]

OfUser(turns, u) == \A i \in DOMAIN turns : UserOf[turns[i]] = u

Own ==
    /\ \A s \in DOMAIN sessions :
         /\ sessions[s].user = UserOf[s]
         /\ OfUser(sessions[s].turns, UserOf[s])
    /\ \A r \in Requests : OfUser(context[r], UserOf[r])

\* The last turns of a session's history.
Ending(h) ==
    SubSeq(h, Len(h) - (IF Len(h) < MaxTurns THEN Len(h) ELSE MaxTurns) + 1, Len(h))

Remembered == \A s \in DOMAIN sessions : sessions[s].turns = Ending(log[s])

SessionsInv == Store /\ Begun /\ Mine /\ Own /\ Remembered

\* The rest are types.
RestInv ==
    /\ analyzer \in BOOLEAN /\ connected \in BOOLEAN /\ (connected => analyzer)
    /\ stored \subseteq Corrects
    /\ expires \in [Queries -> 0..MaxTime + CacheTTL]

ChatInv == PoolInv /\ SessionsInv /\ RestInv

(***************************************************************************)
(* What the store keeps of a session is the end of its history: adding a   *)
(* turn to both keeps it so.  Cutting the list to its last turns after     *)
(* each of them loses none of the last turns of the whole history.         *)
(***************************************************************************)
LEMMA EndingType ==
  ASSUME NEW h \in Seq(Requests)
  PROVE  /\ Ending(h) \in Seq(Requests) /\ Len(Ending(h)) <= MaxTurns
         /\ Len(Ending(h)) = IF Len(h) < MaxTurns THEN Len(h) ELSE MaxTurns
         /\ \A i \in 1..Len(Ending(h)) : Ending(h)[i] = h[Len(h) - Len(Ending(h)) + i]
  <1> DEFINE n == IF Len(h) < MaxTurns THEN Len(h) ELSE MaxTurns
  <1>1. n \in Nat /\ n <= Len(h) /\ n <= MaxTurns
    BY ChatAssumption
  <1>2. Ending(h) = SubSeq(h, Len(h) - n + 1, Len(h))
    BY DEF Ending
  <1> HIDE DEF n
  <1>3. /\ SubSeq(h, Len(h) - n + 1, Len(h)) \in Seq(Requests)
        /\ Len(SubSeq(h, Len(h) - n + 1, Len(h))) = n
        /\ \A i \in 1..n : SubSeq(h, Len(h) - n + 1, Len(h))[i] = h[Len(h) - n + i]
    BY <1>1
  <1> QED BY <1>1, <1>2, <1>3 DEF n

LEMMA SameTurns ==
  ASSUME NEW S, NEW p \in Seq(S), NEW q \in Seq(S), Len(p) = Len(q),
         \A i \in 1..Len(p) : p[i] = q[i]
  PROVE  p = q
  OBVIOUS

LEMMA TurnsEnd ==
  ASSUME NEW h \in Seq(Requests), NEW r \in Requests
  PROVE  LastTurns(Append(Ending(h), r)) = Ending(Append(h, r))
  <1> DEFINE e == Ending(h)
             k == Len(e)
             a == Append(e, r)
             g == Append(h, r)
             from == IF Len(a) > MaxTurns THEN Len(a) - MaxTurns + 1 ELSE 1
             l == LastTurns(a)
  <1>1. /\ e \in Seq(Requests) /\ k <= MaxTurns
        /\ k = IF Len(h) < MaxTurns THEN Len(h) ELSE MaxTurns
        /\ \A i \in 1..k : e[i] = h[Len(h) - k + i]
    BY EndingType
  <1>2. /\ a \in Seq(Requests) /\ Len(a) = k + 1
        /\ \A i \in 1..k + 1 : a[i] = IF i = k + 1 THEN r ELSE e[i]
    BY <1>1
  <1>3. /\ g \in Seq(Requests) /\ Len(g) = Len(h) + 1
        /\ \A i \in 1..Len(h) + 1 : g[i] = IF i = Len(h) + 1 THEN r ELSE h[i]
    OBVIOUS
  <1>4. l = SubSeq(a, from, Len(a))
    BY DEF LastTurns
  <1> HIDE DEF e, a, g, l
  <1>5. from \in 1..Len(a)
    BY <1>1, <1>2, ChatAssumption
  <1>6. /\ Ending(g) \in Seq(Requests)
        /\ Len(Ending(g)) = IF Len(g) < MaxTurns THEN Len(g) ELSE MaxTurns
        /\ \A i \in 1..Len(Ending(g)) : Ending(g)[i] = g[Len(g) - Len(Ending(g)) + i]
    BY <1>3, EndingType
  <1>7. /\ l \in Seq(Requests) /\ Len(l) = Len(a) - from + 1
        /\ \A i \in 1..Len(l) : l[i] = a[from + i - 1]
    <2> HIDE DEF from
    <2> QED BY <1>2, <1>4, <1>5
  <1> DEFINE L == Len(h)
             n == Len(Ending(g))
  <1>8. /\ MaxTurns \in Nat \ {0} /\ L \in Nat /\ n \in Nat
        /\ k = IF L < MaxTurns THEN L ELSE MaxTurns
        /\ n = IF L + 1 < MaxTurns THEN L + 1 ELSE MaxTurns
        /\ from = IF k + 1 > MaxTurns THEN k + 1 - MaxTurns + 1 ELSE 1
        /\ Len(l) = k + 1 - from + 1 /\ Len(g) = L + 1
    BY <1>1, <1>2, <1>3, <1>6, <1>7, ChatAssumption
  <1> HIDE DEF L, n, k, from
  <1>9. Len(l) = n /\ k \in Nat /\ k <= L /\ from \in Nat /\ from >= 1 /\ n = k + 1 - from + 1
    BY <1>8
  <1>10. ASSUME NEW i \in 1..Len(l) PROVE l[i] = Ending(g)[i]
    <2> DEFINE j == from + i - 1
               m == L - k + j
    <2>1. i \in 1..n
      BY <1>9
    <2>2. j \in 1..k + 1 /\ m \in 1..L + 1 /\ (L + 1) - n + i = m
      BY <1>8, <1>9, <2>1
    <2>3. l[i] = a[j] /\ Ending(g)[i] = g[m]
      <3>1. l[i] = a[j]
        BY <1>7, <1>9, <2>1
      <3>2. Ending(g)[i] = g[(L + 1) - n + i]
        BY <1>6, <1>8, <2>1 DEF n
      <3> QED BY <2>2, <3>1, <3>2
    <2>4. m = L + 1 <=> j = k + 1
      BY <1>8, <1>9, <2>2
    <2> HIDE DEF j, m
    <2>5. CASE j = k + 1
      <3>1. a[j] = r /\ g[m] = r
        BY <1>2, <1>3, <2>2, <2>4, <2>5 DEF L
      <3> QED BY <2>3, <3>1
    <2>6. CASE j # k + 1
      <3>1. j \in 1..k /\ m = L - k + j
        BY <1>9, <2>2, <2>6 DEF m
      <3>2. a[j] = e[j] /\ e[j] = h[m]
        BY <1>1, <1>2, <2>2, <2>6, <3>1 DEF L
      <3>3. g[m] = h[m]
        BY <1>3, <2>2, <2>4, <2>6 DEF L
      <3> QED BY <2>3, <3>2, <3>3
    <2> QED BY <2>5, <2>6
  <1>11. l = Ending(g)
    <2>1. /\ l \in Seq(Requests) /\ Ending(g) \in Seq(Requests) /\ Len(l) = Len(Ending(g))
          /\ \A i \in 1..Len(l) : l[i] = Ending(g)[i]
      BY Zenon, <1>6, <1>7, <1>9, <1>10 DEF n
    <2> QED BY Zenon, <2>1, SameTurns
  <1> QED BY <1>11 DEF l, a, e, g
-----------------------------------------------------------------------------
(***************************************************************************)
(* What the operations of the session store do.  A lookup removes or       *)
(* refreshes a session and leaves its user and its turns as they were; a   *)
(* turn is added to the session it is meant for, and to no other.          *)
(***************************************************************************)
IsStore(N) ==
    /\ DOMAIN N \subseteq Requests /\ N = [t \in DOMAIN N |-> N[t]]
    /\ \A t \in DOMAIN N : N[t] \in Entry

\* N has no other sessions than the store, with the same users and turns.
Keeps(N) ==
    /\ IsStore(N) /\ DOMAIN N \subseteq DOMAIN sessions
    /\ \A t \in DOMAIN N : N[t].user = sessions[t].user /\ N[t].turns = sessions[t].turns

Refreshed(e)  == [e EXCEPT !.active = now]
Extended(e, turns) == [e EXCEPT !.active = now, !.turns = turns]

LEMMA EntryFields ==
  ASSUME NEW e \in Entry, now \in 1..MaxTime, NEW turns \in Seq(Requests)
  PROVE  /\ Refreshed(e) \in Entry
         /\ Refreshed(e).user = e.user /\ Refreshed(e).turns = e.turns
         /\ Extended(e, turns) \in Entry
         /\ Extended(e, turns).user = e.user /\ Extended(e, turns).turns = turns
  <1> DEFINE B == 1..MaxTime
             Q == Seq(Requests)
  <1>1. e \in [user : Users, active : B, turns : Q] /\ now \in B /\ turns \in Q
    BY DEF Entry
  <1> HIDE DEF B, Q
  <1>2. /\ Refreshed(e) \in [user : Users, active : B, turns : Q]
        /\ Refreshed(e).user = e.user /\ Refreshed(e).turns = e.turns
    BY <1>1 DEF Refreshed
  <1>3. /\ Extended(e, turns) \in [user : Users, active : B, turns : Q]
        /\ Extended(e, turns).user = e.user /\ Extended(e, turns).turns = turns
    BY <1>1 DEF Extended
  <1> QED BY Zenon, <1>2, <1>3 DEF Entry, B, Q

LEMMA Removal ==
  ASSUME Store, NEW s
  PROVE  Keeps(Without(sessions, s))
  BY Zenon DEF Store, Keeps, IsStore, Without

LEMMA Lookup ==
  ASSUME Store, NEW s, NEW u
  PROVE  Keeps(Looked(sessions, s, u))
  <1>1. CASE Expired(sessions, s)
    <2>1. Looked(sessions, s, u) = Without(sessions, s)
      BY Zenon, <1>1 DEF Looked
    <2> QED BY Zenon, <2>1, Removal
  <1>2. CASE ~Expired(sessions, s) /\ ~Owns(sessions, s, u)
    <2>1. Looked(sessions, s, u) = sessions
      BY Zenon, <1>2 DEF Looked
    <2>2. Keeps(sessions)
      BY Zenon DEF Store, Keeps, IsStore
    <2> QED BY Zenon, <1>2, <2>1, <2>2
  <1>3. CASE ~Expired(sessions, s) /\ Owns(sessions, s, u)
    <2> DEFINE N == Looked(sessions, s, u)
    <2>1. s \in DOMAIN sessions /\ sessions[s] \in Entry
      BY Zenon, <1>3 DEF Owns, Alive, Store
    <2>2. N = [sessions EXCEPT ![s] = Refreshed(sessions[s])]
      BY Zenon, <1>3 DEF Looked, Refreshed
    <2>3. /\ Refreshed(sessions[s]) \in Entry
          /\ Refreshed(sessions[s]).user = sessions[s].user
          /\ Refreshed(sessions[s]).turns = sessions[s].turns
      BY <2>1, EntryFields DEF Store
    <2> HIDE DEF N
    <2>4. /\ DOMAIN N = DOMAIN sessions /\ N = [t \in DOMAIN N |-> N[t]]
          /\ N[s] = Refreshed(sessions[s])
          /\ \A t \in DOMAIN N : t # s => N[t] = sessions[t]
      BY Zenon, <2>1, <2>2 DEF Store
    <2>5. Keeps(N)
      BY Zenon, <2>1, <2>3, <2>4 DEF Store, Keeps, IsStore
    <2> QED BY Zenon, <2>1, <2>4, <2>5 DEF N
  <1> QED BY Zenon, <1>1, <1>2, <1>3

LEMMA Addition ==
  ASSUME Store, NEW s \in Requests, NEW r \in Requests,
         NEW turns \in Seq(Requests),
         s \in DOMAIN sessions => turns = LastTurns(Append(sessions[s].turns, r))
  PROVE  LET N == TurnAdded(sessions, s, r)
         IN  /\ IsStore(N) /\ DOMAIN N \subseteq DOMAIN sessions
             /\ \A t \in DOMAIN N :
                  /\ N[t].user = sessions[t].user
                  /\ N[t].turns = IF t = s THEN turns ELSE sessions[t].turns
  <1> DEFINE N == TurnAdded(sessions, s, r)
  <1>1. CASE ~Alive(sessions, s)
    <2>1. N = Without(sessions, s)
      BY Zenon, <1>1 DEF TurnAdded
    <2>2. s \notin DOMAIN N
      BY Zenon, <2>1 DEF Without
    <2>3. Keeps(N)
      BY Zenon, <2>1, Removal
    <2> HIDE DEF N
    <2>4. /\ IsStore(N) /\ DOMAIN N \subseteq DOMAIN sessions
          /\ \A t \in DOMAIN N :
                  /\ N[t].user = sessions[t].user
                  /\ N[t].turns = IF t = s THEN turns ELSE sessions[t].turns
      BY Zenon, <2>2, <2>3 DEF Keeps
    <2> QED BY Zenon, <2>4 DEF N
  <1>2. CASE Alive(sessions, s)
    <2>1. s \in DOMAIN sessions /\ sessions[s] \in Entry
      BY Zenon, <1>2 DEF Alive, Store
    <2>2. N = [sessions EXCEPT ![s] = Extended(sessions[s], turns)]
      BY <1>2, <2>1 DEF TurnAdded, Extended
    <2>3. /\ Extended(sessions[s], turns) \in Entry
          /\ Extended(sessions[s], turns).user = sessions[s].user
          /\ Extended(sessions[s], turns).turns = turns
      BY <2>1, EntryFields DEF Store
    <2> HIDE DEF N
    <2>4. /\ DOMAIN N = DOMAIN sessions /\ N = [t \in DOMAIN N |-> N[t]]
          /\ N[s] = Extended(sessions[s], turns)
          /\ \A t \in DOMAIN N : t # s => N[t] = sessions[t]
      BY Zenon, <2>1, <2>2 DEF Store
    <2>5. IsStore(N)
      BY Zenon, <2>3, <2>4 DEF Store, IsStore
    <2>6. \A t \in DOMAIN N :
                  /\ N[t].user = sessions[t].user
                  /\ N[t].turns = IF t = s THEN turns ELSE sessions[t].turns
      BY Zenon, <2>3, <2>4
    <2>7. /\ IsStore(N) /\ DOMAIN N \subseteq DOMAIN sessions
          /\ \A t \in DOMAIN N :
                  /\ N[t].user = sessions[t].user
                  /\ N[t].turns = IF t = s THEN turns ELSE sessions[t].turns
      BY Zenon, <2>4, <2>5, <2>6
    <2> QED BY Zenon, <2>7 DEF N
  <1> QED BY Zenon, <1>1, <1>2

LEMMA Creation ==
  ASSUME Store, NEW N, Keeps(N), NEW s \in Requests, NEW u \in Users
  PROVE  LET C == Created(N, s, u)
         IN  /\ IsStore(C) /\ DOMAIN C = DOMAIN N \cup {s}
             /\ C[s].user = u /\ C[s].turns = << >>
             /\ \A t \in DOMAIN C : t # s => C[t] = N[t]
  <1> DEFINE C == Created(N, s, u)
             new == [user |-> u, active |-> now, turns |-> << >>]
  <1>1. C = [t \in DOMAIN N \cup {s} |-> IF t = s THEN new ELSE N[t]]
    BY Zenon DEF Created
  <1>2. new \in Entry /\ new.user = u /\ new.turns = << >>
    BY DEF Entry, Store
  <1> HIDE DEF C, new
  <1>3. DOMAIN C = DOMAIN N \cup {s} /\ C = [t \in DOMAIN C |-> C[t]] /\ C[s] = new
    BY Zenon, <1>1
  <1>4. \A t \in DOMAIN C : t # s => C[t] = N[t]
    BY Zenon, <1>1, <1>3
  <1>5. IsStore(C)
    BY Zenon, <1>2, <1>3, <1>4 DEF Keeps, IsStore
  <1>6. /\ IsStore(C) /\ DOMAIN C = DOMAIN N \cup {s}
        /\ C[s].user = u /\ C[s].turns = << >>
        /\ \A t \in DOMAIN C : t # s => C[t] = N[t]
    BY Zenon, <1>2, <1>3, <1>4, <1>5
  <1> QED BY Zenon, <1>6 DEF C
-----------------------------------------------------------------------------
(***************************************************************************)
(* The three kinds of steps: those that leave the sessions alone, an       *)
(* answer, and the beginning of a request.                                 *)
(***************************************************************************)
OnTheWay == \A q \in Requests : pc'[q] = "new" <=> pc[q] = "new"

LEMMA QuietSteps ==
  ASSUME SessionsInv, UNCHANGED << chat, log >>, now' \in 1..MaxTime, OnTheWay
  PROVE  SessionsInv'
  <1>1. /\ sessions' = sessions /\ session' = session /\ context' = context /\ log' = log
    BY Zenon DEF chat
  <1>2. Store'
    BY Zenon, <1>1 DEF SessionsInv, Store
  <1>3. Begun'
    BY Zenon, <1>1 DEF SessionsInv, Begun, OnTheWay
  <1>5. Mine'
    BY Zenon, <1>1 DEF SessionsInv, Mine, OnTheWay
  <1>4. Own' /\ Remembered'
    BY Zenon, <1>1 DEF SessionsInv, Own, OfUser, Remembered, Ending
  <1> QED BY Zenon, <1>2, <1>3, <1>4, <1>5 DEF SessionsInv

\* A turn by the owner of the session, added to its turns, leaves its turns with the owner.
LEMMA OwnTurn ==
  ASSUME NEW h \in Seq(Requests), NEW u, OfUser(Ending(h), u), NEW r \in Requests, UserOf[r] = u
  PROVE  OfUser(Ending(Append(h, r)), u)
  <1> DEFINE a == Append(Ending(h), r)
             from == IF Len(a) > MaxTurns THEN Len(a) - MaxTurns + 1 ELSE 1
  <1>1. Ending(h) \in Seq(Requests)
    BY EndingType
  <1>2. a \in Seq(Requests) /\ \A i \in 1..Len(a) : a[i] = r \/ (i \in DOMAIN Ending(h) /\ a[i] = Ending(h)[i])
    BY <1>1
  <1>3. \A i \in 1..Len(a) : UserOf[a[i]] = u
    BY Zenon, <1>2 DEF OfUser
  <1>4. Ending(Append(h, r)) = SubSeq(a, from, Len(a))
    BY TurnsEnd DEF LastTurns
  <1> HIDE DEF a
  <1>5. Len(a) \in Nat /\ from \in Nat /\ from >= 1
    BY <1>2, ChatAssumption
  <1> HIDE DEF from
  <1>6. \A i \in DOMAIN SubSeq(a, from, Len(a)) :
            from + i - 1 \in 1..Len(a) /\ SubSeq(a, from, Len(a))[i] = a[from + i - 1]
    BY <1>2, <1>5
  <1>7. SUFFICES ASSUME NEW i \in DOMAIN SubSeq(a, from, Len(a))
                 PROVE  UserOf[SubSeq(a, from, Len(a))[i]] = u
    BY Zenon, <1>4 DEF OfUser
  <1>8. from + i - 1 \in 1..Len(a) /\ SubSeq(a, from, Len(a))[i] = a[from + i - 1]
    BY <1>6
  <1> QED BY <1>3, <1>8

LEMMA AnswerSteps ==
  ASSUME SessionsInv, NEW r \in Requests, pc[r] # "new", Answered(r), now' = now, OnTheWay
  PROVE  SessionsInv'
  <1> DEFINE s == session[r]
             turns == Ending(Append(log[s], r))
  <1>1. s \in Requests /\ UserOf[s] = UserOf[r] /\ pc[s] # "new" /\ log[s] \in Seq(Requests)
    BY Zenon DEF SessionsInv, Mine, Store
  <1>2. Append(log[s], r) \in Seq(Requests) /\ Append(log[s], r) # << >>
    BY <1>1
  <1>3. turns \in Seq(Requests)
    BY <1>2, EndingType
  <1>4. s \in DOMAIN sessions => turns = LastTurns(Append(sessions[s].turns, r))
    BY Zenon, <1>1, TurnsEnd DEF SessionsInv, Remembered
  <1>5. /\ sessions' = TurnAdded(sessions, s, r)
        /\ log' = [log EXCEPT ![s] = Append(log[s], r)]
        /\ session' = session /\ context' = context
    BY Zenon DEF Answered
  <1>6. log' \in [Requests -> Seq(Requests)]
        /\ \A t \in Requests : log'[t] = IF t = s THEN Append(log[s], r) ELSE log[t]
    <2> DEFINE Q == Seq(Requests)
    <2>1. log \in [Requests -> Q] /\ Append(log[s], r) \in Q
      BY Zenon, <1>2 DEF SessionsInv, Store
    <2> HIDE DEF Q
    <2>2. log' \in [Requests -> Q] /\ \A t \in Requests : log'[t] = IF t = s THEN Append(log[s], r) ELSE log[t]
      BY Zenon, <1>1, <1>5, <2>1
    <2> QED BY Zenon, <2>2 DEF Q
  <1> HIDE DEF s
  <1>7. /\ IsStore(sessions') /\ DOMAIN sessions' \subseteq DOMAIN sessions
        /\ \A t \in DOMAIN sessions' :
              /\ sessions'[t].user = sessions[t].user
              /\ sessions'[t].turns = IF t = s THEN turns ELSE sessions[t].turns
    <2> HIDE DEF turns
    <2> QED BY <1>1, <1>3, <1>4, <1>5, Addition DEF SessionsInv
  <1>8. Store'
    BY Zenon, <1>5, <1>6, <1>7 DEF SessionsInv, Store, IsStore, Entry
  <1>9. Begun'
    <2> SUFFICES ASSUME NEW t \in Requests, t \in DOMAIN sessions' \/ log'[t] # << >> PROVE pc[t] # "new"
      BY Zenon DEF Begun, OnTheWay
    <2>1. CASE t \in DOMAIN sessions \/ log[t] # << >>
      BY Zenon, <2>1 DEF SessionsInv, Begun
    <2>2. CASE ~(t \in DOMAIN sessions \/ log[t] # << >>)
      <3>1. t = s
        BY Zenon, <1>6, <1>7, <2>2
      <3> QED BY Zenon, <3>1, <1>1
    <2> QED BY Zenon, <2>1, <2>2
  <1>10. Mine'
    BY Zenon, <1>5 DEF SessionsInv, Mine, OnTheWay
  <1>11. Own'
    <2>1. ASSUME NEW t \in DOMAIN sessions'
          PROVE  sessions'[t].user = UserOf[t] /\ OfUser(sessions'[t].turns, UserOf[t])
      <3>1. t \in DOMAIN sessions /\ sessions'[t].user = UserOf[t]
        BY Zenon, <1>7, <2>1 DEF SessionsInv, Own
      <3>2. CASE t # s
        BY Zenon, <1>7, <2>1, <3>1, <3>2 DEF SessionsInv, Own
      <3>3. CASE t = s
        <4>1. sessions[s].turns = Ending(log[s]) /\ OfUser(sessions[s].turns, UserOf[s])
          BY Zenon, <3>1, <3>3 DEF SessionsInv, Own, Remembered
        <4>2. OfUser(turns, UserOf[s])
          BY Zenon, <1>1, <4>1, OwnTurn
        <4> QED BY Zenon, <1>7, <2>1, <3>1, <3>3, <4>2
      <3> QED BY Zenon, <3>2, <3>3
    <2>2. \A q \in Requests : OfUser(context'[q], UserOf[q])
      BY Zenon, <1>5 DEF SessionsInv, Own
    <2> QED BY Zenon, <2>1, <2>2 DEF Own, OfUser
  <1>12. Remembered'
    <2> SUFFICES ASSUME NEW t \in DOMAIN sessions' PROVE sessions'[t].turns = Ending(log'[t])
      BY Zenon DEF Remembered, Ending
    <2>1. t \in DOMAIN sessions /\ t \in Requests /\ sessions[t].turns = Ending(log[t])
      BY Zenon, <1>7 DEF SessionsInv, Remembered, Store
    <2> QED BY Zenon, <1>6, <1>7, <2>1
  <1> QED BY Zenon, <1>8, <1>9, <1>10, <1>11, <1>12 DEF SessionsInv

LEMMA BeginSteps ==
  ASSUME SessionsInv, pc \in [Requests -> Stages],
         NEW r \in Requests, NEW given \in DOMAIN sessions \cup {None}, Begin(r, given)
  PROVE  SessionsInv'
  <1> DEFINE u == UserOf[r]
             N == IF given = None THEN sessions ELSE Looked(sessions, given, u)
             s == IF given # None /\ Owns(N, given, u) THEN given ELSE r
  <1>1. /\ pc[r] = "new" /\ u \in Users
        /\ session' = [session EXCEPT ![r] = s]
        /\ sessions' = IF s = r THEN Created(N, r, u) ELSE N
        /\ context' = [context EXCEPT ![r] = sessions'[s].turns]
        /\ now' = now /\ log' = log
    BY Zenon, ChatAssumption DEF Begin
  <1>2. /\ pc'[r] # "new"
        /\ \A q \in Requests : q # r => pc'[q] = pc[q]
    BY DEF Begin, Go
  <1>3. Keeps(N)
    <2>1. Keeps(sessions)
      BY Zenon DEF SessionsInv, Store, Keeps, IsStore
    <2> QED BY Zenon, <2>1, Lookup DEF SessionsInv
  <1>4. r \notin DOMAIN sessions /\ log[r] = << >>
    BY Zenon, <1>1 DEF SessionsInv, Begun
  <1>5. s # r => s \in DOMAIN N /\ s \in DOMAIN sessions /\ sessions[s].user = u
    BY Zenon, <1>3 DEF Owns, Alive, Keeps
  <1> HIDE DEF N, s
  <1>6. s = r => /\ IsStore(sessions') /\ DOMAIN sessions' = DOMAIN N \cup {r}
                 /\ sessions'[r].user = u /\ sessions'[r].turns = << >>
                 /\ \A t \in DOMAIN sessions' : t # r => sessions'[t] = N[t]
    <2> DEFINE C == Created(N, r, u)
    <2>1. /\ IsStore(C) /\ DOMAIN C = DOMAIN N \cup {r}
          /\ C[r].user = u /\ C[r].turns = << >>
          /\ \A t \in DOMAIN C : t # r => C[t] = N[t]
      <3> HIDE DEF u
      <3> QED BY <1>1, <1>3, Creation DEF SessionsInv
    <2>2. s = r => sessions' = C
      BY Zenon, <1>1
    <2> HIDE DEF C
    <2> QED BY Zenon, <2>1, <2>2
  <1>7. /\ IsStore(sessions') /\ DOMAIN sessions' \subseteq DOMAIN sessions \cup {r}
        /\ \A t \in DOMAIN sessions' : t # r =>
              /\ t \in DOMAIN sessions
              /\ sessions'[t].user = sessions[t].user
              /\ sessions'[t].turns = sessions[t].turns
    BY Zenon, <1>1, <1>3, <1>6 DEF Keeps
  <1>8. r \in DOMAIN sessions' => sessions'[r].user = u /\ sessions'[r].turns = << >>
    <2>1. CASE s = r
      BY Zenon, <1>6, <2>1
    <2>2. CASE s # r
      BY Zenon, <1>1, <1>3, <1>4, <2>2 DEF Keeps
    <2> QED BY Zenon, <2>1, <2>2
  <1>9. s \in DOMAIN sessions' /\ s \in Requests /\ UserOf[s] = u
    <2>1. CASE s = r
      BY Zenon, <1>6, <2>1
    <2>2. CASE s # r
      BY Zenon, <1>1, <1>5, <2>2 DEF SessionsInv, Own, Store
    <2> QED BY Zenon, <2>1, <2>2
  <1>10. sessions'[s].turns \in Seq(Requests)
    BY <1>7, <1>9 DEF IsStore, Entry
  <1>11. Store'
    <2>1. session' \in [Requests -> Requests \cup {None}]
      BY Zenon, <1>1, <1>9 DEF SessionsInv, Store
    <2>2. context' \in [Requests -> Seq(Requests)]
      BY Zenon, <1>1, <1>10 DEF SessionsInv, Store
    <2> QED BY Zenon, <1>1, <1>7, <2>1, <2>2 DEF SessionsInv, Store, IsStore, Entry
  <1>12. Begun'
    BY Zenon, <1>1, <1>2, <1>4, <1>7 DEF SessionsInv, Begun
  <1>13. Mine'
    <2> SUFFICES ASSUME NEW q \in Requests, pc'[q] # "new"
                 PROVE  /\ session'[q] \in Requests /\ pc'[session'[q]] # "new"
                        /\ UserOf[session'[q]] = UserOf[q]
      BY Zenon DEF Mine
    <2>1. CASE q = r
      <3>1. session'[q] = s
        BY Zenon, <1>1, <2>1 DEF SessionsInv, Store
      <3>2. pc'[s] # "new"
        BY Zenon, <1>2, <1>5, <1>9 DEF SessionsInv, Begun
      <3> QED BY Zenon, <1>9, <2>1, <3>1, <3>2
    <2>2. CASE q # r
      <3>1. session'[q] = session[q] /\ pc'[q] = pc[q]
        BY Zenon, <1>1, <1>2, <2>2 DEF SessionsInv, Store
      <3>2. session[q] \in Requests /\ pc[session[q]] # "new" /\ UserOf[session[q]] = UserOf[q]
        BY Zenon, <3>1 DEF SessionsInv, Mine
      <3>3. pc'[session[q]] # "new"
        BY Zenon, <1>2, <3>2
      <3> QED BY Zenon, <3>1, <3>2, <3>3
    <2> QED BY Zenon, <2>1, <2>2
  <1>14. \A t \in DOMAIN sessions' :
            sessions'[t].user = UserOf[t] /\ OfUser(sessions'[t].turns, UserOf[t])
    <2> SUFFICES ASSUME NEW t \in DOMAIN sessions'
                 PROVE  sessions'[t].user = UserOf[t] /\ OfUser(sessions'[t].turns, UserOf[t])
      OBVIOUS
    <2>1. CASE t = r
      <3>1. OfUser(<< >>, u)
        BY DEF OfUser
      <3> QED BY Zenon, <1>8, <2>1, <3>1
    <2>2. CASE t # r
      BY Zenon, <1>7, <2>2 DEF SessionsInv, Own
    <2> QED BY Zenon, <2>1, <2>2
  <1>15. Own'
    <2>1. ASSUME NEW q \in Requests PROVE OfUser(context'[q], UserOf[q])
      <3>1. CASE q = r
        <4>1. context'[q] = sessions'[s].turns
          BY Zenon, <1>1, <3>1 DEF SessionsInv, Store
        <4> QED BY Zenon, <1>9, <1>14, <3>1, <4>1
      <3>2. CASE q # r
        BY Zenon, <1>1, <3>2 DEF SessionsInv, Store, Own
      <3> QED BY Zenon, <3>1, <3>2
    <2> QED BY Zenon, <1>14, <2>1 DEF Own, OfUser
  <1>16. Remembered'
    <2> SUFFICES ASSUME NEW t \in DOMAIN sessions' PROVE sessions'[t].turns = Ending(log[t])
      BY Zenon, <1>1 DEF Remembered, Ending
    <2>1. CASE t = r
      <3>1. Ending(<< >>) = << >>
        BY ChatAssumption DEF Ending
      <3> QED BY Zenon, <1>4, <1>8, <2>1, <3>1
    <2>2. CASE t # r
      BY Zenon, <1>7, <2>2 DEF SessionsInv, Remembered
    <2> QED BY Zenon, <2>1, <2>2
  <1> QED BY Zenon, <1>11, <1>12, <1>13, <1>15, <1>16 DEF SessionsInv
-----------------------------------------------------------------------------
(***************************************************************************)
(* The pool.  A request that goes from one stage to another takes a        *)
(* connection that is free, gives its own back, or is not concerned.       *)
(***************************************************************************)
Holding == {"explain", "query"}

Neutral(r, to) == pc[r] \notin Holding /\ to \notin Holding /\ held' = held
Takes(r, to)   == Free /\ to \in Holding /\ held' = held \cup {r}
Returns(r, to) == to \notin Holding /\ held' = held \ {r}

\* What every step of a request is.
Moves(r, to) ==
    /\ pc[r] # "new" /\ to \in Stages \ {"new"} /\ Go(r, to) /\ now' = now
    /\ UNCHANGED << chat, log >> \/ Answered(r)
    /\ Neutral(r, to) \/ Takes(r, to) \/ Returns(r, to)

LEMMA PoolSteps ==
  ASSUME PoolInv, NEW r \in Requests, NEW to \in Stages, Go(r, to),
         Neutral(r, to) \/ Takes(r, to) \/ Returns(r, to)
  PROVE  PoolInv'
  <1>1. /\ pc' \in [Requests -> Stages] /\ pc'[r] = to
        /\ \A q \in Requests : q # r => pc'[q] = pc[q]
    BY DEF PoolInv, Go
  <1>2. IsFiniteSet(held) /\ Cardinality(held) \in Nat /\ PoolSize \in Nat
    BY FS_CardinalityType, ChatAssumption DEF PoolInv
  <1>3. IsFiniteSet(held \cup {r}) /\ Cardinality(held \cup {r}) <= Cardinality(held) + 1
    BY <1>2, FS_AddElement
  <1>4. IsFiniteSet(held \ {r}) /\ Cardinality(held \ {r}) <= Cardinality(held)
    BY <1>2, FS_RemoveElement, FS_CardinalityType
  <1>5. held' \subseteq Requests /\ IsFiniteSet(held') /\ Cardinality(held') <= PoolSize
    <2>1. CASE Neutral(r, to)
      BY <2>1 DEF Neutral, PoolInv
    <2>2. CASE Takes(r, to)
      <3>1. Cardinality(held) + 1 <= PoolSize
        BY <1>2, <2>2 DEF Takes, Free
      <3>2. Cardinality(held \cup {r}) \in Nat
        BY <1>3, FS_CardinalityType
      <3> QED BY <1>2, <1>3, <2>2, <3>1, <3>2 DEF Takes, PoolInv
    <2>3. CASE Returns(r, to)
      <3>1. Cardinality(held \ {r}) \in Nat
        BY <1>4, FS_CardinalityType
      <3> QED BY <1>2, <1>4, <2>3, <3>1 DEF Returns, PoolInv
    <2> QED BY Zenon, <2>1, <2>2, <2>3
  <1>6. \A q \in Requests : (q \in held') <=> (pc'[q] \in Holding)
    BY <1>1 DEF PoolInv, Neutral, Takes, Returns, Holding
  <1> QED BY Zenon, <1>1, <1>5, <1>6 DEF PoolInv, Holding

LEMMA RequestSteps ==
  ASSUME PoolInv, NEW r \in Requests, Steps(r)
  PROVE  \E to \in Stages : Moves(r, to)
  <1> USE DEF Moves, Neutral, Holding, Stages, Over
  <1>1. ASSUME NEW from, NEW to, pc[r] = from, from \notin {"new", "explain", "query"},
               to \in Stages \ {"new", "explain", "query"}, Go(r, to), now' = now, held' = held,
               UNCHANGED << chat, log >> \/ Answered(r)
        PROVE  Moves(r, to)
    BY Zenon, <1>1 DEF Moves, Neutral, Holding
  <1>2. ASSUME Called(r) PROVE \E to \in {"synthesis", "tools"} : Go(r, to)
    BY Zenon, <1>2 DEF Called
  <1>3. CASE Snapshot(r)
    BY <1>1, <1>3 DEF Snapshot, work
  <1>4. CASE Plan(r)
    BY <1>1, <1>4 DEF Plan
  <1>5. CASE StoreTool(r) \/ InfrastructureTool(r) \/ UnknownTool(r)
    <2>1. /\ pc[r] = "tools" /\ Called(r) /\ now' = now /\ held' = held
          /\ UNCHANGED << chat, log >>
      BY <1>5 DEF StoreTool, InfrastructureTool, UnknownTool, Asks, AtOnce
    <2> QED BY <1>1, <1>2, <2>1
  <1>6. CASE ApplicationTool(r)
    <2>0. /\ pc[r] = "tools" /\ now' = now /\ UNCHANGED << chat, log >>
          /\ \/ Called(r) /\ held' = held
             \/ Free /\ held' = held \cup {r} /\ Go(r, "explain")
      BY Zenon, <1>6 DEF ApplicationTool, Asks
    <2>1. CASE Called(r) /\ held' = held
      BY <1>1, <1>2, <2>0, <2>1
    <2>2. CASE Free /\ held' = held \cup {r} /\ Go(r, "explain")
      BY <2>0, <2>2 DEF Takes
    <2> QED BY <2>0, <2>1, <2>2
  <1>14. CASE MalformedCall(r)
    BY <1>1, <1>14 DEF MalformedCall
  <1>7. CASE Explained(r)
    BY <1>2, <1>7 DEF Explained, AfterExplain, Returns
  <1>8. CASE RunQuery(r)
    BY <1>8 DEF RunQuery, Takes
  <1>9. CASE QueryEnds(r)
    BY <1>2, <1>9 DEF QueryEnds, Returns
  <1>10. CASE Synthesize(r) \/ StoreCorrection(r)
    BY <1>1, <1>10 DEF Synthesize, StoreCorrection, work
  <1>11. CASE Answer(r)
    BY <1>1, <1>11 DEF Answer, Answered, Fails, work
  <1>12. CASE LookUp(r)
    BY <1>1, <1>12 DEF LookUp, Answered, Fails, work
  <1>13. CASE Fallback(r) \/ SaveCache(r)
    BY <1>1, <1>13 DEF Fallback, SaveCache, Answered, Fails, work
  <1> QED BY Zenon, <1>3, <1>4, <1>5, <1>6, <1>7, <1>8, <1>9, <1>10, <1>11, <1>12, <1>13, <1>14 DEF Steps

LEMMA RestSteps ==
  ASSUME RestInv, now \in 1..MaxTime, [Next]_vars
  PROVE  RestInv'
  <1> DEFINE T == 0..MaxTime + CacheTTL
  <1>1. /\ (analyzer' = analyzer /\ connected' = connected)
           \/ (analyzer' = TRUE /\ connected' \in BOOLEAN)
        /\ stored' = stored \/ \E r \in Requests : stored' \in {stored, stored \cup ({r} \cap Corrects)}
        /\ expires' = expires \/ \E q : expires' = [expires EXCEPT ![q] = now + CacheTTL]
    <2> USE DEF Snapshot, Plan, StoreTool, InfrastructureTool, UnknownTool, AtOnce,
          ApplicationTool, MalformedCall, Explained, RunQuery, QueryEnds, Synthesize,
          StoreCorrection, Answer, setup,
          LookUp, Fallback, SaveCache, Begin, SetAnalyzer, Tick
    <2> QED BY Zenon DEF Next, Steps, vars
  <1>2. now + CacheTTL \in T
    BY ChatAssumption
  <1>3. expires' \in [Queries -> T]
    <2> HIDE DEF T
    <2> QED BY Zenon, <1>1, <1>2 DEF RestInv, T
  <1>4. /\ analyzer' \in BOOLEAN /\ connected' \in BOOLEAN
        /\ connected' => analyzer'
    <2>1. CASE analyzer' = analyzer /\ connected' = connected
      BY Zenon, <2>1 DEF RestInv
    <2>2. CASE analyzer' = TRUE /\ connected' \in BOOLEAN
      BY Zenon, <2>2
    <2> QED BY Zenon, <1>1, <2>1, <2>2
  <1>5. stored' \subseteq Corrects
    BY <1>1 DEF RestInv
  <1> QED BY Zenon, <1>3, <1>4, <1>5 DEF RestInv

(***************************************************************************)
(* The invariant holds: of any step of any request, and when the analyzer  *)
(* is registered or the clock ticks.                                       *)
(***************************************************************************)
LEMMA ChatInvariant == Spec => []ChatInv
  <1>1. Init => ChatInv
    <2> SUFFICES ASSUME Init PROVE ChatInv
      OBVIOUS
    <2>1. PoolInv
      BY FS_EmptySet, ChatAssumption DEF Init, PoolInv, Stages
    <2>2. DOMAIN sessions = {} /\ sessions = [s \in DOMAIN sessions |-> sessions[s]]
      BY DEF Init
    <2>3. << >> \in Seq(Requests) /\ 1 \in 1..MaxTime
      BY ChatAssumption
    <2>4. Store
      BY Zenon, <2>2, <2>3 DEF Init, Store
    <2>5. Begun /\ Mine
      BY Zenon, <2>2 DEF Init, Begun, Mine
    <2>6. \A r \in Requests : context[r] = << >> /\ DOMAIN context[r] = {}
      BY DEF Init
    <2>7. Own
      BY Zenon, <2>2, <2>6 DEF Own, OfUser
    <2>8. Remembered
      BY Zenon, <2>2 DEF Remembered
    <2>9. RestInv
      <3>1. analyzer \in BOOLEAN /\ connected = FALSE /\ stored \subseteq Corrects
        BY DEF Init
      <3>2. 0 \in 0..MaxTime + CacheTTL
        BY ChatAssumption
      <3>3. expires \in [Queries -> 0..MaxTime + CacheTTL]
        BY Zenon, <3>2 DEF Init
      <3> QED BY Zenon, <3>1, <3>3 DEF RestInv
    <2> QED BY Zenon, <2>1, <2>4, <2>5, <2>7, <2>8, <2>9 DEF ChatInv, SessionsInv
  <1>2. ChatInv /\ [Next]_vars => ChatInv'
    <2> SUFFICES ASSUME ChatInv, [Next]_vars PROVE ChatInv'
      OBVIOUS
    <2>1. RestInv'
      BY Zenon, RestSteps DEF ChatInv, SessionsInv, Store
    <2>2. CASE SetAnalyzer \/ Tick \/ UNCHANGED vars
      <3>1. /\ UNCHANGED << chat, log >> /\ pc' = pc /\ held' = held
            /\ now' = now \/ (now < MaxTime /\ now' = now + 1)
        BY <2>2 DEF SetAnalyzer, Tick, work, vars
      <3>2. now' \in 1..MaxTime
        BY <3>1, ChatAssumption DEF ChatInv, SessionsInv, Store
      <3>3. SessionsInv'
        BY Zenon, <3>1, <3>2, QuietSteps DEF ChatInv, OnTheWay
      <3>4. PoolInv'
        BY Zenon, <3>1 DEF ChatInv, PoolInv
      <3> QED BY Zenon, <2>1, <3>3, <3>4 DEF ChatInv
    <2>3. ASSUME NEW r \in Requests, NEW given \in DOMAIN sessions \cup {None}, Begin(r, given)
          PROVE  ChatInv'
      <3>1. SessionsInv'
        BY Zenon, <2>3, BeginSteps DEF ChatInv, PoolInv
      <3>2. /\ pc[r] = "new" /\ held' = held
            /\ Go(r, "snapshot") \/ Go(r, "lookup")
        BY Zenon, <2>3 DEF Begin, work
      <3>3. PoolInv'
        BY <3>2, PoolSteps DEF ChatInv, Neutral, Holding, Stages
      <3> QED BY Zenon, <2>1, <3>1, <3>3 DEF ChatInv
    <2>4. ASSUME NEW r \in Requests, Steps(r)
          PROVE  ChatInv'
      <3>1. PICK to \in Stages : Moves(r, to)
        BY Zenon, <2>4, RequestSteps DEF ChatInv
      <3>2. PoolInv'
        BY Zenon, <3>1, PoolSteps DEF ChatInv, Moves
      <3>3. OnTheWay
        BY <3>1 DEF OnTheWay, Moves, Go, ChatInv, PoolInv
      <3>4. SessionsInv'
        <4>1. CASE UNCHANGED << chat, log >>
          <5>1. now' \in 1..MaxTime
            BY Zenon, <3>1 DEF Moves, ChatInv, SessionsInv, Store
          <5> QED BY Zenon, <3>3, <4>1, <5>1, QuietSteps DEF ChatInv
        <4>2. CASE Answered(r)
          BY Zenon, <3>1, <3>3, <4>2, AnswerSteps DEF ChatInv, Moves
        <4> QED BY Zenon, <3>1, <4>1, <4>2 DEF Moves
      <3> QED BY Zenon, <2>1, <3>2, <3>4 DEF ChatInv
    <2> QED BY Zenon, <2>2, <2>3, <2>4 DEF Next
  <1> QED BY <1>1, <1>2, PTL DEF Spec

(***************************************************************************)
(* Turns stay with their owner (_get_or_create_session, get_context and    *)
(* _record_turn): whatever session a request names, expired or of another  *)
(* user, the turns it is given as context and those of the session it adds *)
(* its own to are exchanges of its user.                                   *)
(***************************************************************************)
THEOREM TurnsStay == Spec => []TurnsBelongToOwner
  <1>1. ChatInv => TurnsBelongToOwner
    <2> SUFFICES ASSUME ChatInv PROVE TurnsBelongToOwner
      OBVIOUS
    <2>1. ASSUME NEW turns, NEW u, OfUser(turns, u), NEW t \in ToSet(turns) PROVE UserOf[t] = u
      BY <2>1 DEF OfUser, ToSet
    <2>2. Own
      BY Zenon DEF ChatInv, SessionsInv
    <2> QED BY Zenon, <2>1, <2>2 DEF Own, TurnsBelongToOwner
  <1> QED BY <1>1, ChatInvariant, PTL

(***************************************************************************)
(* A session that exists remembers its last exchanges (add_turn): those    *)
(* answered, on whatever path, in their order, as many as there were up to *)
(* MAX_TURNS.                                                              *)
(***************************************************************************)
THEOREM LastTurnsStay == Spec => []SessionRemembers
  <1>1. ChatInv => SessionRemembers
    BY Zenon DEF ChatInv, SessionsInv, Remembered, SessionRemembers, Ending, Recent
  <1> QED BY <1>1, ChatInvariant, PTL

(***************************************************************************)
(* Types, with what holds of the pool (AppDatabasePool): no more           *)
(* connections are taken than it has, and those taken are held by requests *)
(* that use them.                                                          *)
(***************************************************************************)
THEOREM Types == Spec => []TypeOK
  <1>1. ChatInv => TypeOK
    <2> SUFFICES ASSUME ChatInv PROVE TypeOK
      OBVIOUS
    <2>1. ASSUME NEW s \in DOMAIN sessions
          PROVE  /\ sessions[s].user \in Users /\ sessions[s].active \in 1..MaxTime
                 /\ ToSet(sessions[s].turns) \subseteq Requests
                 /\ Len(sessions[s].turns) <= MaxTurns
      <3>1. sessions[s] \in Entry /\ sessions[s].turns = Ending(log[s]) /\ log[s] \in Seq(Requests)
        BY Zenon DEF ChatInv, SessionsInv, Store, Remembered
      <3>2. Len(sessions[s].turns) <= MaxTurns
        BY <3>1, EndingType
      <3>3. \A t \in Seq(Requests) : ToSet(t) \subseteq Requests
        BY DEF ToSet
      <3>4. sessions[s].turns \in Seq(Requests) /\ sessions[s].user \in Users
            /\ sessions[s].active \in 1..MaxTime
        BY <3>1 DEF Entry
      <3> QED BY Zenon, <3>2, <3>3, <3>4
    <2> QED BY Zenon, <2>1 DEF ChatInv, PoolInv, SessionsInv, Store, RestInv, TypeOK, Stages
  <1> QED BY <1>1, ChatInvariant, PTL
=============================================================================
