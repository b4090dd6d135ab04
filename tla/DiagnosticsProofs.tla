-------------------------- MODULE DiagnosticsProofs --------------------------
(***************************************************************************)
(* Theorems about Diagnostics, for every number of passes, signatures,     *)
(* tables and queries, every cooldown and every retention.                 *)
(***************************************************************************)
EXTENDS Diagnostics, TLAPS

Words   == Tables \cup {Ghost}
Answers == SeqOf(Questions, 1)
Locals  == [stage : Stages, snap : Models, sig : Sigs, queries : Questions,
            diagnostics : Evidence, asked : Answers]

(***************************************************************************)
(* What the locals of a pass tell of the answer of the LLM: the evidence   *)
(* found so far and the queries still to come make up the answer.          *)
(***************************************************************************)
Accounted(l) ==
    /\ l.stage \in {"context", "lookup", "generate"} => l.diagnostics = << >>
    /\ l.stage = "execute" => l.diagnostics = << >> /\ l.asked = << l.queries >>
    /\ l.stage = "query" => l.queries # << >> /\ l.asked = << Asked(l.diagnostics) \o l.queries >>
    /\ l.stage = "save" => l.asked = << Asked(l.diagnostics) >>

(***************************************************************************)
(* The inductive invariant.  An entry is the one last saved, or it has     *)
(* been deleted after the cooldown of that one was over.                   *)
(***************************************************************************)
Shape ==
    /\ now \in 0..MaxNow /\ events \in 0..MaxEvents
    /\ model \in Models /\ connected \in BOOLEAN
    /\ cooldowns \in [Sigs -> [at : Never..MaxNow, evidence : Evidence]]
    /\ pass \in [Passes -> Locals]
    /\ saved \in [Sigs -> [at : Never..MaxNow, asked : Answers]]

Kept ==
    \A s \in Sigs : \/ cooldowns[s].at = saved[s].at
                    \/ cooldowns[s].at = Never /\ saved[s].at < now - Cooldown

DiagnosticsInv ==
    /\ Shape
    /\ \A p \in Passes : Accounted(pass[p])
    /\ AuditTrail
    /\ Kept
-----------------------------------------------------------------------------
(***************************************************************************)
(* Sequences of bounded length.                                            *)
(***************************************************************************)
LEMMA Bounded ==
  ASSUME NEW S, NEW n \in Nat, NEW s
  PROVE  s \in SeqOf(S, n) <=> s \in Seq(S) /\ Len(s) <= n
  <1>1. ASSUME s \in SeqOf(S, n) PROVE s \in Seq(S) /\ Len(s) <= n
    <2>1. PICK m \in 0..n : s \in [1..m -> S]
      BY <1>1 DEF SeqOf
    <2> QED BY <2>1
  <1>2. ASSUME s \in Seq(S), Len(s) <= n PROVE s \in SeqOf(S, n)
    <2>1. Len(s) \in 0..n /\ s \in [1..Len(s) -> S]
      BY <1>2
    <2> QED BY Zenon, <2>1 DEF SeqOf
  <1> QED BY <1>1, <1>2

LEMMA Lengths ==
  /\ \A s : s \in Questions <=> s \in Seq(Words) /\ Len(s) <= MaxQueries
  /\ \A s : s \in Evidence <=> s \in Seq([query : Words, result : Results]) /\ Len(s) <= MaxQueries
  /\ \A s : s \in Answers <=> s \in Seq(Questions) /\ Len(s) <= 1
  <1>1. MaxQueries \in Nat /\ 1 \in Nat
    BY DiagnosticsAssumption
  <1> QED BY Zenon, <1>1, Bounded DEF Questions, Evidence, Answers, Words

LEMMA NothingYet == << >> \in Questions /\ << >> \in Evidence /\ << >> \in Answers
  <1>1. \A S : << >> \in Seq(S)
    OBVIOUS
  <1>2. Len(<< >>) <= MaxQueries /\ Len(<< >>) <= 1
    BY DiagnosticsAssumption
  <1> QED BY Zenon, <1>1, <1>2, Lengths

LEMMA AnAnswer == \A qs \in Questions : << qs >> \in Answers
  <1> SUFFICES ASSUME NEW qs \in Questions PROVE << qs >> \in Answers
    OBVIOUS
  <1>1. << qs >> \in Seq(Questions) /\ Len(<< qs >>) <= 1
    OBVIOUS
  <1> QED BY Zenon, <1>1, Lengths

LEMMA Elements == \A S : \A e \in Seq(S) : \A i \in 1..Len(e) : e[i] \in S
  OBVIOUS

LEMMA Joined ==
  \A S : \A s, t \in Seq(S) : s \o t \in Seq(S) /\ Len(s \o t) = Len(s) + Len(t)
  OBVIOUS

LEMMA AskedIsSequence ==
  ASSUME NEW e \in Seq([query : Words, result : Results])
  PROVE  Asked(e) \in Seq(Words) /\ Len(Asked(e)) = Len(e)
  <1>1. DOMAIN e = 1..Len(e) /\ Len(e) \in Nat
    OBVIOUS
  <1>4. ASSUME NEW i \in 1..Len(e) PROVE e[i].query \in Words
    <2>1. e[i] \in [query : Words, result : Results]
      BY Zenon, Elements
    <2> QED BY <2>1
  <1>2. Asked(e) = [i \in 1..Len(e) |-> e[i].query]
    BY <1>1 DEF Asked
  <1>3. Asked(e) \in [1..Len(e) -> Words]
    BY <1>1, <1>2, <1>4
  <1> QED BY <1>1, <1>2, <1>3

(***************************************************************************)
(* The evidence of one more query accounts for one more query.             *)
(***************************************************************************)
LEMMA OneMore ==
  ASSUME NEW e \in Seq([query : Words, result : Results]), NEW q \in Words, NEW r \in Results
  PROVE  Asked(e \o Found(q, r)) = Asked(e) \o << q >>
  BY DEF Asked, Found

(***************************************************************************)
(* Where there is no connection every query has its evidence, too.         *)
(***************************************************************************)
LEMMA Unavailable ==
  ASSUME NEW qs \in Seq(Words), Len(qs) <= MaxQueries
  PROVE  LET e == [i \in 1..Len(qs) |-> [query |-> qs[i], result |-> "unavailable"]]
         IN  e \in Evidence /\ Asked(e) = qs
  <1> DEFINE e == [i \in 1..Len(qs) |-> [query |-> qs[i], result |-> "unavailable"]]
             S == [query : Words, result : Results]
  <1>1. ASSUME NEW i \in 1..Len(qs) PROVE e[i] \in S /\ e[i].query = qs[i]
    BY DEF Results
  <1> HIDE DEF S
  <1>2. Len(qs) \in Nat /\ e \in [1..Len(qs) -> S]
    <2>1. Len(qs) \in Nat
      OBVIOUS
    <2> QED BY Zenon, <1>1, <2>1
  <1>3. e \in Seq(S) /\ Len(e) = Len(qs) /\ DOMAIN e = 1..Len(qs)
    BY <1>2
  <1>4. e \in Evidence
    BY Zenon, <1>3, Lengths DEF S
  <1>5. Asked(e) = qs
    <2>1. Asked(e) = [i \in 1..Len(qs) |-> qs[i]]
      BY <1>1, <1>3 DEF Asked
    <2> QED BY <2>1
  <1> QED BY <1>4, <1>5
-----------------------------------------------------------------------------
LEMMA InitialState == Init => DiagnosticsInv
  <1> SUFFICES ASSUME Init PROVE DiagnosticsInv
    OBVIOUS
  <1> USE DiagnosticsAssumption
  <1>1. Never \in Never..MaxNow /\ 0 \in 0..MaxNow /\ 0 \in 0..MaxEvents
    BY DEF Never
  <1>2. Idle \in Locals /\ Accounted(Idle)
    <2>1. (CHOOSE s \in Sigs : TRUE) \in Sigs
      OBVIOUS
    <2>2. "out" \in Stages /\ NoModel \in Models
      BY DEF Stages, Models
    <2> QED BY <2>1, <2>2, NothingYet DEF Idle, Locals, Accounted
  <1>3. Shape
    BY <1>1, <1>2, NothingYet DEF Init, Shape, NoEntry, Models
  <1> QED BY <1>2, <1>3 DEF Init, DiagnosticsInv, AuditTrail, Kept, NoEntry

(***************************************************************************)
(* A step of one pass that leaves the tables alone.                        *)
(***************************************************************************)
LEMMA OnePassMoves ==
  ASSUME DiagnosticsInv, NEW p \in Passes, NEW l \in Locals, Accounted(l),
         Becomes(p, l), UNCHANGED << now, world, cooldowns, saved >>, events' \in 0..MaxEvents
  PROVE  DiagnosticsInv'
  <1>1. pass' \in [Passes -> Locals] /\ \A q \in Passes : Accounted(pass'[q])
    BY DEF Becomes, DiagnosticsInv, Shape
  <1>2. (\A q \in Passes : Accounted(pass'[q])) => (\A q \in Passes : Accounted(pass[q]))'
    BY Zenon DEF Accounted, Asked
  <1>3. Shape'
    BY <1>1 DEF DiagnosticsInv, Shape, world
  <1>4. AuditTrail' /\ Kept'
    BY DEF DiagnosticsInv, AuditTrail, Kept, Asked
  <1> QED BY <1>1, <1>2, <1>3, <1>4 DEF DiagnosticsInv

(***************************************************************************)
(* Every step keeps the invariant.                                         *)
(***************************************************************************)
LEMMA PassStep ==
  ASSUME DiagnosticsInv, NEW p \in Passes,
         \/ Start(p) \/ GateReturns(p) \/ Gate(p) \/ LookUp(p) \/ Asking(p) \/ TimesOut(p)
         \/ LookupRaises(p) \/ SaveFails(p)
  PROVE  DiagnosticsInv'
  <1> USE DiagnosticsAssumption
  <1>1. /\ pass[p] \in Locals /\ Accounted(pass[p]) /\ Idle \in Locals
        /\ now \in 0..MaxNow /\ events \in 0..MaxEvents /\ model \in Models
    <2>1. (CHOOSE s \in Sigs : TRUE) \in Sigs /\ "out" \in Stages /\ NoModel \in Models
      BY DEF Stages, Models
    <2> QED BY <2>1, NothingYet DEF DiagnosticsInv, Shape, Idle, Locals
  <1> DEFINE l == pass[p]
  <1>2. /\ l.stage \in Stages /\ l.snap \in Models /\ l.sig \in Sigs /\ l.queries \in Questions
        /\ l.diagnostics \in Evidence /\ l.asked \in Answers
    BY <1>1 DEF Locals
  <1>3. CASE Start(p)
    <2> DEFINE m == [Idle EXCEPT !.stage = "context", !.snap = model]
    <2>1. m \in Locals
      BY <1>1 DEF Locals, Stages
    <2>2. Accounted(m)
      BY DEF Accounted, Idle
    <2> QED BY <1>1, <1>3, <2>1, <2>2, OnePassMoves DEF Start
  <1>4. CASE GateReturns(p)
    <2>1. Accounted(Idle)
      BY DEF Accounted, Idle
    <2> QED BY <1>1, <1>4, <2>1, OnePassMoves DEF GateReturns
  <1>5. CASE Gate(p)
    <2>1. PICK s \in Sigs : Becomes(p, [l EXCEPT !.stage = "lookup", !.snap = Described(p), !.sig = s])
      BY <1>5 DEF Gate
    <2> DEFINE m == [l EXCEPT !.stage = "lookup", !.snap = Described(p), !.sig = s]
    <2>2. Described(p) \in Models
      BY <1>1, <1>2 DEF Described
    <2>3. m \in Locals
      BY <1>1, <2>2 DEF Locals, Stages
    <2>4. Accounted(m)
      BY <1>1, <1>5 DEF Accounted, Gate, At, Locals
    <2> QED BY <1>1, <1>5, <2>1, <2>3, <2>4, OnePassMoves DEF Gate
  <1>6. CASE LookUp(p) \/ LookupRaises(p)
    <2> DEFINE e == cooldowns[l.sig].evidence
    <2>1. e \in Evidence /\ l.stage = "lookup" /\ l.diagnostics = << >>
      BY <1>1, <1>2, <1>6 DEF LookUp, LookupRaises, At, DiagnosticsInv, Shape, Accounted
    <2> DEFINE m1 == [l EXCEPT !.stage = "evict", !.diagnostics = e]
               m2 == [l EXCEPT !.stage = "generate"]
    <2>2. m1 \in Locals /\ m2 \in Locals
      BY <1>1, <2>1 DEF Locals, Stages
    <2>3. Accounted(m1) /\ Accounted(m2)
      BY <1>1, <2>1 DEF Accounted, Locals
    <2>4. Becomes(p, m1) \/ Becomes(p, m2)
      BY <1>6 DEF LookUp, LookupRaises, Leave
    <2>5. UNCHANGED << now, world, cooldowns, saved >> /\ events' \in 0..MaxEvents
      BY <1>1, <1>6 DEF LookUp, LookupRaises
    <2> HIDE DEF m1, m2
    <2> QED BY <2>2, <2>3, <2>4, <2>5, OnePassMoves
  <1>7. CASE Generate(p)
    <2>1. l.stage = "generate" /\ l.diagnostics = << >>
      BY <1>1, <1>7 DEF Generate, At, Accounted
    <2> DEFINE m(qs) == [l EXCEPT !.stage = "execute", !.queries = qs, !.asked = << qs >>]
               n     == [l EXCEPT !.stage = "evict"]
    <2>2. ASSUME NEW qs \in Questions PROVE m(qs) \in Locals /\ Accounted(m(qs))
      <3>1. << qs >> \in Answers
        BY AnAnswer
      <3>2. m(qs) \in Locals
        BY <1>1, <3>1 DEF Locals, Stages
      <3>3. Accounted(m(qs))
        BY <1>1, <2>1 DEF Accounted, Locals
      <3> QED BY <3>2, <3>3
    <2>3. n \in Locals /\ Accounted(n)
      BY <1>1 DEF Locals, Stages, Accounted
    <2>4. (\E qs \in Questions : Becomes(p, m(qs))) \/ Becomes(p, n)
      BY <1>7, NothingYet DEF Generate, Answered, GenerationError, RecordRaises, Leave
    <2>5. UNCHANGED << now, world, cooldowns, saved >> /\ events' \in 0..MaxEvents
      BY <1>1, <1>7 DEF Generate
    <2> HIDE DEF m, n
    <2> QED BY <2>2, <2>3, <2>4, <2>5, OnePassMoves
  <1>8. CASE Execute(p)
    <2> DEFINE none == [i \in 1..Len(l.queries) |-> [query |-> l.queries[i], result |-> "unavailable"]]
               m1   == [l EXCEPT !.stage = "save"]
               m2   == [l EXCEPT !.stage = "save", !.diagnostics = none]
               m3   == [l EXCEPT !.stage = "query"]
               m4   == [l EXCEPT !.stage = "evict"]
    <2>1. l.stage = "execute" /\ l.diagnostics = << >> /\ l.asked = << l.queries >>
      BY <1>1, <1>8 DEF Execute, At, Accounted
    <2>2. l.queries \in Seq(Words) /\ Len(l.queries) <= MaxQueries
      BY Zenon, <1>2, Lengths
    <2>3. none \in Evidence /\ Asked(none) = l.queries
      BY <2>2, Unavailable
    <2>4. Asked(<< >>) = << >>
      BY DEF Asked
    <2> HIDE DEF none
    <2>5. m1 \in Locals /\ m2 \in Locals /\ m3 \in Locals /\ m4 \in Locals
      BY <1>1, <2>3 DEF Locals, Stages
    <2>6. Accounted(m2) /\ Accounted(m4)
      BY <1>1, <2>1, <2>3 DEF Accounted, Locals
    <2>7. l.queries = << >> => Accounted(m1)
      BY <1>1, <2>1, <2>4 DEF Accounted, Locals
    <2>8. l.queries # << >> => Accounted(m3)
      <3>1. << >> \o l.queries = l.queries
        BY <2>2
      <3> QED BY <1>1, <2>1, <2>4, <3>1 DEF Accounted, Locals
    <2>9. \/ l.queries = << >> /\ Becomes(p, m1)
          \/ Becomes(p, m2)
          \/ l.queries # << >> /\ Becomes(p, m3)
          \/ Becomes(p, m4)
      BY <1>8 DEF Execute, Leave, none
    <2>10. UNCHANGED << now, world, cooldowns, saved >> /\ events' \in 0..MaxEvents
      BY <1>1, <1>8 DEF Execute
    <2> HIDE DEF m1, m2, m3, m4
    <2> QED BY <2>5, <2>6, <2>7, <2>8, <2>9, <2>10, OnePassMoves
  <1>9. CASE Query(p)
    <2> DEFINE q == Head(l.queries)
               rest == Tail(l.queries)
               d(r) == l.diagnostics \o Found(q, r)
               m(r) == [l EXCEPT !.stage = IF Len(l.queries) = 1 THEN "save" ELSE "query",
                                 !.queries = rest, !.diagnostics = d(r)]
    <2>1. l.stage = "query" /\ l.queries # << >> /\ l.asked = << Asked(l.diagnostics) \o l.queries >>
      BY <1>1, <1>9 DEF Query, At, Accounted
    <2>2. PICK r \in Results : Becomes(p, m(r))
      BY <1>9 DEF Query, Results
    <2>3. /\ l.queries \in Seq(Words) /\ Len(l.queries) <= MaxQueries
          /\ l.diagnostics \in Seq([query : Words, result : Results])
          /\ l.asked \in Seq(Questions)
      BY Zenon, <1>2, Lengths
    <2>4. /\ q \in Words /\ rest \in Seq(Words) /\ Len(rest) = Len(l.queries) - 1
          /\ l.queries = << q >> \o rest
      BY <2>1, <2>3
    <2>5. /\ d(r) \in Seq([query : Words, result : Results])
          /\ Len(d(r)) = Len(l.diagnostics) + 1
          /\ Asked(d(r)) = Asked(l.diagnostics) \o << q >>
      <3>1. [query |-> q, result |-> r] \in [query : Words, result : Results]
        BY <2>4
      <3>2. Found(q, r) \in Seq([query : Words, result : Results]) /\ Len(Found(q, r)) = 1
        BY <3>1 DEF Found
      <3>3. d(r) \in Seq([query : Words, result : Results])
            /\ Len(d(r)) = Len(l.diagnostics) + Len(Found(q, r))
        BY Zenon, <2>3, <3>2, Joined
      <3>4. Asked(d(r)) = Asked(l.diagnostics) \o << q >>
        BY Zenon, <2>3, <2>4, OneMore
      <3> QED BY Zenon, <3>2, <3>3, <3>4
    <2>6. Asked(d(r)) \o rest = Asked(l.diagnostics) \o l.queries
      <3>1. Asked(l.diagnostics) \in Seq(Words)
        BY <2>3, AskedIsSequence
      <3> HIDE DEF q, rest, d
      <3> QED BY <2>4, <2>5, <3>1
    <2>7. Len(d(r)) <= MaxQueries
      <3>1. Asked(l.diagnostics) \o l.queries \in Questions
        BY <1>2, <2>1, <2>3, Elements
      <3>2. Len(Asked(l.diagnostics) \o l.queries) <= MaxQueries
        BY Zenon, <3>1, Lengths
      <3>3. Len(Asked(l.diagnostics) \o l.queries) = Len(l.diagnostics) + Len(l.queries)
        <4>1. Asked(l.diagnostics) \in Seq(Words) /\ Len(Asked(l.diagnostics)) = Len(l.diagnostics)
          BY <2>3, AskedIsSequence
        <4>2. Len(Asked(l.diagnostics) \o l.queries) = Len(Asked(l.diagnostics)) + Len(l.queries)
          BY Zenon, <2>3, <4>1, Joined
        <4> QED BY <4>1, <4>2
      <3>4. Len(l.diagnostics) \in Nat /\ Len(l.queries) \in Nat /\ Len(l.queries) >= 1
        BY <2>1, <2>3
      <3> DEFINE a == Len(l.diagnostics)
                 b == Len(l.queries)
                 c == Len(d(r))
      <3>5. a \in Nat /\ b \in Nat /\ b >= 1 /\ a + b <= MaxQueries /\ c = a + 1
        BY <2>5, <3>2, <3>3, <3>4
      <3> HIDE DEF a, b, c
      <3>6. c <= MaxQueries
        BY <3>5, DiagnosticsAssumption
      <3> QED BY <3>6 DEF c
    <2>8. d(r) \in Evidence /\ rest \in Questions
      <3>1. Len(rest) <= MaxQueries
        BY <2>3, <2>4
      <3> QED BY Zenon, <2>4, <2>5, <2>7, <3>1, Lengths
    <2> HIDE DEF q, rest, d
    <2>9. m(r) \in Locals
      BY <1>1, <2>8 DEF Locals, Stages
    <2>10. Accounted(m(r))
      <3>1. m(r).stage \in {"save", "query"} /\ m(r).queries = rest
            /\ m(r).diagnostics = d(r) /\ m(r).asked = l.asked
        BY <1>1 DEF Locals
      <3>2. CASE Len(l.queries) = 1
        <4>1. m(r).stage = "save" /\ rest = << >>
          BY <1>1, <2>4, <3>2 DEF Locals
        <4>2. Asked(d(r)) \o << >> = Asked(d(r))
          BY <2>5, AskedIsSequence
        <4> HIDE DEF m
        <4> QED BY <2>1, <2>6, <3>1, <4>1, <4>2 DEF Accounted
      <3>3. CASE Len(l.queries) # 1
        <4>1. m(r).stage = "query" /\ rest # << >>
          BY <1>1, <2>3, <2>4, <3>3 DEF Locals
        <4> HIDE DEF m
        <4> QED BY <2>1, <2>6, <3>1, <4>1 DEF Accounted
      <3> QED BY <3>2, <3>3
    <2>11. UNCHANGED << now, world, cooldowns, saved >> /\ events' \in 0..MaxEvents
      BY <1>1, <1>9 DEF Query
    <2> HIDE DEF m
    <2> QED BY <2>2, <2>9, <2>10, <2>11, OnePassMoves
  <1>10. CASE TimesOut(p)
    <2> DEFINE m == [l EXCEPT !.stage = "evict", !.queries = << >>, !.diagnostics = << >>]
    <2>1. m \in Locals /\ Accounted(m)
      BY <1>1, NothingYet DEF Locals, Stages, Accounted
    <2>2. Becomes(p, m) /\ UNCHANGED << now, world, cooldowns, saved, events >>
      BY <1>10 DEF TimesOut
    <2> HIDE DEF m
    <2> QED BY <1>1, <2>1, <2>2, OnePassMoves
  <1>11. CASE SaveFails(p)
    <2> DEFINE m == [l EXCEPT !.stage = "evict"]
    <2>1. m \in Locals /\ Accounted(m)
      BY <1>1 DEF Locals, Stages, Accounted
    <2>2. Becomes(p, m) /\ UNCHANGED << now, world, cooldowns, saved >> /\ events' \in 0..MaxEvents
      BY <1>1, <1>11 DEF SaveFails, Leave
    <2> HIDE DEF m
    <2> QED BY <2>1, <2>2, OnePassMoves
  <1> QED BY <1>3, <1>4, <1>5, <1>6, <1>7, <1>8, <1>9, <1>10, <1>11 DEF Asking

LEMMA InvariantStep == DiagnosticsInv /\ [Next]_vars => DiagnosticsInv'
  <1> SUFFICES ASSUME DiagnosticsInv, [Next]_vars PROVE DiagnosticsInv'
    OBVIOUS
  <1> USE DiagnosticsAssumption
  <1>0. /\ now \in 0..MaxNow /\ events \in 0..MaxEvents
        /\ cooldowns \in [Sigs -> [at : Never..MaxNow, evidence : Evidence]]
        /\ saved \in [Sigs -> [at : Never..MaxNow, asked : Answers]]
        /\ pass \in [Passes -> Locals]
        /\ NoEntry \in [at : Never..MaxNow, evidence : Evidence]
    BY NothingYet DEF DiagnosticsInv, Shape, NoEntry, Never
  <1>1. /\ AuditTrail' <=> \A s \in Sigs : cooldowns'[s].at # Never =>
                              << Asked(cooldowns'[s].evidence) >> = saved'[s].asked
        /\ (\A p \in Passes : Accounted(pass[p]))' <=> \A p \in Passes : Accounted(pass'[p])
    BY Zenon DEF AuditTrail, Asked, Never, Accounted
  <1>2. ASSUME NEW p \in Passes, Save(p) PROVE DiagnosticsInv'
    <2> DEFINE l == pass[p]
               m == [l EXCEPT !.stage = "evict"]
               e == [at |-> now, evidence |-> l.diagnostics]
               f == [at |-> now, asked |-> l.asked]
    <2>1. /\ l \in Locals /\ l.stage = "save" /\ l.sig \in Sigs
          /\ l.diagnostics \in Evidence /\ l.asked \in Answers
          /\ l.asked = << Asked(l.diagnostics) >>
      BY <1>0, <1>2 DEF Save, At, Locals, DiagnosticsInv, Accounted
    <2>2. m \in Locals /\ Accounted(m)
      BY <2>1 DEF Locals, Stages, Accounted
    <2>3. e \in [at : Never..MaxNow, evidence : Evidence] /\ f \in [at : Never..MaxNow, asked : Answers]
      BY <1>0, <2>1 DEF Never
    <2>4. /\ pass' = [pass EXCEPT ![p] = m]
          /\ cooldowns' = [cooldowns EXCEPT ![l.sig] = e]
          /\ saved' = [saved EXCEPT ![l.sig] = f]
          /\ UNCHANGED << now, model, connected, events >>
      BY <1>2 DEF Save, Leave, Becomes, world
    <2>5. << Asked(e.evidence) >> = f.asked /\ e.at = f.at
      BY <2>1
    <2> HIDE DEF l, m, e, f
    <2>6. Shape'
      BY <1>0, <2>1, <2>2, <2>3, <2>4 DEF DiagnosticsInv, Shape
    <2>7. \A q \in Passes : Accounted(pass'[q])
      BY <1>0, <2>2, <2>4 DEF DiagnosticsInv
    <2>8. AuditTrail'
      BY <1>0, <1>1, <2>1, <2>4, <2>5 DEF DiagnosticsInv, AuditTrail
    <2>9. Kept'
      BY <1>0, <2>1, <2>4, <2>5 DEF DiagnosticsInv, Kept
    <2> QED BY <1>1, <2>6, <2>7, <2>8, <2>9 DEF DiagnosticsInv
  <1>3. ASSUME /\ cooldowns' \in [Sigs -> [at : Never..MaxNow, evidence : Evidence]]
               /\ \A s \in Sigs : \/ cooldowns'[s] = cooldowns[s]
                                  \/ cooldowns'[s] = NoEntry /\ cooldowns[s].at < now - Cooldown
               /\ UNCHANGED << now, saved >>
        PROVE  AuditTrail' /\ Kept'
    <2>1. AuditTrail'
      BY <1>1, <1>3 DEF DiagnosticsInv, AuditTrail, NoEntry
    <2>2. Kept'
      BY <1>0, <1>3 DEF DiagnosticsInv, Kept, NoEntry, Never
    <2> QED BY <2>1, <2>2
  <1>4. ASSUME NEW p \in Passes, Evict(p) PROVE DiagnosticsInv'
    <2>1. Idle \in Locals /\ Accounted(Idle)
      <3>1. (CHOOSE s \in Sigs : TRUE) \in Sigs /\ "out" \in Stages /\ NoModel \in Models
        BY DEF Stages, Models
      <3> QED BY <3>1, NothingYet DEF Idle, Locals, Accounted
    <2>2. cooldowns' = cooldowns
          \/ cooldowns' = [s \in Sigs |-> IF Old(cooldowns[s].at) THEN NoEntry ELSE cooldowns[s]]
      BY <1>4 DEF Evict
    <2>3. /\ cooldowns' \in [Sigs -> [at : Never..MaxNow, evidence : Evidence]]
          /\ \A s \in Sigs : \/ cooldowns'[s] = cooldowns[s]
                             \/ cooldowns'[s] = NoEntry /\ cooldowns[s].at < now - Cooldown
      BY <1>0, <2>2 DEF Old
    <2>4. pass' = [pass EXCEPT ![p] = Idle] /\ UNCHANGED << now, model, connected, saved, events >>
      BY <1>4 DEF Evict, Becomes, world
    <2>5. pass' \in [Passes -> Locals] /\ \A q \in Passes : Accounted(pass'[q])
      BY <1>0, <2>1, <2>4 DEF DiagnosticsInv
    <2>6. Shape'
      BY <2>3, <2>4, <2>5 DEF DiagnosticsInv, Shape
    <2> QED BY <1>1, <1>3, <2>3, <2>4, <2>5, <2>6 DEF DiagnosticsInv
  <1>5. CASE Retention
    <2>1. /\ cooldowns' \in [Sigs -> [at : Never..MaxNow, evidence : Evidence]]
          /\ \A s \in Sigs : \/ cooldowns'[s] = cooldowns[s]
                             \/ cooldowns'[s] = NoEntry /\ cooldowns[s].at < now - Retain
      BY <1>0, <1>5 DEF Retention
    <2>2. \A s \in Sigs : cooldowns[s].at < now - Retain => cooldowns[s].at < now - Cooldown
      BY <1>0 DEF Never
    <2>3. UNCHANGED << now, model, connected, pass, saved, events >>
      BY <1>5 DEF Retention, world
    <2>4. AuditTrail' /\ Kept'
      BY <1>3, <2>1, <2>2, <2>3
    <2>5. Shape' /\ \A q \in Passes : Accounted(pass'[q])
      BY <2>1, <2>3 DEF DiagnosticsInv, Shape
    <2> QED BY <1>1, <2>4, <2>5 DEF DiagnosticsInv
  <1>6. CASE Restart
    <2>1. Idle \in Locals /\ Accounted(Idle)
      <3>1. (CHOOSE s \in Sigs : TRUE) \in Sigs /\ "out" \in Stages /\ NoModel \in Models
        BY DEF Stages, Models
      <3> QED BY <3>1, NothingYet DEF Idle, Locals, Accounted
    <2>2. /\ pass' \in [Passes -> Locals] /\ \A q \in Passes : Accounted(pass'[q])
          /\ events' \in 0..MaxEvents
      BY <1>0, <1>6, <2>1 DEF Restart
    <2>3. AuditTrail' /\ Kept'
      BY <1>0, <1>3, <1>6 DEF Restart
    <2>4. Shape'
      BY <1>6, <2>2 DEF DiagnosticsInv, Shape, Restart, world
    <2> QED BY <1>1, <2>2, <2>3, <2>4 DEF DiagnosticsInv
  <1>7. CASE WorldChanges
    <2>1. AuditTrail' /\ Kept'
      BY <1>0, <1>3, <1>7 DEF WorldChanges
    <2>2. Shape' /\ \A q \in Passes : Accounted(pass'[q])
      BY <1>7 DEF DiagnosticsInv, Shape, WorldChanges, Models
    <2> QED BY <1>1, <2>1, <2>2 DEF DiagnosticsInv
  <1>8. CASE Tick
    <2>1. AuditTrail'
      BY <1>1, <1>8 DEF DiagnosticsInv, AuditTrail, Tick
    <2>2. Kept'
      BY <1>0, <1>8 DEF DiagnosticsInv, Kept, Tick, Never
    <2>3. Shape' /\ \A q \in Passes : Accounted(pass'[q])
      BY <1>8 DEF DiagnosticsInv, Shape, Tick, world
    <2> QED BY <1>1, <2>1, <2>2, <2>3 DEF DiagnosticsInv
  <1>9. CASE UNCHANGED vars
    <2>1. AuditTrail' /\ Kept'
      BY <1>0, <1>3, <1>9 DEF vars
    <2>2. Shape' /\ \A q \in Passes : Accounted(pass'[q])
      BY <1>9 DEF DiagnosticsInv, Shape, vars, world
    <2> QED BY <1>1, <2>1, <2>2 DEF DiagnosticsInv
  <1> QED BY <1>2, <1>4, <1>5, <1>6, <1>7, <1>8, <1>9, PassStep DEF Next, Bookkeeping

THEOREM DiagnosticsInvariant == Spec => []DiagnosticsInv
  BY InitialState, InvariantStep, PTL DEF Spec

(***************************************************************************)
(* Every variable keeps its type: in particular no pass has evidence of    *)
(* more queries than max_queries_per_cycle.                                *)
(***************************************************************************)
THEOREM Types == Spec => []TypeOK
  <1>1. DiagnosticsInv => TypeOK
    BY DEF DiagnosticsInv, Shape, TypeOK, Locals, Answers
  <1> QED BY <1>1, DiagnosticsInvariant, PTL

(***************************************************************************)
(* What the cooldown table holds accounts, one by one, for the queries of  *)
(* an answer of the LLM: a generation that failed never leaves an entry.   *)
(***************************************************************************)
THEOREM EvidenceIsComplete == Spec => []AuditTrail
  <1>1. DiagnosticsInv => AuditTrail
    BY DEF DiagnosticsInv
  <1> QED BY <1>1, DiagnosticsInvariant, PTL

(***************************************************************************)
(* A pass turns to the LLM only if no evidence of its signature was saved  *)
(* within the cooldown, or if the table could not be read.                 *)
(***************************************************************************)
THEOREM CooldownIsKept == Spec => CooldownHolds
  <1> USE DiagnosticsAssumption
  <1>1. ASSUME DiagnosticsInv, NEW p \in Passes, LookUp(p), pass'[p].stage = "generate"
        PROVE  saved[pass[p].sig].at = Never \/ saved[pass[p].sig].at < now - Cooldown
    <2> DEFINE s == pass[p].sig
    <2>1. pass \in [Passes -> Locals] /\ pass[p] \in Locals /\ s \in Sigs
      BY <1>1 DEF DiagnosticsInv, Shape, Locals
    <2>2. ~Fresh(cooldowns[s].at)
      BY <1>1, <2>1 DEF LookUp, Becomes, Locals
    <2>3. cooldowns[s].at \in Never..MaxNow /\ saved[s].at \in Never..MaxNow /\ now \in 0..MaxNow
      BY <1>1, <2>1 DEF DiagnosticsInv, Shape
    <2> HIDE DEF s
    <2> QED BY <1>1, <2>1, <2>2, <2>3 DEF Fresh, DiagnosticsInv, Kept, Never, s
  <1>2. DiagnosticsInv =>
          [\A p \in Passes : (LookUp(p) /\ pass'[p].stage = "generate")
              => saved[pass[p].sig].at = Never \/ saved[pass[p].sig].at < now - Cooldown]_vars
    BY <1>1
  <1> QED BY <1>2, DiagnosticsInvariant, PTL DEF Spec, CooldownHolds
=============================================================================
