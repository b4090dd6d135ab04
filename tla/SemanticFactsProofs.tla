------------------------- MODULE SemanticFactsProofs ------------------------
(***************************************************************************)
(* Theorems about SemanticFacts, for every set of chatters, schemas,       *)
(* extracted facts and corrections.                                        *)
(***************************************************************************)
EXTENDS SemanticFacts, FiniteSetTheorems, SequenceTheorems, TLAPS

Ids == 1..(MaxRows + Cardinality(Writers))

\* The types, of a set of facts F.
Row(F) == [id : Ids, key : {f.key : f \in F}, claim : {f.claim : f \in F}, at : Nat, active : BOOLEAN]
JobRecord(F) == [phase : {"idle", "seeding", "extracting", "correcting"}, todo : Seq(F),
                 id : Ids \cup {0}, at : Nat, made : Nat, raced : BOOLEAN]

KeyOf(j) == Head(j.todo).key

(***************************************************************************)
(* The invariant, of facts F, rows rs, jobs js, an index ix and what is    *)
(* expected ex, so that it can be said of a table before its stamps are    *)
(* renumbered.                                                             *)
(***************************************************************************)
Shape(F, rs, js) ==
    /\ DOMAIN rs \subseteq 1..MaxRows /\ rs \in [DOMAIN rs -> Row(F)]
    /\ \A r \in DOMAIN rs : rs[r].active => rs[r].at > 0
    /\ js \in [Writers -> JobRecord(F)]
    /\ \A w \in Writers : /\ js[w].id # 0 => js[w].todo # << >> /\ js[w].at > 0
                          /\ js[w].phase = "idle" => js[w].at = 0 /\ js[w].made = 0 /\ js[w].todo = << >>

\* An id is the id of one row, and who saves under it saves the row's key.
OwnIds(rs, js) ==
    /\ \A q, r \in DOMAIN rs : rs[q].id = rs[r].id => q = r
    /\ \A w \in Writers : js[w].id # 0 =>
          \A r \in DOMAIN rs : rs[r].id = js[w].id => rs[r].key = KeyOf(js[w])
    /\ \A v, w \in Writers : js[v].id # 0 /\ js[v].id = js[w].id => KeyOf(js[v]) = KeyOf(js[w])

\* Two saves of a key that overlap know it; one that overlaps with nothing is
\* later than all the rows of its key, and has found one if there is one.
Races(js) ==
    \A v, w \in Writers :
        v # w /\ js[v].id # 0 /\ js[w].id # 0 /\ KeyOf(js[v]) = KeyOf(js[w]) => js[v].raced

Fresh(rs, js) ==
    \A w \in Writers : js[w].id # 0 /\ ~js[w].raced =>
        \A r \in DOMAIN rs : rs[r].active /\ rs[r].key = KeyOf(js[w]) =>
            rs[r].at < js[w].at /\ \E q \in DOMAIN rs : rs[q].id = js[w].id

Newest(rs, k, r) ==
    /\ rs[r].active /\ rs[r].key = k
    /\ \A q \in DOMAIN rs : rs[q].active /\ rs[q].key = k => rs[q].at <= rs[r].at

Stands(F, rs, ex) ==
    \A k \in {f.key : f \in F} : ex[k] # Unknown =>
        \E r \in DOMAIN rs : Newest(rs, k, r) /\ rs[r].claim = ex[k]

Indexed(rs, ix) == \A r \in DOMAIN rs : << r, rs[r].claim >> \in ix

Core(F, rs, js, ix, ex) ==
    /\ Shape(F, rs, js) /\ OwnIds(rs, js) /\ Races(js) /\ Fresh(rs, js)
    /\ Stands(F, rs, ex) /\ Indexed(rs, ix)
    /\ ix \subseteq (1..MaxRows) \X {f.claim : f \in F}
    /\ ex \in [{f.key : f \in F} -> {f.claim : f \in F} \cup {Unknown}]

\* The stamps in use are numbered from 1, so that Latest is later than all.
Dense(rs, js) == \A t \in Stamps(rs, js) : t <= Cardinality(Stamps(rs, js))

FactsInv(F) == Core(F, rows, jobs, index, expect) /\ Dense(rows, jobs) /\ events \in 0..MaxEvents
-----------------------------------------------------------------------------
(***************************************************************************)
(* Finite sets of numbers and their ranks.                                 *)
(***************************************************************************)
LEMMA ImageIsFinite ==
  ASSUME NEW S, IsFiniteSet(S), NEW f
  PROVE  IsFiniteSet({f[x] : x \in S}) /\ Cardinality({f[x] : x \in S}) <= Cardinality(S)
  <1> DEFINE T == {f[x] : x \in S}
             g == [x \in S |-> f[x]]
  <1>1. g \in Surjection(S, T)
    BY DEF Surjection
  <1> HIDE DEF T, g
  <1>2. IsFiniteSet(T) /\ Cardinality(T) <= Cardinality(S)
    BY Zenon, <1>1, FS_Surjection
  <1> QED BY <1>2 DEF T

RankIn(used, t) == Cardinality({u \in used : u <= t})

LEMMA Ranking ==
  ASSUME NEW used \in SUBSET (Nat \ {0}), IsFiniteSet(used)
  PROVE  /\ RankIn(used, 0) = 0
         /\ \A t \in Nat : RankIn(used, t) \in Nat /\ RankIn(used, t) <= Cardinality(used)
         /\ \A t, u \in Nat : t <= u => RankIn(used, t) <= RankIn(used, u)
         /\ \A t \in Nat : \A u \in used : t < u => RankIn(used, t) < RankIn(used, u)
         /\ \A u \in used : RankIn(used, u) > 0
  <1> DEFINE B(t) == {u \in used : u <= t}
  <1>1. \A x \in used : x \in Nat /\ x > 0
    <2>1. \A x \in used : x \in Nat \ {0}
      OBVIOUS
    <2> QED BY <2>1
  <1>2. \A t, x : x \in B(t) <=> x \in used /\ x <= t
    BY Zenon
  <1>3. ASSUME NEW t
        PROVE  IsFiniteSet(B(t)) /\ Cardinality(B(t)) \in Nat /\ Cardinality(B(t)) <= Cardinality(used)
    <2>1. B(t) \in SUBSET used
      OBVIOUS
    <2> HIDE DEF B
    <2> QED BY <2>1, FS_Subset, FS_CardinalityType
  <1>4. B(0) = {}
    <2> HIDE DEF B
    <2>1. \A x \in used : ~(x <= 0)
      BY <1>1
    <2> QED BY Zenon, <1>2, <2>1
  <1>5. ASSUME NEW t \in Nat, NEW u \in Nat, t <= u PROVE Cardinality(B(t)) <= Cardinality(B(u))
    <2> HIDE DEF B
    <2>1. \A x \in used : x <= t => x <= u
      BY <1>1, <1>5
    <2>2. B(t) \in SUBSET B(u)
      BY Zenon, <1>2, <2>1
    <2> QED BY Zenon, <1>3, <2>2, FS_Subset
  <1>6. ASSUME NEW t \in Nat, NEW u \in used, t < u PROVE Cardinality(B(t)) < Cardinality(B(u))
    <2> HIDE DEF B
    <2>1. /\ \A x \in used : x <= t => x <= u
          /\ u <= u /\ ~(u <= t)
      BY <1>1, <1>6
    <2>2. B(t) \in SUBSET B(u) /\ u \in B(u) /\ u \notin B(t)
      BY Zenon, <1>2, <2>1
    <2>3. Cardinality(B(t)) <= Cardinality(B(u)) /\ (Cardinality(B(u)) = Cardinality(B(t)) => B(u) = B(t))
      BY Zenon, <1>3, <2>2, FS_Subset
    <2>4. B(u) # B(t)
      BY <2>2
    <2> QED BY <1>3, <2>3, <2>4
  <1>7. Cardinality(B(0)) = 0
    <2> HIDE DEF B
    <2> QED BY <1>4, FS_EmptySet
  <1>8. \A u \in used : 0 < u /\ 0 \in Nat /\ u \in Nat
    BY <1>1
  <1> HIDE DEF B
  <1>9. \A t : RankIn(used, t) = Cardinality(B(t))
    BY DEF RankIn, B
  <1> QED BY <1>3, <1>5, <1>6, <1>7, <1>8, <1>9

LEMMA StampsAreFinite ==
  ASSUME NEW F, NEW rs, NEW js, Shape(F, rs, js)
  PROVE  /\ IsFiniteSet(Stamps(rs, js)) /\ Stamps(rs, js) \in SUBSET (Nat \ {0})
         /\ \A r \in DOMAIN rs : rs[r].at \in Stamps(rs, js) \cup {0}
         /\ \A w \in Writers : js[w].at \in Stamps(rs, js) \cup {0} /\ js[w].made \in Stamps(rs, js) \cup {0}
  <1>1. IsFiniteSet(DOMAIN rs) /\ IsFiniteSet(Writers)
    <2>1. IsFiniteSet(1..MaxRows)
      BY FactsAssumption, FS_Interval
    <2>2. IsFiniteSet(DOMAIN rs)
      BY <2>1, FS_Subset DEF Shape
    <2>3. IsFiniteSet(Writers)
      BY FactsAssumption, FS_AddElement DEF Writers
    <2> QED BY <2>2, <2>3
  <1> DEFINE f == [r \in DOMAIN rs |-> rs[r].at]
             g == [w \in Writers |-> js[w].at]
             h == [w \in Writers |-> js[w].made]
             A == {f[r] : r \in DOMAIN rs}
             B == {g[w] : w \in Writers}
             C == {h[w] : w \in Writers}
  <1>2. Stamps(rs, js) = (A \cup (B \cup C)) \ {0}
    BY DEF Stamps
  <1>3. /\ A \subseteq Nat /\ B \subseteq Nat /\ C \subseteq Nat
        /\ \A r \in DOMAIN rs : rs[r].at \in A
        /\ \A w \in Writers : js[w].at \in B /\ js[w].made \in C
    BY DEF Shape, Row, JobRecord
  <1>4. IsFiniteSet(A) /\ IsFiniteSet(B) /\ IsFiniteSet(C)
    <2> HIDE DEF f, g, h
    <2> QED BY Zenon, <1>1, ImageIsFinite
  <1> HIDE DEF A, B, C
  <1>5. IsFiniteSet((A \cup (B \cup C)) \ {0})
    <2>1. IsFiniteSet(A \cup (B \cup C))
      BY Zenon, <1>4, FS_Union
    <2> QED BY Zenon, <2>1, FS_RemoveElement
  <1> QED BY <1>2, <1>3, <1>5
-----------------------------------------------------------------------------
LEMMA NextFacts ==
  ASSUME NEW F
  PROVE  FactsInv(F)' <=> /\ Core(F, rows', jobs', index', expect') /\ Dense(rows', jobs')
                          /\ events' \in 0..MaxEvents
  BY Zenon DEF FactsInv, Core, Dense, Stamps, Shape, OwnIds, Races, Fresh, Newest, Stands, Indexed,
     Row, JobRecord, KeyOf, Ids, Writers, Discovery, Unknown
-----------------------------------------------------------------------------
(***************************************************************************)
(* Renumbering keeps what is known of a table: only the order of stamps    *)
(* was used.                                                               *)
(***************************************************************************)
Renumbered(F, rs, js, rs2, js2) ==
    LET used == Stamps(rs, js)
    IN  /\ DOMAIN rs2 = DOMAIN rs /\ rs2 \in [DOMAIN rs -> Row(F)]
        /\ \A r \in DOMAIN rs :
              /\ rs2[r].id = rs[r].id /\ rs2[r].key = rs[r].key /\ rs2[r].claim = rs[r].claim
              /\ rs2[r].active = rs[r].active /\ rs2[r].at = RankIn(used, rs[r].at)
        /\ js2 \in [Writers -> JobRecord(F)]
        /\ \A w \in Writers :
              /\ js2[w].phase = js[w].phase /\ js2[w].todo = js[w].todo
              /\ js2[w].id = js[w].id /\ js2[w].raced = js[w].raced
              /\ js2[w].at = RankIn(used, js[w].at) /\ js2[w].made = RankIn(used, js[w].made)

LEMMA StoreRenumbers ==
  ASSUME NEW F, NEW rs, NEW js, Shape(F, rs, js), Store(rs, js)
  PROVE  Renumbered(F, rs, js, rows', jobs')
  <1> DEFINE used == Stamps(rs, js)
  <1>1. /\ rows' = [r \in DOMAIN rs |-> [rs[r] EXCEPT !.at = RankIn(used, rs[r].at)]]
        /\ jobs' = [w \in Writers |-> [js[w] EXCEPT !.at = RankIn(used, js[w].at),
                                                  !.made = RankIn(used, js[w].made)]]
    BY Zenon DEF Store, RankIn
  <1>2. \A t \in Nat : RankIn(used, t) \in Nat
    BY Zenon, StampsAreFinite, Ranking
  <1> HIDE DEF used
  <1>3. ASSUME NEW r \in DOMAIN rs
        PROVE  /\ rows'[r] \in Row(F)
               /\ rows'[r].id = rs[r].id /\ rows'[r].key = rs[r].key /\ rows'[r].claim = rs[r].claim
               /\ rows'[r].active = rs[r].active /\ rows'[r].at = RankIn(used, rs[r].at)
    <2>1. rs[r] \in Row(F) /\ rs[r].at \in Nat
      BY DEF Shape, Row
    <2>2. rows'[r] = [rs[r] EXCEPT !.at = RankIn(used, rs[r].at)]
      BY Zenon, <1>1
    <2>3. RankIn(used, rs[r].at) \in Nat
      BY Zenon, <1>2, <2>1
    <2> QED BY <2>1, <2>2, <2>3 DEF Row
  <1>4. ASSUME NEW w \in Writers
        PROVE  /\ jobs'[w] \in JobRecord(F)
               /\ jobs'[w].phase = js[w].phase /\ jobs'[w].todo = js[w].todo
               /\ jobs'[w].id = js[w].id /\ jobs'[w].raced = js[w].raced
               /\ jobs'[w].at = RankIn(used, js[w].at) /\ jobs'[w].made = RankIn(used, js[w].made)
    <2>1. js[w] \in JobRecord(F) /\ js[w].at \in Nat /\ js[w].made \in Nat
      BY DEF Shape, JobRecord
    <2>2. jobs'[w] = [js[w] EXCEPT !.at = RankIn(used, js[w].at), !.made = RankIn(used, js[w].made)]
      BY Zenon, <1>1
    <2>3. RankIn(used, js[w].at) \in Nat /\ RankIn(used, js[w].made) \in Nat
      BY Zenon, <1>2, <2>1
    <2> QED BY <2>1, <2>2, <2>3 DEF JobRecord
  <1> QED BY Zenon, <1>1, <1>3, <1>4 DEF used, Renumbered

LEMMA RenumberedIsDense ==
  ASSUME NEW F, NEW rs, NEW js, Shape(F, rs, js), NEW rs2, NEW js2, Renumbered(F, rs, js, rs2, js2)
  PROVE  Dense(rs2, js2)
  <1> DEFINE used == Stamps(rs, js)
             next == Stamps(rs2, js2)
             f == [t \in used |-> RankIn(used, t)]
  <1>1. IsFiniteSet(used) /\ used \in SUBSET (Nat \ {0}) /\ \A t \in used : t \in Nat
    BY StampsAreFinite
  <1>2. /\ RankIn(used, 0) = 0
        /\ \A t \in Nat : RankIn(used, t) \in Nat /\ RankIn(used, t) <= Cardinality(used)
        /\ \A t \in Nat : \A u \in used : t < u => RankIn(used, t) < RankIn(used, u)
        /\ \A u \in used : RankIn(used, u) > 0
    <2> HIDE DEF used
    <2> QED BY Zenon, <1>1, Ranking
  <1>3. \A t : t \in next <=> \E u \in used : t = RankIn(used, u)
    <2>1. \A t : t \in next <=>
             t # 0 /\ (\/ \E r \in DOMAIN rs : t = RankIn(used, rs[r].at)
                      \/ \E w \in Writers : t = RankIn(used, js[w].at) \/ t = RankIn(used, js[w].made))
      <3>1. \A t : t \in Stamps(rs2, js2) <=>
               t # 0 /\ (\/ \E r \in DOMAIN rs2 : t = rs2[r].at
                        \/ \E w \in Writers : t = js2[w].at \/ t = js2[w].made)
        BY DEF Stamps
      <3>2. /\ DOMAIN rs2 = DOMAIN rs
            /\ \A r \in DOMAIN rs : rs2[r].at = RankIn(used, rs[r].at)
            /\ \A w \in Writers : /\ js2[w].at = RankIn(used, js[w].at)
                                  /\ js2[w].made = RankIn(used, js[w].made)
        BY Zenon DEF Renumbered
      <3>3. ASSUME NEW t
            PROVE  /\ (\E r \in DOMAIN rs2 : t = rs2[r].at) <=> \E r \in DOMAIN rs : t = RankIn(used, rs[r].at)
                   /\ (\E w \in Writers : t = js2[w].at \/ t = js2[w].made)
                       <=> \E w \in Writers : t = RankIn(used, js[w].at) \/ t = RankIn(used, js[w].made)
        <4> HIDE DEF used
        <4> QED BY Zenon, <3>2
      <3> SUFFICES ASSUME NEW t
                   PROVE  t \in next <=>
                            t # 0 /\ (\/ \E r \in DOMAIN rs : t = RankIn(used, rs[r].at)
                                     \/ \E w \in Writers : t = RankIn(used, js[w].at) \/ t = RankIn(used, js[w].made))
        BY Zenon
      <3>4. t \in next <=>
               t # 0 /\ (\/ \E r \in DOMAIN rs2 : t = rs2[r].at
                        \/ \E w \in Writers : t = js2[w].at \/ t = js2[w].made)
        BY Zenon, <3>1
      <3> HIDE DEF used, next
      <3> QED BY <3>3, <3>4
    <2>2. \A u : u \in used <=>
             u # 0 /\ (\/ \E r \in DOMAIN rs : u = rs[r].at
                      \/ \E w \in Writers : u = js[w].at \/ u = js[w].made)
      BY DEF Stamps
    <2>3. \A u \in used : RankIn(used, u) # 0
      BY <1>2
    <2> HIDE DEF used, next
    <2> QED BY Zenon, <1>2, <2>1, <2>2, <2>3
  <1>4. f \in Bijection(used, next)
    <2>1. \A t \in used : f[t] \in next
      BY Zenon, <1>3
    <2>2. \A t, u \in used : f[t] = f[u] => t = u
      <3> SUFFICES ASSUME NEW t \in used, NEW u \in used, RankIn(used, t) = RankIn(used, u) PROVE t = u
        BY Zenon
      <3>1. t \in Nat /\ u \in Nat /\ RankIn(used, t) \in Nat /\ RankIn(used, u) \in Nat
        BY Zenon, <1>1, <1>2
      <3>2. ~(t < u) /\ ~(u < t)
        BY <1>2, <3>1
      <3> QED BY <3>1, <3>2
    <2>3. \A t \in next : \E u \in used : f[u] = t
      BY Zenon, <1>3
    <2> HIDE DEF used, next
    <2> QED BY Zenon, <2>1, <2>2, <2>3 DEF Bijection, Injection, Surjection, IsInjective
  <1>5. Cardinality(next) = Cardinality(used)
    <2> HIDE DEF used, next, f
    <2> QED BY Zenon, <1>1, <1>4, FS_Bijection DEF ExistsBijection
  <1>6. \A t \in next : t <= Cardinality(used)
    <2> SUFFICES ASSUME NEW t \in next PROVE t <= Cardinality(used)
      OBVIOUS
    <2>1. PICK u \in used : t = RankIn(used, u)
      BY Zenon, <1>3
    <2>2. u \in Nat
      BY <1>1
    <2> QED BY Zenon, <1>2, <2>1, <2>2
  <1> HIDE DEF used, next
  <1>7. \A t \in next : t <= Cardinality(next)
    BY Zenon, <1>5, <1>6
  <1> QED BY <1>7 DEF Dense, next

LEMMA RenumberedKeepsCore ==
  ASSUME NEW F, NEW rs, NEW js, NEW ix, NEW ex, Core(F, rs, js, ix, ex),
         NEW rs2, NEW js2, Renumbered(F, rs, js, rs2, js2)
  PROVE  Core(F, rs2, js2, ix, ex)
  <1> DEFINE used == Stamps(rs, js)
             Rk(t) == RankIn(used, t)
  <1>1. Shape(F, rs, js) /\ OwnIds(rs, js) /\ Races(js) /\ Fresh(rs, js) /\ Stands(F, rs, ex) /\ Indexed(rs, ix)
    BY Zenon DEF Core
  <1>2. /\ IsFiniteSet(used) /\ used \in SUBSET (Nat \ {0})
        /\ \A r \in DOMAIN rs : rs[r].at \in used \cup {0}
        /\ \A w \in Writers : js[w].at \in used \cup {0} /\ js[w].made \in used \cup {0}
    BY <1>1, StampsAreFinite
  <1>3. /\ Rk(0) = 0
        /\ \A t, u \in Nat : t <= u => Rk(t) <= Rk(u)
        /\ \A t \in Nat : \A u \in used : t < u => Rk(t) < Rk(u)
        /\ \A u \in used : Rk(u) > 0
    <2> HIDE DEF used
    <2> QED BY Zenon, <1>2, Ranking
  <1>4. /\ DOMAIN rs2 = DOMAIN rs /\ rs2 \in [DOMAIN rs -> Row(F)]
        /\ \A r \in DOMAIN rs :
              /\ rs2[r].id = rs[r].id /\ rs2[r].key = rs[r].key /\ rs2[r].claim = rs[r].claim
              /\ rs2[r].active = rs[r].active /\ rs2[r].at = Rk(rs[r].at)
        /\ js2 \in [Writers -> JobRecord(F)]
        /\ \A w \in Writers :
              /\ js2[w].phase = js[w].phase /\ js2[w].todo = js[w].todo
              /\ js2[w].id = js[w].id /\ js2[w].raced = js[w].raced
              /\ js2[w].at = Rk(js[w].at) /\ js2[w].made = Rk(js[w].made)
    BY Zenon DEF Renumbered
  <1>5. \A w \in Writers : KeyOf(js2[w]) = KeyOf(js[w])
    BY Zenon, <1>4 DEF KeyOf
  <1>6. /\ \A r \in DOMAIN rs : rs[r].at \in Nat
        /\ \A w \in Writers : js[w].at \in Nat
    BY <1>1 DEF Shape, Row, JobRecord
  <1> HIDE DEF used, Rk
  <1>7. Shape(F, rs2, js2)
    <2>1. \A r \in DOMAIN rs : rs2[r].active => rs2[r].at > 0
      <3> SUFFICES ASSUME NEW r \in DOMAIN rs, rs[r].active PROVE Rk(rs[r].at) > 0
        BY Zenon, <1>4
      <3>1. rs[r].at > 0
        BY Zenon, <1>1 DEF Shape
      <3> QED BY <1>2, <1>3, <3>1
    <2>2. \A w \in Writers : js2[w].id # 0 => js2[w].todo # << >> /\ js2[w].at > 0
      <3> SUFFICES ASSUME NEW w \in Writers, js[w].id # 0 PROVE js[w].todo # << >> /\ Rk(js[w].at) > 0
        BY Zenon, <1>4
      <3>1. js[w].at > 0 /\ js[w].todo # << >>
        BY Zenon, <1>1 DEF Shape
      <3> QED BY <1>2, <1>3, <3>1
    <2>3. \A w \in Writers : js2[w].phase = "idle" => js2[w].at = 0 /\ js2[w].made = 0 /\ js2[w].todo = << >>
      BY ZenonT(60), <1>1, <1>3, <1>4 DEF Shape
    <2> QED BY Zenon, <1>1, <1>4, <2>1, <2>2, <2>3 DEF Shape
  <1>8. OwnIds(rs2, js2) /\ Races(js2) /\ Indexed(rs2, ix)
    <2>1. OwnIds(rs2, js2)
      <3>1. \A q, r \in DOMAIN rs : rs2[q].id = rs2[r].id => q = r
        BY Zenon, <1>1, <1>4 DEF OwnIds
      <3>2. \A w \in Writers : js2[w].id # 0 =>
               \A r \in DOMAIN rs : rs2[r].id = js2[w].id => rs2[r].key = KeyOf(js2[w])
        <4> SUFFICES ASSUME NEW w \in Writers, js2[w].id # 0, NEW r \in DOMAIN rs, rs2[r].id = js2[w].id
                     PROVE  rs2[r].key = KeyOf(js2[w])
          OBVIOUS
        <4>1. js[w].id # 0 /\ rs[r].id = js[w].id /\ rs2[r].key = rs[r].key /\ KeyOf(js2[w]) = KeyOf(js[w])
          BY <1>4, <1>5
        <4>2. rs[r].key = KeyOf(js[w])
          BY Zenon, <1>1, <4>1 DEF OwnIds
        <4> QED BY <4>1, <4>2
      <3>3. \A v, w \in Writers : js2[v].id # 0 /\ js2[v].id = js2[w].id => KeyOf(js2[v]) = KeyOf(js2[w])
        <4> SUFFICES ASSUME NEW v \in Writers, NEW w \in Writers, js2[v].id # 0, js2[v].id = js2[w].id
                     PROVE  KeyOf(js2[v]) = KeyOf(js2[w])
          OBVIOUS
        <4>1. /\ js[v].id # 0 /\ js[v].id = js[w].id
              /\ KeyOf(js2[v]) = KeyOf(js[v]) /\ KeyOf(js2[w]) = KeyOf(js[w])
          BY <1>4, <1>5
        <4>2. KeyOf(js[v]) = KeyOf(js[w])
          BY Zenon, <1>1, <4>1 DEF OwnIds
        <4> QED BY <4>1, <4>2
      <3> QED BY Zenon, <1>4, <3>1, <3>2, <3>3 DEF OwnIds
    <2>2. Races(js2)
      <3> SUFFICES ASSUME NEW v \in Writers, NEW w \in Writers, v # w, js2[v].id # 0, js2[w].id # 0,
                          KeyOf(js2[v]) = KeyOf(js2[w])
                   PROVE  js2[v].raced
        BY Zenon DEF Races
      <3>1. js[v].id # 0 /\ js[w].id # 0 /\ KeyOf(js[v]) = KeyOf(js[w]) /\ js2[v].raced = js[v].raced
        BY Zenon, <1>4, <1>5
      <3>2. js[v].raced
        BY Zenon, <1>1, <3>1 DEF Races
      <3> QED BY <3>1, <3>2
    <2>3. Indexed(rs2, ix)
      BY Zenon, <1>1, <1>4 DEF Indexed
    <2> QED BY <2>1, <2>2, <2>3
  <1>9. Fresh(rs2, js2)
    <2> SUFFICES ASSUME NEW w \in Writers, js2[w].id # 0, ~js2[w].raced,
                        NEW r \in DOMAIN rs, rs2[r].active, rs2[r].key = KeyOf(js2[w])
                 PROVE  rs2[r].at < js2[w].at /\ \E q \in DOMAIN rs : rs2[q].id = js2[w].id
      BY Zenon, <1>4 DEF Fresh
    <2>1. rs[r].at < js[w].at /\ \E q \in DOMAIN rs : rs[q].id = js[w].id
      BY Zenon, <1>1, <1>4, <1>5 DEF Fresh
    <2>2. js[w].at \in used
      BY <1>2, <1>6, <2>1
    <2>3. Rk(rs[r].at) < Rk(js[w].at)
      BY Zenon, <1>3, <1>6, <2>1, <2>2
    <2> QED BY Zenon, <1>4, <2>1, <2>3
  <1>10. Stands(F, rs2, ex)
    <2> SUFFICES ASSUME NEW k \in {f.key : f \in F}, ex[k] # Unknown
                 PROVE  \E r \in DOMAIN rs : Newest(rs2, k, r) /\ rs2[r].claim = ex[k]
      BY Zenon, <1>4 DEF Stands
    <2>1. PICK r \in DOMAIN rs : Newest(rs, k, r) /\ rs[r].claim = ex[k]
      BY Zenon, <1>1 DEF Stands
    <2>2. Newest(rs2, k, r)
      <3>1. /\ rs[r].active /\ rs[r].key = k
            /\ \A q \in DOMAIN rs : rs[q].active /\ rs[q].key = k => rs[q].at <= rs[r].at
        BY Zenon, <2>1 DEF Newest
      <3>2. ASSUME NEW q \in DOMAIN rs, rs2[q].active, rs2[q].key = k PROVE rs2[q].at <= rs2[r].at
        <4>1. rs[q].at <= rs[r].at
          BY Zenon, <1>4, <3>1, <3>2
        <4>2. Rk(rs[q].at) <= Rk(rs[r].at)
          BY Zenon, <1>3, <1>6, <4>1
        <4>3. rs2[q].at = Rk(rs[q].at) /\ rs2[r].at = Rk(rs[r].at)
          BY Zenon, <1>4
        <4> QED BY Zenon, <4>2, <4>3
      <3> QED BY Zenon, <1>4, <3>1, <3>2 DEF Newest
    <2> QED BY Zenon, <1>4, <2>1, <2>2
  <1> QED BY Zenon, <1>7, <1>8, <1>9, <1>10 DEF Core

LEMMA StoreKeeps ==
  ASSUME NEW F, NEW rs, NEW js, NEW ix, NEW ex, Core(F, rs, js, ix, ex), Store(rs, js)
  PROVE  Core(F, rows', jobs', ix, ex) /\ Dense(rows', jobs')
  <1>1. Shape(F, rs, js)
    BY DEF Core
  <1>2. Renumbered(F, rs, js, rows', jobs')
    BY <1>1, StoreRenumbers
  <1> QED BY Zenon, <1>1, <1>2, RenumberedKeepsCore, RenumberedIsDense
-----------------------------------------------------------------------------
(***************************************************************************)
(* What the steps are made of: a writer that takes up or drops its work,   *)
(* saves that learn of a rival, a row that is written, one that goes, and  *)
(* the removal of duplicates.                                              *)
(***************************************************************************)
LEMMA JobChanged ==
  ASSUME NEW F, NEW rs, NEW js, NEW ix, NEW ex, Core(F, rs, js, ix, ex),
         NEW w \in Writers, NEW j \in JobRecord(F), j.id = 0,
         j.phase = "idle" => j.at = 0 /\ j.made = 0 /\ j.todo = << >>
  PROVE  Core(F, rs, [js EXCEPT ![w] = j], ix, ex)
  <1> DEFINE js2 == [js EXCEPT ![w] = j]
  <1>1. /\ Shape(F, rs, js) /\ OwnIds(rs, js) /\ Races(js) /\ Fresh(rs, js)
        /\ Stands(F, rs, ex) /\ Indexed(rs, ix)
        /\ ix \subseteq (1..MaxRows) \X {f.claim : f \in F}
        /\ ex \in [{f.key : f \in F} -> {f.claim : f \in F} \cup {Unknown}]
    BY Zenon DEF Core
  <1>2. /\ js2 \in [Writers -> JobRecord(F)] /\ js2[w] = j
        /\ \A v \in Writers : v # w => js2[v] = js[v]
    <2>1. js \in [Writers -> JobRecord(F)]
      BY Zenon, <1>1 DEF Shape
    <2> QED BY Zenon, <2>1
  <1> HIDE DEF js2
  <1>3. \A v \in Writers : js2[v].id # 0 => js2[v] = js[v] /\ js[v].id # 0
    BY Zenon, <1>2
  <1>4. Shape(F, rs, js2)
    <2>1. \A v \in Writers : js2[v].id # 0 => js2[v].todo # << >> /\ js2[v].at > 0
      BY Zenon, <1>1, <1>3 DEF Shape
    <2>2. \A v \in Writers : js2[v].phase = "idle" => js2[v].at = 0 /\ js2[v].made = 0 /\ js2[v].todo = << >>
      BY Zenon, <1>1, <1>2 DEF Shape
    <2> QED BY Zenon, <1>1, <1>2, <2>1, <2>2 DEF Shape
  <1>5. OwnIds(rs, js2)
    BY ZenonT(60), <1>1, <1>3 DEF OwnIds
  <1>6. Races(js2)
    BY Zenon, <1>1, <1>3 DEF Races
  <1>7. Fresh(rs, js2)
    BY Zenon, <1>1, <1>3 DEF Fresh
  <1> QED BY Zenon, <1>1, <1>4, <1>5, <1>6, <1>7 DEF Core, js2

\* Writer w looks for a row and will save under the id of job j.
Opens(F, rs, js, w, j) ==
    /\ j \in JobRecord(F) /\ j.phase # "idle" /\ j.todo # << >> /\ j.at > 0
    /\ \A r \in DOMAIN rs : rs[r].id = j.id => rs[r].key = KeyOf(j)
    /\ \A v \in Writers \ {w} : js[v].id # 0 /\ js[v].id = j.id => KeyOf(js[v]) = KeyOf(j)
    /\ \A v \in Writers \ {w} : js[v].id # 0 /\ KeyOf(js[v]) = KeyOf(j) => js[v].raced /\ j.raced
    /\ \A r \in DOMAIN rs : rs[r].active /\ rs[r].key = KeyOf(j) =>
          rs[r].at < j.at /\ \E q \in DOMAIN rs : rs[q].id = j.id

LEMMA SaveOpened ==
  ASSUME NEW F, NEW rs, NEW js, NEW ix, NEW ex, Core(F, rs, js, ix, ex),
         NEW w \in Writers, NEW j, Opens(F, rs, js, w, j)
  PROVE  Core(F, rs, [js EXCEPT ![w] = j], ix, ex)
  <1> DEFINE js2 == [js EXCEPT ![w] = j]
  <1>1. /\ Shape(F, rs, js) /\ OwnIds(rs, js) /\ Races(js) /\ Fresh(rs, js)
        /\ Stands(F, rs, ex) /\ Indexed(rs, ix)
        /\ ix \subseteq (1..MaxRows) \X {f.claim : f \in F}
        /\ ex \in [{f.key : f \in F} -> {f.claim : f \in F} \cup {Unknown}]
    BY Zenon DEF Core
  <1>2. /\ j \in JobRecord(F) /\ j.phase # "idle" /\ j.todo # << >> /\ j.at > 0
        /\ \A r \in DOMAIN rs : rs[r].id = j.id => rs[r].key = KeyOf(j)
        /\ \A v \in Writers : v # w /\ js[v].id # 0 /\ js[v].id = j.id => KeyOf(js[v]) = KeyOf(j)
        /\ \A v \in Writers : v # w /\ js[v].id # 0 /\ KeyOf(js[v]) = KeyOf(j) => js[v].raced /\ j.raced
        /\ \A r \in DOMAIN rs : rs[r].active /\ rs[r].key = KeyOf(j) =>
              rs[r].at < j.at /\ \E q \in DOMAIN rs : rs[q].id = j.id
    BY Zenon DEF Opens
  <1>3. /\ js2 \in [Writers -> JobRecord(F)] /\ js2[w] = j
        /\ \A v \in Writers : v # w => js2[v] = js[v]
    <2>1. js \in [Writers -> JobRecord(F)]
      BY Zenon, <1>1 DEF Shape
    <2> QED BY Zenon, <1>2, <2>1
  <1> HIDE DEF js2
  <1>4. Shape(F, rs, js2)
    <2>1. \A v \in Writers : js2[v].id # 0 => js2[v].todo # << >> /\ js2[v].at > 0
      BY Zenon, <1>1, <1>2, <1>3 DEF Shape
    <2>2. \A v \in Writers : js2[v].phase = "idle" => js2[v].at = 0 /\ js2[v].made = 0 /\ js2[v].todo = << >>
      BY Zenon, <1>1, <1>2, <1>3 DEF Shape
    <2> QED BY Zenon, <1>1, <1>3, <2>1, <2>2 DEF Shape
  <1>5. OwnIds(rs, js2)
    <2>1. \A v \in Writers : js2[v].id # 0 =>
             \A r \in DOMAIN rs : rs[r].id = js2[v].id => rs[r].key = KeyOf(js2[v])
      <3> SUFFICES ASSUME NEW v \in Writers, js2[v].id # 0, NEW r \in DOMAIN rs, rs[r].id = js2[v].id
                   PROVE  rs[r].key = KeyOf(js2[v])
        OBVIOUS
      <3>1. CASE v = w
        BY Zenon, <1>2, <1>3, <3>1
      <3>2. CASE v # w
        BY Zenon, <1>1, <1>3, <3>2 DEF OwnIds
      <3> QED BY <3>1, <3>2
    <2>2. \A u, v \in Writers : js2[u].id # 0 /\ js2[u].id = js2[v].id => KeyOf(js2[u]) = KeyOf(js2[v])
      <3> SUFFICES ASSUME NEW u \in Writers, NEW v \in Writers, js2[u].id # 0, js2[u].id = js2[v].id
                   PROVE  KeyOf(js2[u]) = KeyOf(js2[v])
        OBVIOUS
      <3>1. CASE u # w /\ v # w
        <4>1. js2[u] = js[u] /\ js2[v] = js[v]
          BY Zenon, <1>3, <3>1
        <4>2. js[u].id # 0 /\ js[u].id = js[v].id
          BY <4>1
        <4>3. KeyOf(js[u]) = KeyOf(js[v])
          BY Zenon, <1>1, <4>2 DEF OwnIds
        <4> QED BY Zenon, <4>1, <4>3
      <3>2. CASE u = w /\ v # w
        BY Zenon, <1>2, <1>3, <3>2
      <3>3. CASE u # w /\ v = w
        BY Zenon, <1>2, <1>3, <3>3
      <3> QED BY Zenon, <3>1, <3>2, <3>3
    <2> QED BY Zenon, <1>1, <2>1, <2>2 DEF OwnIds
  <1>6. Races(js2)
    <2> SUFFICES ASSUME NEW u \in Writers, NEW v \in Writers, u # v, js2[u].id # 0, js2[v].id # 0,
                        KeyOf(js2[u]) = KeyOf(js2[v])
                 PROVE  js2[u].raced
      BY Zenon DEF Races
    <2>1. CASE u # w /\ v # w
      BY Zenon, <1>1, <1>3, <2>1 DEF Races
    <2>2. CASE u = w
      BY Zenon, <1>2, <1>3, <2>2
    <2>3. CASE v = w
      BY Zenon, <1>2, <1>3, <2>3
    <2> QED BY <2>1, <2>2, <2>3
  <1>7. Fresh(rs, js2)
    <2> SUFFICES ASSUME NEW v \in Writers, js2[v].id # 0, ~js2[v].raced,
                        NEW r \in DOMAIN rs, rs[r].active, rs[r].key = KeyOf(js2[v])
                 PROVE  rs[r].at < js2[v].at /\ \E q \in DOMAIN rs : rs[q].id = js2[v].id
      BY Zenon DEF Fresh
    <2>1. CASE v = w
      BY Zenon, <1>2, <1>3, <2>1
    <2>2. CASE v # w
      BY Zenon, <1>1, <1>3, <2>2 DEF Fresh
    <2> QED BY <2>1, <2>2
  <1> QED BY Zenon, <1>1, <1>4, <1>5, <1>6, <1>7 DEF Core, js2

\* The same jobs, of which some have learnt of a rival.
Warned(F, js, js2) ==
    /\ js2 \in [Writers -> JobRecord(F)]
    /\ \A v \in Writers :
          /\ js2[v].phase = js[v].phase /\ js2[v].todo = js[v].todo /\ js2[v].id = js[v].id
          /\ js2[v].at = js[v].at /\ js2[v].made = js[v].made
          /\ js[v].raced => js2[v].raced

LEMMA WarnedKeepsCore ==
  ASSUME NEW F, NEW rs, NEW js, NEW ix, NEW ex, Core(F, rs, js, ix, ex),
         NEW js2, Warned(F, js, js2)
  PROVE  Core(F, rs, js2, ix, ex)
  <1>1. /\ Shape(F, rs, js) /\ OwnIds(rs, js) /\ Races(js) /\ Fresh(rs, js)
        /\ Stands(F, rs, ex) /\ Indexed(rs, ix)
        /\ ix \subseteq (1..MaxRows) \X {f.claim : f \in F}
        /\ ex \in [{f.key : f \in F} -> {f.claim : f \in F} \cup {Unknown}]
    BY Zenon DEF Core
  <1>2. \A v \in Writers :
           /\ js2[v].phase = js[v].phase /\ js2[v].todo = js[v].todo /\ js2[v].id = js[v].id
           /\ js2[v].at = js[v].at /\ js2[v].made = js[v].made
           /\ js[v].raced => js2[v].raced
           /\ KeyOf(js2[v]) = KeyOf(js[v])
    BY Zenon DEF Warned, KeyOf
  <1>3. Shape(F, rs, js2)
    <2>1. js2 \in [Writers -> JobRecord(F)]
      BY Zenon DEF Warned
    <2> QED BY Zenon, <1>1, <1>2, <2>1 DEF Shape
  <1>4. OwnIds(rs, js2)
    <2>1. \A v \in Writers : js2[v].id # 0 =>
             \A r \in DOMAIN rs : rs[r].id = js2[v].id => rs[r].key = KeyOf(js2[v])
      <3> SUFFICES ASSUME NEW v \in Writers, js2[v].id # 0, NEW r \in DOMAIN rs, rs[r].id = js2[v].id
                   PROVE  rs[r].key = KeyOf(js2[v])
        OBVIOUS
      <3>1. js[v].id # 0 /\ rs[r].id = js[v].id /\ KeyOf(js2[v]) = KeyOf(js[v])
        BY <1>2
      <3>2. rs[r].key = KeyOf(js[v])
        BY Zenon, <1>1, <3>1 DEF OwnIds
      <3> QED BY <3>1, <3>2
    <2>2. \A u, v \in Writers : js2[u].id # 0 /\ js2[u].id = js2[v].id => KeyOf(js2[u]) = KeyOf(js2[v])
      <3> SUFFICES ASSUME NEW u \in Writers, NEW v \in Writers, js2[u].id # 0, js2[u].id = js2[v].id
                   PROVE  KeyOf(js2[u]) = KeyOf(js2[v])
        OBVIOUS
      <3>1. js[u].id # 0 /\ js[u].id = js[v].id /\ KeyOf(js2[u]) = KeyOf(js[u]) /\ KeyOf(js2[v]) = KeyOf(js[v])
        BY <1>2
      <3>2. KeyOf(js[u]) = KeyOf(js[v])
        BY Zenon, <1>1, <3>1 DEF OwnIds
      <3> QED BY <3>1, <3>2
    <2> QED BY Zenon, <1>1, <2>1, <2>2 DEF OwnIds
  <1>5. Races(js2)
    <2> SUFFICES ASSUME NEW u \in Writers, NEW v \in Writers, u # v, js2[u].id # 0, js2[v].id # 0,
                        KeyOf(js2[u]) = KeyOf(js2[v])
                 PROVE  js2[u].raced
      BY Zenon DEF Races
    <2>1. js[u].id # 0 /\ js[v].id # 0 /\ KeyOf(js[u]) = KeyOf(js[v])
      BY Zenon, <1>2
    <2>2. js[u].raced
      BY Zenon, <1>1, <2>1 DEF Races
    <2> QED BY Zenon, <1>2, <2>2
  <1>6. Fresh(rs, js2)
    <2> SUFFICES ASSUME NEW v \in Writers, js2[v].id # 0, ~js2[v].raced,
                        NEW r \in DOMAIN rs, rs[r].active, rs[r].key = KeyOf(js2[v])
                 PROVE  rs[r].at < js2[v].at /\ \E q \in DOMAIN rs : rs[q].id = js2[v].id
      BY Zenon DEF Fresh
    <2>1. /\ js[v].id # 0 /\ ~js[v].raced /\ rs[r].key = KeyOf(js[v])
          /\ js2[v].at = js[v].at /\ js2[v].id = js[v].id
      BY Zenon, <1>2
    <2>2. rs[r].at < js[v].at /\ \E q \in DOMAIN rs : rs[q].id = js[v].id
      BY Zenon, <1>1, <2>1 DEF Fresh
    <2> QED BY Zenon, <2>1, <2>2
  <1> QED BY Zenon, <1>1, <1>3, <1>4, <1>5, <1>6 DEF Core

\* Row r holds row from now on, and c is expected of its key.
WithRow(rs, r, row) == [q \in DOMAIN rs \cup {r} |-> IF q = r THEN row ELSE rs[q]]

Writable(F, rs, js, r, row, c) ==
    /\ r \in 1..MaxRows /\ row \in Row(F) /\ (row.active => row.at > 0)
    /\ \A q \in DOMAIN rs : q = r <=> rs[q].id = row.id
    /\ r \in DOMAIN rs => rs[r].key = row.key
    /\ \A v \in Writers : js[v].id # 0 /\ js[v].id = row.id => KeyOf(js[v]) = row.key
    /\ \A v \in Writers : js[v].id # 0 /\ KeyOf(js[v]) = row.key => js[v].raced
    /\ \/ c = Unknown
       \/ /\ c = row.claim /\ row.active
          /\ \A q \in DOMAIN rs : rs[q].active /\ rs[q].key = row.key => rs[q].at <= row.at

LEMMA RowWritten ==
  ASSUME NEW F, NEW rs, NEW js, NEW ix, NEW ex, Core(F, rs, js, ix, ex),
         NEW r, NEW row, NEW c, Writable(F, rs, js, r, row, c)
  PROVE  Core(F, WithRow(rs, r, row), js, ix \cup {<< r, row.claim >>}, [ex EXCEPT ![row.key] = c])
  <1> DEFINE rs2 == WithRow(rs, r, row)
             ex2 == [ex EXCEPT ![row.key] = c]
             ix2 == ix \cup {<< r, row.claim >>}
  <1>1. /\ Shape(F, rs, js) /\ OwnIds(rs, js) /\ Races(js) /\ Fresh(rs, js)
        /\ Stands(F, rs, ex) /\ Indexed(rs, ix)
        /\ ix \subseteq (1..MaxRows) \X {f.claim : f \in F}
        /\ ex \in [{f.key : f \in F} -> {f.claim : f \in F} \cup {Unknown}]
    BY Zenon DEF Core
  <1>2. /\ r \in 1..MaxRows /\ row \in Row(F) /\ (row.active => row.at > 0)
        /\ \A q \in DOMAIN rs : q = r <=> rs[q].id = row.id
        /\ r \in DOMAIN rs => rs[r].key = row.key
        /\ \A v \in Writers : js[v].id # 0 /\ js[v].id = row.id => KeyOf(js[v]) = row.key
        /\ \A v \in Writers : js[v].id # 0 /\ KeyOf(js[v]) = row.key => js[v].raced
        /\ \/ c = Unknown
           \/ /\ c = row.claim /\ row.active
              /\ \A q \in DOMAIN rs : rs[q].active /\ rs[q].key = row.key => rs[q].at <= row.at
    BY Zenon DEF Writable
  <1>3. row.key \in {f.key : f \in F} /\ row.claim \in {f.claim : f \in F} /\ row.at \in Nat
    BY <1>2 DEF Row
  <1>4. /\ DOMAIN rs2 = DOMAIN rs \cup {r} /\ rs2[r] = row
        /\ \A q \in DOMAIN rs : q # r => rs2[q] = rs[q]
        /\ \A q \in DOMAIN rs2 : q # r => q \in DOMAIN rs /\ rs2[q] = rs[q]
    BY Zenon DEF WithRow
  <1>5. ex2 \in [{f.key : f \in F} -> {f.claim : f \in F} \cup {Unknown}]
        /\ ex2[row.key] = c /\ \A k \in {f.key : f \in F} : k # row.key => ex2[k] = ex[k]
    <2> DEFINE K == {f.key : f \in F}
               U == {f.claim : f \in F} \cup {Unknown}
    <2>1. ex \in [K -> U] /\ row.key \in K /\ c \in U
      BY Zenon, <1>1, <1>2, <1>3
    <2> HIDE DEF K, U
    <2>2. [ex EXCEPT ![row.key] = c] \in [K -> U]
          /\ [ex EXCEPT ![row.key] = c][row.key] = c
          /\ \A k \in K : k # row.key => [ex EXCEPT ![row.key] = c][k] = ex[k]
      BY Zenon, <2>1
    <2> QED BY Zenon, <2>2 DEF K, U
  <1>6. \A q \in DOMAIN rs : rs[q].at \in Nat
    BY <1>1 DEF Shape, Row
  <1> HIDE DEF rs2, ex2
  <1>7. Shape(F, rs2, js)
    <2>1. DOMAIN rs2 \subseteq 1..MaxRows
      BY Zenon, <1>1, <1>2, <1>4 DEF Shape
    <2>2. rs2 \in [DOMAIN rs2 -> Row(F)]
      <3>1. \A q \in DOMAIN rs2 : rs2[q] \in Row(F)
        BY Zenon, <1>1, <1>2, <1>4 DEF Shape
      <3>2. rs2 = [q \in DOMAIN rs2 |-> rs2[q]]
        BY Zenon, <1>4 DEF rs2, WithRow
      <3> QED BY Zenon, <3>1, <3>2
    <2>3. \A q \in DOMAIN rs2 : rs2[q].active => rs2[q].at > 0
      BY Zenon, <1>1, <1>2, <1>4 DEF Shape
    <2> QED BY Zenon, <1>1, <2>1, <2>2, <2>3 DEF Shape
  <1>8. OwnIds(rs2, js)
    <2>1. \A p, q \in DOMAIN rs2 : rs2[p].id = rs2[q].id => p = q
      <3>1. \A p, q \in DOMAIN rs : rs[p].id = rs[q].id => p = q
        BY Zenon, <1>1 DEF OwnIds
      <3> QED BY Zenon, <1>2, <1>4, <3>1
    <2>2. \A w \in Writers : js[w].id # 0 =>
             \A q \in DOMAIN rs2 : rs2[q].id = js[w].id => rs2[q].key = KeyOf(js[w])
      <3> SUFFICES ASSUME NEW w \in Writers, js[w].id # 0, NEW q \in DOMAIN rs2, rs2[q].id = js[w].id
                   PROVE  rs2[q].key = KeyOf(js[w])
        OBVIOUS
      <3>1. CASE q = r
        BY Zenon, <1>2, <1>4, <3>1
      <3>2. CASE q # r
        BY ZenonT(60), <1>1, <1>4, <3>2 DEF OwnIds
      <3> QED BY <3>1, <3>2
    <2> QED BY Zenon, <1>1, <2>1, <2>2 DEF OwnIds
  <1>9. Fresh(rs2, js)
    <2> SUFFICES ASSUME NEW w \in Writers, js[w].id # 0, ~js[w].raced,
                        NEW q \in DOMAIN rs2, rs2[q].active, rs2[q].key = KeyOf(js[w])
                 PROVE  rs2[q].at < js[w].at /\ \E p \in DOMAIN rs2 : rs2[p].id = js[w].id
      BY Zenon DEF Fresh
    <2>1. q # r
      BY Zenon, <1>2, <1>4
    <2>2. q \in DOMAIN rs /\ rs2[q] = rs[q]
      BY Zenon, <1>4, <2>1
    <2>3. rs[q].at < js[w].at /\ \E p \in DOMAIN rs : rs[p].id = js[w].id
      BY Zenon, <1>1, <2>2 DEF Fresh
    <2>4. \A p \in DOMAIN rs : p \in DOMAIN rs2 /\ rs2[p].id = rs[p].id
      BY Zenon, <1>2, <1>4
    <2> QED BY Zenon, <2>2, <2>3, <2>4
  <1>10. Stands(F, rs2, ex2)
    <2> SUFFICES ASSUME NEW k \in {f.key : f \in F}, ex2[k] # Unknown
                 PROVE  \E q \in DOMAIN rs2 : Newest(rs2, k, q) /\ rs2[q].claim = ex2[k]
      BY Zenon DEF Stands
    <2>1. CASE k = row.key
      <3>1. /\ c = row.claim /\ row.active
            /\ \A q \in DOMAIN rs : rs[q].active /\ rs[q].key = row.key => rs[q].at <= row.at
        BY Zenon, <1>2, <1>5, <2>1
      <3>2. row.at <= row.at
        BY <1>3
      <3>3. Newest(rs2, k, r)
        BY Zenon, <1>4, <2>1, <3>1, <3>2 DEF Newest
      <3> QED BY Zenon, <1>4, <1>5, <2>1, <3>1, <3>3
    <2>2. CASE k # row.key
      <3>1. PICK q \in DOMAIN rs : Newest(rs, k, q) /\ rs[q].claim = ex[k]
        BY Zenon, <1>1, <1>5, <2>2 DEF Stands
      <3>2. q # r
        BY Zenon, <1>2, <2>2, <3>1 DEF Newest
      <3>3. Newest(rs2, k, q)
        BY Zenon, <1>4, <2>2, <3>1, <3>2 DEF Newest
      <3> QED BY Zenon, <1>4, <1>5, <2>2, <3>1, <3>2, <3>3
    <2> QED BY <2>1, <2>2
  <1>11. Indexed(rs2, ix2)
    BY Zenon, <1>1, <1>4 DEF Indexed
  <1>12. ix2 \subseteq (1..MaxRows) \X {f.claim : f \in F}
    <2> DEFINE R == 1..MaxRows
               C == {f.claim : f \in F}
    <2>1. ix \subseteq R \X C /\ r \in R /\ row.claim \in C
      BY Zenon, <1>1, <1>2, <1>3
    <2> HIDE DEF R, C
    <2>2. ix2 \subseteq R \X C
      BY <2>1
    <2> QED BY Zenon, <2>2 DEF R, C
  <1>13. Core(F, rs2, js, ix2, ex2)
    BY Zenon, <1>1, <1>5, <1>7, <1>8, <1>9, <1>10, <1>11, <1>12 DEF Core
  <1> QED BY Zenon, <1>13 DEF rs2, ex2

\* Row r goes, and nothing is expected of its key.
WithoutRow(rs, r) == [q \in DOMAIN rs \ {r} |-> rs[q]]

LEMMA RowDeleted ==
  ASSUME NEW F, NEW rs, NEW js, NEW ix, NEW ex, Core(F, rs, js, ix, ex),
         NEW r \in DOMAIN rs,
         \A v \in Writers : js[v].id # 0 /\ KeyOf(js[v]) = rs[r].key => js[v].raced
  PROVE  Core(F, WithoutRow(rs, r), js, ix, [ex EXCEPT ![rs[r].key] = Unknown])
  <1> DEFINE rs2 == WithoutRow(rs, r)
             ex2 == [ex EXCEPT ![rs[r].key] = Unknown]
  <1>1. /\ Shape(F, rs, js) /\ OwnIds(rs, js) /\ Races(js) /\ Fresh(rs, js)
        /\ Stands(F, rs, ex) /\ Indexed(rs, ix)
        /\ ix \subseteq (1..MaxRows) \X {f.claim : f \in F}
        /\ ex \in [{f.key : f \in F} -> {f.claim : f \in F} \cup {Unknown}]
    BY Zenon DEF Core
  <1>2. \A q : q \in DOMAIN rs2 <=> q \in DOMAIN rs /\ q # r
    BY Zenon DEF WithoutRow
  <1>3. \A q \in DOMAIN rs2 : rs2[q] = rs[q]
    BY Zenon DEF WithoutRow
  <1>4. rs[r].key \in {f.key : f \in F}
    BY <1>1 DEF Shape, Row
  <1>5. ex2 \in [{f.key : f \in F} -> {f.claim : f \in F} \cup {Unknown}]
        /\ ex2[rs[r].key] = Unknown /\ \A k \in {f.key : f \in F} : k # rs[r].key => ex2[k] = ex[k]
    <2> DEFINE K == {f.key : f \in F}
               U == {f.claim : f \in F} \cup {Unknown}
               k0 == rs[r].key
    <2>1. ex \in [K -> U] /\ k0 \in K /\ Unknown \in U
      BY Zenon, <1>1, <1>4
    <2> HIDE DEF K, U, k0
    <2>2. [ex EXCEPT ![k0] = Unknown] \in [K -> U]
          /\ [ex EXCEPT ![k0] = Unknown][k0] = Unknown
          /\ \A k \in K : k # k0 => [ex EXCEPT ![k0] = Unknown][k] = ex[k]
      BY Zenon, <2>1
    <2> QED BY Zenon, <2>2 DEF K, U, k0
  <1> HIDE DEF rs2, ex2
  <1>6. Shape(F, rs2, js)
    <2>1. rs2 \in [DOMAIN rs2 -> Row(F)]
      <3>1. \A q \in DOMAIN rs2 : rs2[q] \in Row(F)
        BY Zenon, <1>1, <1>2, <1>3 DEF Shape
      <3>2. rs2 = [q \in DOMAIN rs2 |-> rs2[q]]
        BY Zenon, <1>2, <1>3 DEF rs2, WithoutRow
      <3> QED BY Zenon, <3>1, <3>2
    <2>2. DOMAIN rs2 \subseteq 1..MaxRows
      BY Zenon, <1>1, <1>2 DEF Shape
    <2> QED BY Zenon, <1>1, <1>2, <1>3, <2>1, <2>2 DEF Shape
  <1>7. OwnIds(rs2, js)
    <2>1. \A w \in Writers : js[w].id # 0 =>
             \A q \in DOMAIN rs2 : rs2[q].id = js[w].id => rs2[q].key = KeyOf(js[w])
      <3> SUFFICES ASSUME NEW w \in Writers, js[w].id # 0, NEW q \in DOMAIN rs2, rs2[q].id = js[w].id
                   PROVE  rs2[q].key = KeyOf(js[w])
        OBVIOUS
      <3>1. q \in DOMAIN rs /\ rs[q].id = js[w].id /\ rs2[q].key = rs[q].key
        BY <1>1, <1>2, <1>3
      <3>2. rs[q].key = KeyOf(js[w])
        BY Zenon, <1>1, <3>1 DEF OwnIds
      <3> QED BY <3>1, <3>2
    <2>2. \A p, q \in DOMAIN rs2 : rs2[p].id = rs2[q].id => p = q
      BY Zenon, <1>1, <1>2, <1>3 DEF OwnIds
    <2> QED BY Zenon, <1>1, <2>1, <2>2 DEF OwnIds
  <1>8. Fresh(rs2, js)
    <2> SUFFICES ASSUME NEW w \in Writers, js[w].id # 0, ~js[w].raced,
                        NEW q \in DOMAIN rs2, rs2[q].active, rs2[q].key = KeyOf(js[w])
                 PROVE  rs2[q].at < js[w].at /\ \E p \in DOMAIN rs2 : rs2[p].id = js[w].id
      BY Zenon DEF Fresh
    <2>1. q \in DOMAIN rs /\ rs2[q] = rs[q]
      BY Zenon, <1>2, <1>3
    <2>2. rs[q].at < js[w].at /\ \E p \in DOMAIN rs : rs[p].id = js[w].id
      BY Zenon, <1>1, <2>1 DEF Fresh
    <2>3. PICK p \in DOMAIN rs : rs[p].id = js[w].id
      BY <2>2
    <2>4. rs[p].key = KeyOf(js[w])
      BY Zenon, <1>1, <2>3 DEF OwnIds
    <2>5. p # r
      BY Zenon, <2>4
    <2> QED BY Zenon, <1>2, <1>3, <2>1, <2>2, <2>3, <2>5
  <1>9. Stands(F, rs2, ex2)
    <2> SUFFICES ASSUME NEW k \in {f.key : f \in F}, ex2[k] # Unknown
                 PROVE  \E q \in DOMAIN rs2 : Newest(rs2, k, q) /\ rs2[q].claim = ex2[k]
      BY Zenon DEF Stands
    <2>1. k # rs[r].key /\ ex2[k] = ex[k]
      BY Zenon, <1>5
    <2>2. PICK q \in DOMAIN rs : Newest(rs, k, q) /\ rs[q].claim = ex[k]
      BY Zenon, <1>1, <2>1 DEF Stands
    <2>3. q # r
      BY Zenon, <2>1, <2>2 DEF Newest
    <2>4. Newest(rs2, k, q)
      BY Zenon, <1>2, <1>3, <2>2, <2>3 DEF Newest
    <2> QED BY Zenon, <1>2, <1>3, <2>1, <2>2, <2>3, <2>4
  <1>10. Indexed(rs2, ix)
    BY Zenon, <1>1, <1>2, <1>3 DEF Indexed
  <1>11. Core(F, rs2, js, ix, ex2)
    BY Zenon, <1>1, <1>5, <1>6, <1>7, <1>8, <1>9, <1>10 DEF Core
  <1> QED BY Zenon, <1>11 DEF rs2, ex2

\* The rows after the removal: of a key, those that are not the newest are
\* no longer active.
Thinned(F, rs, rs2) ==
    /\ DOMAIN rs2 = DOMAIN rs /\ rs2 \in [DOMAIN rs -> Row(F)]
    /\ \A r \in DOMAIN rs :
          /\ rs2[r].id = rs[r].id /\ rs2[r].key = rs[r].key /\ rs2[r].claim = rs[r].claim
          /\ rs2[r].active => rs[r].active /\ rs2[r].at = rs[r].at
          /\ Newest(rs, rs[r].key, r) => rs2[r].active

LEMMA ThinnedKeepsCore ==
  ASSUME NEW F, NEW rs, NEW js, NEW ix, NEW ex, Core(F, rs, js, ix, ex),
         NEW rs2, Thinned(F, rs, rs2)
  PROVE  Core(F, rs2, js, ix, ex)
  <1>1. /\ Shape(F, rs, js) /\ OwnIds(rs, js) /\ Races(js) /\ Fresh(rs, js)
        /\ Stands(F, rs, ex) /\ Indexed(rs, ix)
        /\ ix \subseteq (1..MaxRows) \X {f.claim : f \in F}
        /\ ex \in [{f.key : f \in F} -> {f.claim : f \in F} \cup {Unknown}]
    BY Zenon DEF Core
  <1>2. /\ DOMAIN rs2 = DOMAIN rs /\ rs2 \in [DOMAIN rs -> Row(F)]
        /\ \A r \in DOMAIN rs :
              /\ rs2[r].id = rs[r].id /\ rs2[r].key = rs[r].key /\ rs2[r].claim = rs[r].claim
              /\ rs2[r].active => rs[r].active /\ rs2[r].at = rs[r].at
              /\ Newest(rs, rs[r].key, r) => rs2[r].active
    BY Zenon DEF Thinned
  <1>3. Shape(F, rs2, js)
    BY Zenon, <1>1, <1>2 DEF Shape
  <1>4. OwnIds(rs2, js)
    <2>1. \A w \in Writers : js[w].id # 0 =>
             \A q \in DOMAIN rs2 : rs2[q].id = js[w].id => rs2[q].key = KeyOf(js[w])
      <3> SUFFICES ASSUME NEW w \in Writers, js[w].id # 0, NEW q \in DOMAIN rs2, rs2[q].id = js[w].id
                   PROVE  rs2[q].key = KeyOf(js[w])
        OBVIOUS
      <3>1. q \in DOMAIN rs /\ rs[q].id = js[w].id /\ rs2[q].key = rs[q].key
        BY <1>1, <1>2
      <3>2. rs[q].key = KeyOf(js[w])
        BY Zenon, <1>1, <3>1 DEF OwnIds
      <3> QED BY <3>1, <3>2
    <2>2. \A p, q \in DOMAIN rs2 : rs2[p].id = rs2[q].id => p = q
      BY Zenon, <1>1, <1>2 DEF OwnIds
    <2> QED BY Zenon, <1>1, <2>1, <2>2 DEF OwnIds
  <1>5. Fresh(rs2, js)
    <2> SUFFICES ASSUME NEW w \in Writers, js[w].id # 0, ~js[w].raced,
                        NEW q \in DOMAIN rs, rs2[q].active, rs2[q].key = KeyOf(js[w])
                 PROVE  rs2[q].at < js[w].at /\ \E p \in DOMAIN rs : rs2[p].id = js[w].id
      BY Zenon, <1>2 DEF Fresh
    <2>1. rs[q].active /\ rs[q].key = KeyOf(js[w]) /\ rs2[q].at = rs[q].at
      BY Zenon, <1>2
    <2>2. rs[q].at < js[w].at /\ \E p \in DOMAIN rs : rs[p].id = js[w].id
      BY Zenon, <1>1, <2>1 DEF Fresh
    <2> QED BY Zenon, <1>2, <2>1, <2>2
  <1>6. Stands(F, rs2, ex)
    <2> SUFFICES ASSUME NEW k \in {f.key : f \in F}, ex[k] # Unknown
                 PROVE  \E q \in DOMAIN rs : Newest(rs2, k, q) /\ rs2[q].claim = ex[k]
      BY Zenon, <1>2 DEF Stands
    <2>1. PICK q \in DOMAIN rs : Newest(rs, k, q) /\ rs[q].claim = ex[k]
      BY Zenon, <1>1 DEF Stands
    <2>2. /\ rs[q].active /\ rs[q].key = k
          /\ \A p \in DOMAIN rs : rs[p].active /\ rs[p].key = k => rs[p].at <= rs[q].at
      BY Zenon, <2>1 DEF Newest
    <2>3. rs2[q].active /\ rs2[q].at = rs[q].at /\ rs2[q].key = k
      BY Zenon, <1>2, <2>1, <2>2
    <2>4. \A p \in DOMAIN rs : rs2[p].active /\ rs2[p].key = k => rs2[p].at <= rs2[q].at
      <3> SUFFICES ASSUME NEW p \in DOMAIN rs, rs2[p].active, rs2[p].key = k PROVE rs2[p].at <= rs2[q].at
        OBVIOUS
      <3>1. rs2[p].at = rs[p].at /\ rs[p].active /\ rs[p].key = k
        BY Zenon, <1>2
      <3>2. rs[p].at <= rs[q].at
        BY Zenon, <2>2, <3>1
      <3> QED BY Zenon, <2>3, <3>1, <3>2
    <2>5. Newest(rs2, k, q)
      BY Zenon, <1>2, <2>3, <2>4 DEF Newest
    <2> QED BY Zenon, <1>2, <2>1, <2>5
  <1>7. Indexed(rs2, ix)
    BY Zenon, <1>1, <1>2 DEF Indexed
  <1> QED BY Zenon, <1>1, <1>3, <1>4, <1>5, <1>6, <1>7 DEF Core
-----------------------------------------------------------------------------
(***************************************************************************)
(* The values that must be new are.                                        *)
(***************************************************************************)
LEMMA LatestIsLater ==
  ASSUME NEW F, Shape(F, rows, jobs), Dense(rows, jobs)
  PROVE  /\ Latest \in Nat /\ Latest > 0
         /\ \A r \in DOMAIN rows : rows[r].at < Latest
  <1> DEFINE used == Stamps(rows, jobs)
  <1>1. /\ IsFiniteSet(used) /\ used \in SUBSET (Nat \ {0})
        /\ \A r \in DOMAIN rows : rows[r].at \in used \cup {0}
    BY StampsAreFinite
  <1>2. Cardinality(used) \in Nat
    <2> HIDE DEF used
    <2> QED BY <1>1, FS_CardinalityType
  <1>3. \A t \in used : t <= Cardinality(used)
    BY DEF Dense
  <1>4. Latest = Cardinality(used) + 1
    BY DEF Latest
  <1>5. \A t \in used : t \in Nat
    BY <1>1
  <1> HIDE DEF used
  <1>6. \A t \in used \cup {0} : t < Latest
    BY <1>2, <1>3, <1>4, <1>5
  <1>7. Latest \in Nat /\ Latest > 0
    BY <1>2, <1>4
  <1> QED BY Zenon, <1>1, <1>6, <1>7

LEMMA NewRowidIsNew ==
  ASSUME NEW F, Shape(F, rows, jobs)
  PROVE  NewRowid \in Nat /\ NewRowid > 0 /\ NewRowid \notin DOMAIN rows
  <1> DEFINE below == {r \in 1..MaxRows : \E q \in Rowids : r <= q}
  <1>1. IsFiniteSet(below) /\ Cardinality(below) \in Nat
    <2>1. IsFiniteSet(1..MaxRows) /\ below \in SUBSET (1..MaxRows)
      BY FactsAssumption, FS_Interval
    <2> HIDE DEF below
    <2> QED BY <2>1, FS_Subset, FS_CardinalityType
  <1>2. \A q \in DOMAIN rows : q <= Cardinality(below)
    <2> SUFFICES ASSUME NEW q \in DOMAIN rows PROVE q <= Cardinality(below)
      OBVIOUS
    <2>1. q \in 1..MaxRows /\ q \in Nat /\ q >= 1
      BY FactsAssumption DEF Shape
    <2>2. 1..q \in SUBSET below
      BY <2>1, FactsAssumption DEF Rowids
    <2>3. Cardinality(1..q) = q
      BY <2>1, FS_Interval
    <2>4. Cardinality(1..q) <= Cardinality(below)
      <3> HIDE DEF below
      <3> QED BY <1>1, <2>2, FS_Subset
    <2> HIDE DEF below
    <2> QED BY <2>3, <2>4
  <1>3. NewRowid = Cardinality(below) + 1
    BY DEF NewRowid
  <1>4. \A q \in DOMAIN rows : q \in Nat
    BY FactsAssumption DEF Shape
  <1> HIDE DEF below
  <1> QED BY <1>1, <1>2, <1>3, <1>4

\* There are as many ids as rows and writers, and the one that looks for a row
\* holds none.
LEMMA NewIdIsNew ==
  ASSUME NEW F, Shape(F, rows, jobs), NEW w \in Writers, jobs[w].id = 0
  PROVE  /\ NewId \in Ids
         /\ \A r \in DOMAIN rows : rows[r].id # NewId
         /\ \A v \in Writers : jobs[v].id # NewId
  <1> DEFINE f == [r \in DOMAIN rows |-> rows[r].id]
             g == [v \in Writers |-> jobs[v].id]
             others == Writers \ {w}
             A == {f[r] : r \in DOMAIN rows}
             B == {g[v] : v \in others}
             taken == {rows[r].id : r \in Rowids} \cup {jobs[v].id : v \in Writers}
  <1>1. IsFiniteSet(Writers) /\ IsFiniteSet(DOMAIN rows) /\ Cardinality(DOMAIN rows) <= MaxRows
        /\ Cardinality(DOMAIN rows) \in Nat /\ Cardinality(Writers) \in Nat
    <2>1. IsFiniteSet(1..MaxRows) /\ Cardinality(1..MaxRows) = MaxRows
      BY FactsAssumption, FS_Interval
    <2>2. IsFiniteSet(DOMAIN rows) /\ Cardinality(DOMAIN rows) <= Cardinality(1..MaxRows)
      BY <2>1, FS_Subset DEF Shape
    <2>3. IsFiniteSet(Writers)
      BY FactsAssumption, FS_AddElement DEF Writers
    <2> QED BY <2>1, <2>2, <2>3, FS_CardinalityType
  <1>2. IsFiniteSet(others) /\ Cardinality(others) = Cardinality(Writers) - 1
    BY <1>1, FS_RemoveElement
  <1>3. /\ IsFiniteSet(A) /\ Cardinality(A) <= Cardinality(DOMAIN rows)
        /\ IsFiniteSet(B) /\ Cardinality(B) <= Cardinality(others)
    <2> HIDE DEF f, g, others
    <2> QED BY <1>1, <1>2, ImageIsFinite
  <1>4. \A i \in Ids : i \in taken => i \in A \cup B
    <2>1. \A i \in Ids : i # 0
      BY FactsAssumption, <1>1 DEF Ids
    <2> QED BY <2>1 DEF Rowids
  <1>5. IsFiniteSet(Ids) /\ Cardinality(Ids) = MaxRows + Cardinality(Writers)
    <2>1. MaxRows + Cardinality(Writers) \in Nat
      BY FactsAssumption, <1>1
    <2> QED BY <2>1, FS_Interval DEF Ids
  <1>6. \E i \in Ids : i \notin taken
    <2> SUFFICES ASSUME \A i \in Ids : i \in taken PROVE FALSE
      OBVIOUS
    <2>1. Ids \in SUBSET (A \cup B)
      BY <1>4
    <2> HIDE DEF A, B, others, taken
    <2>2. /\ IsFiniteSet(A \cup B)
          /\ Cardinality(A \cup B) = Cardinality(A) + Cardinality(B) - Cardinality(A \cap B)
      BY <1>3, FS_Union
    <2>3. Cardinality(Ids) <= Cardinality(A \cup B)
      BY <2>1, <2>2, FS_Subset
    <2>4. IsFiniteSet(A \cap B)
      BY <1>3, FS_Intersection
    <2>5. /\ Cardinality(A) \in Nat /\ Cardinality(B) \in Nat /\ Cardinality(A \cap B) \in Nat
          /\ Cardinality(Ids) \in Nat /\ Cardinality(A \cup B) \in Nat /\ Cardinality(others) \in Nat
      BY <1>2, <1>3, <1>5, <2>2, <2>4, FS_CardinalityType
    <2>6. MaxRows \in Nat
      BY FactsAssumption
    <2> QED BY <1>1, <1>2, <1>3, <1>5, <2>2, <2>3, <2>5, <2>6
  <1>7. NewId = CHOOSE i \in Ids : i \notin taken
    BY Zenon DEF NewId, Ids
  <1>8. NewId \in Ids /\ NewId \notin taken
    <2> HIDE DEF taken
    <2> QED BY Zenon, <1>6, <1>7
  <1> QED BY <1>8 DEF Rowids
-----------------------------------------------------------------------------
(***************************************************************************)
(* The initial state, and the actions one by one.                          *)
(***************************************************************************)
LEMMA JobFields ==
  ASSUME NEW F, NEW phase \in {"idle", "seeding", "extracting", "correcting"},
         NEW facts \in Seq(F), NEW made \in Nat
  PROVE  /\ Job(phase, facts, made) \in JobRecord(F)
         /\ Job(phase, facts, made).phase = phase /\ Job(phase, facts, made).todo = facts
         /\ Job(phase, facts, made).id = 0 /\ Job(phase, facts, made).at = 0
         /\ Job(phase, facts, made).made = made
  BY DEF Job, Idle, JobRecord

LEMMA IdleJob ==
  ASSUME NEW F
  PROVE  Idle \in JobRecord(F) /\ Idle.id = 0 /\ Idle.at = 0 /\ Idle.made = 0 /\ Idle.todo = << >>
  BY DEF Idle, JobRecord

LEMMA InitFacts ==
  ASSUME NEW F, F = Facts, Init
  PROVE  FactsInv(F)
  <1>1. DOMAIN rows = {} /\ index = {} /\ events = 0
    BY DEF Init
  <1>2. jobs = [w \in Writers |-> Idle] /\ expect = [k \in {f.key : f \in F} |-> Unknown]
    BY Zenon DEF Init, Keys
  <1>3. Shape(F, rows, jobs)
    <2>1. jobs \in [Writers -> JobRecord(F)]
      BY Zenon, <1>2, IdleJob
    <2>2. \A w \in Writers : jobs[w].id = 0 /\ jobs[w].at = 0 /\ jobs[w].made = 0 /\ jobs[w].todo = << >>
      BY Zenon, <1>2, IdleJob
    <2>3. rows \in [DOMAIN rows -> Row(F)]
      BY <1>1 DEF Init
    <2> QED BY Zenon, <1>1, <2>1, <2>2, <2>3 DEF Shape
  <1>4. OwnIds(rows, jobs) /\ Races(jobs) /\ Fresh(rows, jobs)
    <2>1. \A w \in Writers : jobs[w].id = 0
      BY Zenon, <1>2, IdleJob
    <2> QED BY Zenon, <1>1, <2>1 DEF OwnIds, Races, Fresh
  <1>5. Stands(F, rows, expect) /\ Indexed(rows, index)
    BY Zenon, <1>1, <1>2 DEF Stands, Indexed
  <1>6. expect \in [{f.key : f \in F} -> {f.claim : f \in F} \cup {Unknown}]
    BY Zenon, <1>2
  <1>7. Dense(rows, jobs)
    <2>1. Stamps(rows, jobs) = {}
      BY <1>1, <1>2, IdleJob DEF Stamps
    <2> QED BY <2>1 DEF Dense
  <1>8. events \in 0..MaxEvents
    BY FactsAssumption, <1>1
  <1> QED BY Zenon, <1>1, <1>3, <1>4, <1>5, <1>6, <1>7, <1>8 DEF FactsInv, Core

\* What a step leaves.
After(F) == Core(F, rows', jobs', index', expect') /\ Dense(rows', jobs')

LEMMA KeptSeeding ==
  ASSUME NEW F, F = Facts, FactsInv(F), StartSeeding
  PROVE  After(F)
  <1>1. PICK s \in Schemas : Store(rows, [jobs EXCEPT ![Discovery] = Job("seeding", SchemaFacts(s), Latest)])
    BY DEF StartSeeding
  <1>2. Core(F, rows, jobs, index, expect) /\ Dense(rows, jobs)
    BY DEF FactsInv
  <1>3. SchemaFacts(s) \in Seq(F) /\ Latest \in Nat
    <2>1. Shape(F, rows, jobs)
      BY Zenon, <1>2 DEF Core
    <2> QED BY Zenon, <1>2, <2>1, FactsAssumption, LatestIsLater
  <1> DEFINE j == Job("seeding", SchemaFacts(s), Latest)
  <1>4. j \in JobRecord(F) /\ j.id = 0 /\ j.phase = "seeding"
    BY <1>3, JobFields
  <1>5. Discovery \in Writers
    BY DEF Writers
  <1> HIDE DEF j
  <1>6. Core(F, rows, [jobs EXCEPT ![Discovery] = j], index, expect)
    <2>1. j.phase = "idle" => j.at = 0 /\ j.made = 0 /\ j.todo = << >>
      BY <1>4
    <2> QED BY Zenon, <1>2, <1>4, <1>5, <2>1, JobChanged
  <1>7. Store(rows, [jobs EXCEPT ![Discovery] = j])
    BY Zenon, <1>1 DEF j
  <1>8. Core(F, rows', jobs', index, expect) /\ Dense(rows', jobs')
    BY Zenon, <1>6, <1>7, StoreKeeps
  <1> QED BY Zenon, <1>8 DEF StartSeeding, After

LEMMA FactsOfCorrections == \A c \in Corrections : Correction(c) \in Facts
  <1> DEFINE A == UNION {ToSet(SchemaFacts(s)) : s \in Schemas}
             B == UNION {ToSet(e) : e \in Extracted}
             C == {Correction(d) : d \in Corrections}
  <1>1. Facts = A \cup B \cup C
    BY Zenon DEF Facts
  <1>2. \A c \in Corrections : Correction(c) \in C
    BY Zenon
  <1> HIDE DEF A, B, C
  <1> QED BY Zenon, <1>1, <1>2

LEMMA KeptCorrection ==
  ASSUME NEW F, F = Facts, FactsInv(F), NEW w \in Chatters, StartCorrection(w)
  PROVE  After(F)
  <1>1. PICK c \in Corrections : jobs' = [jobs EXCEPT ![w] = Job("correcting", << Correction(c) >>, 0)]
    BY DEF StartCorrection
  <1>2. Core(F, rows, jobs, index, expect) /\ Dense(rows, jobs) /\ Shape(F, rows, jobs)
    BY Zenon DEF FactsInv, Core
  <1>3. << Correction(c) >> \in Seq(F)
    <2>1. Correction(c) \in F
      BY Zenon, FactsOfCorrections
    <2> QED BY <2>1
  <1> DEFINE facts == << Correction(c) >>
             j == Job("correcting", facts, 0)
  <1>4. j \in JobRecord(F) /\ j.id = 0 /\ j.phase = "correcting" /\ j.at = 0 /\ j.made = 0
    <2>1. facts \in Seq(F)
      BY <1>3
    <2> HIDE DEF facts
    <2> QED BY <2>1, JobFields
  <1>5. w \in Writers
    BY DEF Writers
  <1> HIDE DEF j
  <1>6. jobs' = [jobs EXCEPT ![w] = j]
    BY Zenon, <1>1 DEF j
  <1>7. Core(F, rows, jobs', index, expect)
    <2>1. j.phase = "idle" => j.at = 0 /\ j.made = 0 /\ j.todo = << >>
      BY <1>4
    <2> QED BY Zenon, <1>2, <1>4, <1>5, <1>6, <2>1, JobChanged
  <1>8. Stamps(rows, jobs') = Stamps(rows, jobs)
    <2>1. jobs[w].at = 0 /\ jobs[w].made = 0
      BY Zenon, <1>2, <1>5 DEF StartCorrection, Shape
    <2>2. \A v \in Writers : jobs'[v].at = jobs[v].at /\ jobs'[v].made = jobs[v].made
      <3>1. jobs \in [Writers -> JobRecord(F)]
        BY Zenon, <1>2 DEF Shape
      <3>2. jobs'[w] = j /\ \A v \in Writers : v # w => jobs'[v] = jobs[v]
        BY Zenon, <1>5, <1>6, <3>1
      <3> QED BY Zenon, <1>4, <2>1, <3>2
    <2> QED BY <2>2 DEF Stamps
  <1>9. rows' = rows /\ index' = index /\ expect' = expect
    BY DEF StartCorrection
  <1> QED BY Zenon, <1>2, <1>7, <1>8, <1>9 DEF After, Dense

\* What follows a seeding: an extraction, or nothing.
LEMMA ExtractionFields ==
  ASSUME NEW F, F = Facts, FactsInv(F), NEW e \in Extracted \cup {<< >>}
  PROVE  /\ Extraction(e) \in JobRecord(F) /\ Extraction(e).id = 0
         /\ Extraction(e).phase = "idle" =>
              Extraction(e).at = 0 /\ Extraction(e).made = 0 /\ Extraction(e).todo = << >>
  <1>1. e \in Seq(F)
    <2>1. << >> \in Seq(F)
      OBVIOUS
    <2>2. Extracted \subseteq Seq(F)
      BY Zenon, FactsAssumption
    <2> QED BY Zenon, <2>1, <2>2
  <1>2. CASE e = << >>
    BY Zenon, <1>2, IdleJob DEF Extraction
  <1>3. CASE e # << >>
    <2>1. Extraction(e) = Job("extracting", e, Latest)
      BY Zenon, <1>3 DEF Extraction
    <2>2. Latest \in Nat
      BY Zenon, LatestIsLater DEF FactsInv, Core
    <2> QED BY <1>1, <2>1, <2>2, JobFields
  <1> QED BY <1>2, <1>3

LEMMA KeptFailure ==
  ASSUME NEW F, F = Facts, FactsInv(F), NEW w \in Writers, Fails(w)
  PROVE  After(F)
  <1>1. Core(F, rows, jobs, index, expect)
    BY DEF FactsInv
  <1>2. PICK e \in Extracted \cup {<< >>} : Store(rows, [jobs EXCEPT ![w] = Extraction(e)])
    BY Zenon DEF Fails
  <1>3. Core(F, rows, [jobs EXCEPT ![w] = Extraction(e)], index, expect)
    <2>1. /\ Extraction(e) \in JobRecord(F) /\ Extraction(e).id = 0
          /\ Extraction(e).phase = "idle" =>
               Extraction(e).at = 0 /\ Extraction(e).made = 0 /\ Extraction(e).todo = << >>
      BY Zenon, ExtractionFields
    <2> QED BY Zenon, <1>1, <2>1, JobChanged
  <1>4. Core(F, rows', jobs', index, expect) /\ Dense(rows', jobs')
    BY Zenon, <1>2, <1>3, StoreKeeps
  <1> QED BY Zenon, <1>4 DEF Fails, After

\* The jobs of those who save a fact of key k learn of a rival.
WarnedOf(k) ==
    [v \in Writers |-> IF Saving(v) /\ KeyOf(jobs[v]) = k THEN [jobs[v] EXCEPT !.raced = TRUE] ELSE jobs[v]]

LEMMA WarnedOfKey ==
  ASSUME NEW F, Core(F, rows, jobs, index, expect), NEW k
  PROVE  /\ Core(F, rows, WarnedOf(k), index, expect)
         /\ \A v \in Writers : WarnedOf(k)[v].id # 0 /\ KeyOf(WarnedOf(k)[v]) = k => WarnedOf(k)[v].raced
  <1> DEFINE js == WarnedOf(k)
  <1>1. jobs \in [Writers -> JobRecord(F)]
    BY Zenon DEF Core, Shape
  <1>2. ASSUME NEW v \in Writers
        PROVE  /\ js[v] \in JobRecord(F)
               /\ js[v].phase = jobs[v].phase /\ js[v].todo = jobs[v].todo /\ js[v].id = jobs[v].id
               /\ js[v].at = jobs[v].at /\ js[v].made = jobs[v].made
               /\ jobs[v].raced => js[v].raced
               /\ Saving(v) /\ KeyOf(jobs[v]) = k => js[v].raced
    <2>1. jobs[v] \in JobRecord(F)
      BY <1>1
    <2>2. CASE Saving(v) /\ KeyOf(jobs[v]) = k
      <3>1. js[v] = [jobs[v] EXCEPT !.raced = TRUE]
        BY <2>2 DEF WarnedOf
      <3> QED BY <2>1, <3>1 DEF JobRecord
    <2>3. CASE ~(Saving(v) /\ KeyOf(jobs[v]) = k)
      <3>1. js[v] = jobs[v]
        BY Zenon, <2>3 DEF WarnedOf
      <3> QED BY <2>1, <2>3, <3>1
    <2> QED BY <2>2, <2>3
  <1>3. js \in [Writers -> JobRecord(F)]
    <2>1. js = [v \in Writers |-> js[v]]
      BY Zenon DEF WarnedOf
    <2> HIDE DEF js
    <2> QED BY Zenon, <1>2, <2>1
  <1> HIDE DEF js
  <1>4. Warned(F, jobs, js)
    BY Zenon, <1>2, <1>3 DEF Warned
  <1>5. Core(F, rows, js, index, expect)
    BY Zenon, <1>4, WarnedKeepsCore
  <1>6. \A v \in Writers : js[v].id # 0 /\ KeyOf(js[v]) = k => js[v].raced
    BY Zenon, <1>2 DEF KeyOf, Saving
  <1> QED BY Zenon, <1>5, <1>6 DEF js

LEMMA KeptDeletion ==
  ASSUME NEW F, F = Facts, FactsInv(F), NEW r \in Rowids, Delete(r)
  PROVE  After(F)
  <1> DEFINE k == rows[r].key
             js == WarnedOf(k)
             rs == WithoutRow(rows, r)
             ex == [expect EXCEPT ![k] = Unknown]
  <1>1. Core(F, rows, jobs, index, expect)
    BY DEF FactsInv
  <1>2. Core(F, rows, js, index, expect) /\ \A v \in Writers : js[v].id # 0 /\ KeyOf(js[v]) = k => js[v].raced
    BY Zenon, <1>1, WarnedOfKey
  <1>3. Store(rs, js) /\ expect' = ex
    BY Zenon DEF Delete, Edited, WarnedOf, WithoutRow, KeyOf, Rowids
  <1>4. index' = index
    BY DEF Delete, FtsDeleteAbsent
  <1>5. r \in DOMAIN rows
    BY Zenon DEF Rowids
  <1> HIDE DEF js
  <1>6. Core(F, rs, js, index, ex)
    BY Zenon, <1>2, <1>5, RowDeleted
  <1> HIDE DEF rs, ex
  <1>7. Core(F, rows', jobs', index, ex) /\ Dense(rows', jobs')
    BY Zenon, <1>3, <1>6, StoreKeeps
  <1> QED BY Zenon, <1>3, <1>4, <1>7 DEF After

Patched(row, a, c, t) == [row EXCEPT !.active = a, !.claim = c, !.at = t]

LEMMA RowFields ==
  ASSUME NEW F, NEW old \in Row(F), NEW a, NEW c, NEW t,
         a \in BOOLEAN /\ c \in {f.claim : f \in F} /\ t \in Nat
  PROVE  /\ Patched(old, a, c, t) \in Row(F)
         /\ Patched(old, a, c, t).id = old.id /\ Patched(old, a, c, t).key = old.key
         /\ Patched(old, a, c, t).claim = c /\ Patched(old, a, c, t).at = t
         /\ Patched(old, a, c, t).active = a
  <1> DEFINE B == BOOLEAN
             C == {f.claim : f \in F}
             K == {f.key : f \in F}
  <1>1. old \in [id : Ids, key : K, claim : C, at : Nat, active : B] /\ a \in B /\ c \in C
    BY DEF Row
  <1> HIDE DEF B, C, K
  <1>2. [old EXCEPT !.active = a, !.claim = c, !.at = t] \in [id : Ids, key : K, claim : C, at : Nat, active : B]
    BY <1>1
  <1>3. /\ [old EXCEPT !.active = a, !.claim = c, !.at = t].id = old.id
        /\ [old EXCEPT !.active = a, !.claim = c, !.at = t].key = old.key
        /\ [old EXCEPT !.active = a, !.claim = c, !.at = t].claim = c
        /\ [old EXCEPT !.active = a, !.claim = c, !.at = t].at = t
        /\ [old EXCEPT !.active = a, !.claim = c, !.at = t].active = a
    BY <1>1
  <1> QED BY Zenon, <1>2, <1>3 DEF Patched, Row, B, C, K

LEMMA KeptPatch ==
  ASSUME NEW F, F = Facts, FactsInv(F), NEW r \in Rowids,
         NEW active \in BOOLEAN, NEW f \in {g \in Facts : g.key = rows[r].key},
         Patch(r, active, f.claim)
  PROVE  After(F)
  <1> DEFINE k == rows[r].key
             js == WarnedOf(k)
             at == IF active THEN Latest ELSE 0
             row == Patched(rows[r], active, f.claim, at)
             rs == WithRow(rows, r, row)
             ex == [expect EXCEPT ![k] = Unknown]
             ix == index \cup {<< r, f.claim >>}
  <1>1. Core(F, rows, jobs, index, expect) /\ Dense(rows, jobs) /\ Shape(F, rows, jobs)
        /\ OwnIds(rows, jobs)
    BY Zenon DEF FactsInv, Core
  <1>2. Core(F, rows, js, index, expect) /\ \A v \in Writers : js[v].id # 0 /\ KeyOf(js[v]) = k => js[v].raced
    BY Zenon, <1>1, WarnedOfKey
  <1>3. at \in Nat /\ (active => at > 0)
    BY Zenon, <1>1, LatestIsLater
  <1>4. r \in DOMAIN rows /\ rows[r] \in Row(F) /\ r \in 1..MaxRows /\ rows = [q \in DOMAIN rows |-> rows[q]]
    BY Zenon, <1>1 DEF Rowids, Shape
  <1> HIDE DEF js, at
  <1>5. /\ row \in Row(F) /\ row.id = rows[r].id /\ row.key = k /\ row.claim = f.claim
        /\ row.at = at /\ row.active = active
    <2> DEFINE c == f.claim
               old == rows[r]
    <2>1. old \in Row(F)
      BY <1>4
    <2>2. active \in BOOLEAN /\ c \in {g.claim : g \in F} /\ at \in Nat
      BY Zenon, <1>3
    <2> HIDE DEF c, old
    <2>3. /\ Patched(old, active, c, at) \in Row(F)
          /\ Patched(old, active, c, at).id = old.id /\ Patched(old, active, c, at).key = old.key
          /\ Patched(old, active, c, at).claim = c /\ Patched(old, active, c, at).at = at
          /\ Patched(old, active, c, at).active = active
      BY <2>1, <2>2, RowFields
    <2> QED BY Zenon, <2>3 DEF c, old
  <1>6. [rows EXCEPT ![r].active = active, ![r].claim = f.claim, ![r].at = at] = rs
    <2> DEFINE new == [rows EXCEPT ![r].active = active, ![r].claim = f.claim, ![r].at = at]
    <2>1. new[r] = row
      BY <1>4 DEF Patched
    <2>2. new = [q \in DOMAIN rows |-> new[q]] /\ \A q \in DOMAIN rows : q # r => new[q] = rows[q]
      BY <1>4
    <2> HIDE DEF row, new
    <2>3. new = rs
      BY <1>4, <2>1, <2>2 DEF WithRow
    <2> QED BY Zenon, <2>3 DEF new
  <1>7. Store(rs, js) /\ expect' = ex
    <2>1. Store([rows EXCEPT ![r].active = active, ![r].claim = f.claim, ![r].at = at], js)
      BY Zenon DEF Patch, Edited, WarnedOf, KeyOf, js, at
    <2>2. expect' = ex
      BY Zenon DEF Patch, Edited
    <2> QED BY Zenon, <1>6, <2>1, <2>2
  <1>8. index' = ix
    BY Zenon DEF Patch, Resync, FtsReplace
  <1> HIDE DEF row
  <1>9. Writable(F, rows, js, r, row, Unknown)
    <2>1. \A q \in DOMAIN rows : q = r <=> rows[q].id = row.id
      BY Zenon, <1>1, <1>4, <1>5 DEF OwnIds
    <2>2. OwnIds(rows, js)
      BY Zenon, <1>2 DEF Core
    <2>3. \A v \in Writers : js[v].id # 0 /\ js[v].id = row.id => KeyOf(js[v]) = row.key
      <3> SUFFICES ASSUME NEW v \in Writers, js[v].id # 0, js[v].id = row.id PROVE KeyOf(js[v]) = row.key
        OBVIOUS
      <3>1. rows[r].id = js[v].id
        BY <1>5
      <3>2. rows[r].key = KeyOf(js[v])
        BY Zenon, <1>4, <2>2, <3>1 DEF OwnIds
      <3> QED BY <1>5, <3>2
    <2> QED BY Zenon, <1>2, <1>3, <1>4, <1>5, <2>1, <2>3 DEF Writable
  <1>10. Core(F, rs, js, index \cup {<< r, row.claim >>}, [expect EXCEPT ![row.key] = Unknown])
    BY Zenon, <1>2, <1>9, RowWritten
  <1>11. Core(F, rs, js, ix, ex)
    BY Zenon, <1>5, <1>10
  <1> HIDE DEF rs, ex, ix
  <1>12. Core(F, rows', jobs', ix, ex) /\ Dense(rows', jobs')
    BY Zenon, <1>7, <1>11, StoreKeeps
  <1> QED BY Zenon, <1>7, <1>8, <1>12 DEF After

Dropped(row) == [row EXCEPT !.active = FALSE, !.at = 0]

LEMMA DroppedFields ==
  ASSUME NEW F, NEW old \in Row(F)
  PROVE  /\ Dropped(old) \in Row(F)
         /\ Dropped(old).id = old.id /\ Dropped(old).key = old.key /\ Dropped(old).claim = old.claim
         /\ ~Dropped(old).active
  <1> DEFINE B == BOOLEAN
             C == {f.claim : f \in F}
             K == {f.key : f \in F}
  <1>1. old \in [id : Ids, key : K, claim : C, at : Nat, active : B] /\ FALSE \in B /\ 0 \in Nat
    BY DEF Row
  <1> HIDE DEF B, C, K
  <1>2. [old EXCEPT !.active = FALSE, !.at = 0] \in [id : Ids, key : K, claim : C, at : Nat, active : B]
    BY <1>1
  <1>3. /\ [old EXCEPT !.active = FALSE, !.at = 0].id = old.id
        /\ [old EXCEPT !.active = FALSE, !.at = 0].key = old.key
        /\ [old EXCEPT !.active = FALSE, !.at = 0].claim = old.claim
        /\ ~[old EXCEPT !.active = FALSE, !.at = 0].active
    BY <1>1
  <1> QED BY Zenon, <1>2, <1>3 DEF Dropped, Row, B, C, K

LEMMA KeptDedup ==
  ASSUME NEW F, F = Facts, FactsInv(F), Dedup
  PROVE  After(F)
  <1> DEFINE Out(r) == r \in Active /\ Grouped(r) /\ ~Kept(r)
             rs == [r \in Rowids |-> IF Out(r) THEN Dropped(rows[r]) ELSE rows[r]]
  <1>1. Core(F, rows, jobs, index, expect) /\ Dense(rows, jobs) /\ Shape(F, rows, jobs)
    BY Zenon DEF FactsInv, Core
  <1>2. PICK e \in Extracted \cup {<< >>} : Store(rs, [jobs EXCEPT ![Discovery] = Extraction(e)])
    BY Zenon DEF Dedup, Dropped
  <1> DEFINE j == Extraction(e)
  <1>4. j \in JobRecord(F) /\ j.id = 0 /\ (j.phase = "idle" => j.at = 0 /\ j.made = 0 /\ j.todo = << >>)
    BY Zenon, ExtractionFields
  <1>5. ASSUME NEW r \in DOMAIN rows
        PROVE  /\ rs[r] \in Row(F)
               /\ rs[r].id = rows[r].id /\ rs[r].key = rows[r].key /\ rs[r].claim = rows[r].claim
               /\ rs[r].active => rows[r].active /\ rs[r].at = rows[r].at
               /\ Newest(rows, rows[r].key, r) => rs[r].active
    <2>1. rows[r] \in Row(F) /\ r \in Rowids
      BY Zenon, <1>1 DEF Shape, Rowids
    <2>2. CASE Out(r)
      <3>1. rs[r] = Dropped(rows[r])
        BY Zenon, <2>1, <2>2
      <3>2. ~Newest(rows, rows[r].key, r)
        BY Zenon, <2>2 DEF Kept, Of, Active, Rowids, Newest
      <3>3. /\ Dropped(rows[r]) \in Row(F)
            /\ Dropped(rows[r]).id = rows[r].id /\ Dropped(rows[r]).key = rows[r].key
            /\ Dropped(rows[r]).claim = rows[r].claim /\ ~Dropped(rows[r]).active
        BY Zenon, <2>1, DroppedFields
      <3> HIDE DEF rs, Out
      <3> QED BY Zenon, <3>1, <3>2, <3>3
    <2>3. CASE ~Out(r)
      <3>1. rs[r] = rows[r]
        BY Zenon, <2>1, <2>3
      <3> HIDE DEF rs, Out
      <3> QED BY Zenon, <2>1, <3>1 DEF Newest
    <2> QED BY <2>2, <2>3
  <1>6. Thinned(F, rows, rs)
    <2>1. DOMAIN rs = DOMAIN rows /\ rs = [r \in DOMAIN rows |-> rs[r]]
      BY Zenon DEF Rowids
    <2> HIDE DEF rs
    <2>2. rs \in [DOMAIN rows -> Row(F)]
      BY Zenon, <1>5, <2>1
    <2> QED BY Zenon, <1>5, <2>1, <2>2 DEF Thinned
  <1>7. Discovery \in Writers
    BY DEF Writers
  <1> HIDE DEF rs, j, Out
  <1>8. Core(F, rs, [jobs EXCEPT ![Discovery] = j], index, expect)
    <2>1. Core(F, rs, jobs, index, expect)
      BY Zenon, <1>1, <1>6, ThinnedKeepsCore
    <2> QED BY Zenon, <1>4, <1>7, <2>1, JobChanged
  <1>9. Core(F, rows', jobs', index, expect) /\ Dense(rows', jobs')
    <2>1. Store(rs, [jobs EXCEPT ![Discovery] = j])
      BY Zenon, <1>2 DEF j
    <2> QED BY Zenon, <1>8, <2>1, StoreKeeps
  <1> QED BY Zenon, <1>9 DEF Dedup, After

Opened(j, i, t, b) == [j EXCEPT !.id = i, !.at = t, !.raced = b]

LEMMA OpenedFields ==
  ASSUME NEW F, NEW j \in JobRecord(F), NEW i \in Ids, NEW t \in Nat, NEW b, b \in BOOLEAN
  PROVE  /\ Opened(j, i, t, b) \in JobRecord(F)
         /\ Opened(j, i, t, b).phase = j.phase /\ Opened(j, i, t, b).todo = j.todo
         /\ Opened(j, i, t, b).id = i /\ Opened(j, i, t, b).at = t /\ Opened(j, i, t, b).raced = b
  <1> DEFINE B == BOOLEAN
             I == Ids \cup {0}
             P == {"idle", "seeding", "extracting", "correcting"}
             T == Seq(F)
  <1>1. j \in [phase : P, todo : T, id : I, at : Nat, made : Nat, raced : B] /\ i \in I /\ b \in B
    BY DEF JobRecord
  <1> HIDE DEF B, I, P, T
  <1>2. [j EXCEPT !.id = i, !.at = t, !.raced = b]
           \in [phase : P, todo : T, id : I, at : Nat, made : Nat, raced : B]
    BY <1>1
  <1>3. /\ [j EXCEPT !.id = i, !.at = t, !.raced = b].phase = j.phase
        /\ [j EXCEPT !.id = i, !.at = t, !.raced = b].todo = j.todo
        /\ [j EXCEPT !.id = i, !.at = t, !.raced = b].id = i
        /\ [j EXCEPT !.id = i, !.at = t, !.raced = b].at = t
        /\ [j EXCEPT !.id = i, !.at = t, !.raced = b].raced = b
    BY <1>1
  <1> QED BY Zenon, <1>2, <1>3 DEF Opened, JobRecord, B, I, P, T

LEMMA KeptFinding ==
  ASSUME NEW F, F = Facts, FactsInv(F), NEW w \in Writers, Find(w)
  PROVE  After(F)
  <1> DEFINE k == KeyOf(jobs[w])
             rivals == {v \in Writers \ {w} : Saving(v) /\ Head(jobs[v].todo).key = k}
             js == WarnedOf(k)
             raced == rivals # {}
  <1>1. /\ Core(F, rows, jobs, index, expect) /\ Dense(rows, jobs) /\ Shape(F, rows, jobs)
        /\ OwnIds(rows, jobs)
    BY Zenon DEF FactsInv, Core
  <1>2. jobs[w].todo # << >> /\ jobs[w].id = 0
    BY Zenon DEF Find, Saving
  <1>3. PICK i \in Existing(k) :
           Store(rows, [v \in Writers |->
              IF v = w THEN Opened(jobs[w], i, Latest, raced)
              ELSE IF v \in rivals THEN [jobs[v] EXCEPT !.raced = TRUE] ELSE jobs[v]])
    BY Zenon DEF Find, KeyOf, Opened
  <1> DEFINE j == Opened(jobs[w], i, Latest, raced)
  <1>4. Latest \in Nat /\ Latest > 0 /\ \A r \in DOMAIN rows : rows[r].at < Latest
    BY Zenon, <1>1, LatestIsLater
  <1>5. /\ i \in Ids
        /\ \/ /\ \A r \in DOMAIN rows : rows[r].id # i /\ ~(rows[r].active /\ rows[r].key = k)
              /\ \A v \in Writers : jobs[v].id # i
           \/ \E r \in DOMAIN rows : rows[r].id = i /\ rows[r].key = k
    <2>1. CASE Of(k) = {}
      <3>1. i = NewId
        BY Zenon, <2>1 DEF Existing
      <3>2. \A r \in DOMAIN rows : ~(rows[r].active /\ rows[r].key = k)
        BY Zenon, <2>1 DEF Of, Active, Rowids
      <3> HIDE DEF k
      <3> QED BY Zenon, <1>1, <1>2, <3>1, <3>2, NewIdIsNew
    <2>2. CASE Of(k) # {}
      <3>1. PICK r \in Of(k) : i = rows[r].id
        BY Zenon, <2>2 DEF Existing
      <3>2. r \in DOMAIN rows /\ rows[r].key = k
        BY Zenon DEF Of, Active, Rowids
      <3>3. rows[r] \in Row(F)
        BY Zenon, <1>1, <3>2 DEF Shape
      <3>4. i \in Ids
        BY <3>1, <3>3 DEF Row
      <3> HIDE DEF k
      <3> QED BY Zenon, <3>1, <3>2, <3>4
    <2> QED BY <2>1, <2>2
  <1>6. /\ j \in JobRecord(F) /\ j.phase = jobs[w].phase /\ j.todo = jobs[w].todo
        /\ j.id = i /\ j.at = Latest /\ j.raced = raced
    <2>1. jobs[w] \in JobRecord(F)
      BY Zenon, <1>1 DEF Shape
    <2>2. raced \in BOOLEAN
      OBVIOUS
    <2> HIDE DEF raced
    <2> QED BY <1>4, <1>5, <2>1, <2>2, OpenedFields
  <1>7. KeyOf(j) = k
    BY Zenon, <1>6 DEF KeyOf
  <1>8. \A v \in Writers : v \in rivals <=> v # w /\ jobs[v].id # 0 /\ KeyOf(jobs[v]) = k
    BY Zenon DEF Saving, KeyOf
  <1>9. \A v \in Writers : /\ KeyOf(js[v]) = KeyOf(jobs[v]) /\ js[v].id = jobs[v].id
                           /\ js[v] = IF v \in rivals THEN [jobs[v] EXCEPT !.raced = TRUE] ELSE jobs[v]
    <2> SUFFICES ASSUME NEW v \in Writers
                 PROVE  /\ KeyOf(js[v]) = KeyOf(jobs[v]) /\ js[v].id = jobs[v].id
                        /\ js[v] = IF v \in rivals THEN [jobs[v] EXCEPT !.raced = TRUE] ELSE jobs[v]
      BY Zenon
    <2>1. v \in rivals <=> Saving(v) /\ KeyOf(jobs[v]) = k
      BY Zenon, <1>2, <1>8 DEF Saving
    <2>2. js[v] = IF Saving(v) /\ KeyOf(jobs[v]) = k THEN [jobs[v] EXCEPT !.raced = TRUE] ELSE jobs[v]
      BY Zenon DEF WarnedOf
    <2>3. [jobs[v] EXCEPT !.raced = TRUE].todo = jobs[v].todo /\ [jobs[v] EXCEPT !.raced = TRUE].id = jobs[v].id
      <3>1. jobs[v] \in JobRecord(F)
        BY Zenon, <1>1 DEF Shape
      <3> QED BY <3>1 DEF JobRecord
    <2> HIDE DEF k, rivals, js
    <2> QED BY Zenon, <2>1, <2>2, <2>3 DEF KeyOf
  <1>10. Core(F, rows, js, index, expect) /\ \A v \in Writers : js[v].id # 0 /\ KeyOf(js[v]) = k => js[v].raced
    BY Zenon, <1>1, WarnedOfKey
  <1>11. Store(rows, [js EXCEPT ![w] = j])
    <2>1. js \in [Writers -> JobRecord(F)]
      BY Zenon, <1>10 DEF Core, Shape
    <2>2. [v \in Writers |->
              IF v = w THEN j
              ELSE IF v \in rivals THEN [jobs[v] EXCEPT !.raced = TRUE] ELSE jobs[v]]
            = [js EXCEPT ![w] = j]
      <3>1. js = [v \in Writers |-> js[v]]
        BY Zenon, <2>1
      <3> DEFINE new(v) == IF v \in rivals THEN [jobs[v] EXCEPT !.raced = TRUE] ELSE jobs[v]
      <3>2. \A v \in Writers : js[v] = new(v)
        BY Zenon, <1>9
      <3> HIDE DEF js, j, new
      <3>3. [v \in Writers |-> IF v = w THEN j ELSE new(v)] = [js EXCEPT ![w] = j]
        BY <3>1, <3>2
      <3> QED BY Zenon, <3>3 DEF new
    <2> QED BY Zenon, <1>3, <2>2
  <1> HIDE DEF js, j, k, rivals, raced
  <1>12. Opens(F, rows, js, w, j)
    <2>1. j.phase # "idle" /\ j.todo # << >> /\ j.at > 0
      BY Zenon, <1>1, <1>2, <1>4, <1>6 DEF Shape
    <2>2. \A r \in DOMAIN rows : rows[r].id = i => rows[r].key = k
      <3> SUFFICES ASSUME NEW r \in DOMAIN rows, rows[r].id = i PROVE rows[r].key = k
        OBVIOUS
      <3>1. PICK q \in DOMAIN rows : rows[q].id = i /\ rows[q].key = k
        BY Zenon, <1>5
      <3>2. q = r
        BY Zenon, <1>1, <3>1 DEF OwnIds
      <3> QED BY Zenon, <3>1, <3>2
    <2>3. \A v \in Writers \ {w} : js[v].id # 0 /\ js[v].id = i => KeyOf(js[v]) = k
      <3> SUFFICES ASSUME NEW v \in Writers, jobs[v].id # 0, jobs[v].id = i PROVE KeyOf(jobs[v]) = k
        BY Zenon, <1>9
      <3>1. PICK q \in DOMAIN rows : rows[q].id = i /\ rows[q].key = k
        BY Zenon, <1>5
      <3>2. rows[q].id = jobs[v].id
        BY <3>1
      <3>3. rows[q].key = KeyOf(jobs[v])
        BY Zenon, <1>1, <3>2 DEF OwnIds
      <3> QED BY Zenon, <3>1, <3>3
    <2>4. \A v \in Writers \ {w} : js[v].id # 0 /\ KeyOf(js[v]) = k => js[v].raced /\ raced
      <3> SUFFICES ASSUME NEW v \in Writers, v # w, js[v].id # 0, KeyOf(js[v]) = k PROVE js[v].raced /\ raced
        BY Zenon
      <3>1. v \in rivals
        BY Zenon, <1>8, <1>9
      <3> QED BY Zenon, <1>10, <3>1 DEF raced
    <2>5. \A r \in DOMAIN rows : rows[r].active /\ rows[r].key = k =>
             rows[r].at < Latest /\ \E q \in DOMAIN rows : rows[q].id = i
      BY Zenon, <1>4, <1>5
    <2>6. j \in JobRecord(F) /\ j.id = i /\ j.at = Latest /\ j.raced = raced
      BY Zenon, <1>6
    <2> QED BY Zenon, <1>7, <2>1, <2>2, <2>3, <2>4, <2>5, <2>6 DEF Opens
  <1>13. Core(F, rows, [js EXCEPT ![w] = j], index, expect)
    BY Zenon, <1>10, <1>12, SaveOpened
  <1>14. Core(F, rows', jobs', index, expect) /\ Dense(rows', jobs')
    BY Zenon, <1>11, <1>13, StoreKeeps
  <1> QED BY Zenon, <1>14 DEF Find, After

\* What a writer has left once a fact is saved.
LEMMA AfterFirstFields ==
  ASSUME NEW F, NEW j \in JobRecord(F), j.todo # << >>, j.phase # "idle"
  PROVE  /\ AfterFirst(j) \in JobRecord(F) /\ AfterFirst(j).id = 0
         /\ AfterFirst(j).phase = "idle" =>
               AfterFirst(j).at = 0 /\ AfterFirst(j).made = 0 /\ AfterFirst(j).todo = << >>
  <1>1. CASE j.phase = "seeding" \/ Len(j.todo) > 1
    <2> DEFINE p == j.phase
               t == Tail(j.todo)
               m == j.made
    <2>1. AfterFirst(j) = Job(p, t, m)
      BY <1>1 DEF AfterFirst
    <2>2. /\ p \in {"idle", "seeding", "extracting", "correcting"} /\ p # "idle"
          /\ t \in Seq(F) /\ m \in Nat
      BY DEF JobRecord
    <2> HIDE DEF p, t, m
    <2> QED BY <2>1, <2>2, JobFields
  <1>2. CASE ~(j.phase = "seeding" \/ Len(j.todo) > 1)
    <2>1. AfterFirst(j) = Idle
      BY <1>2 DEF AfterFirst
    <2> QED BY Zenon, <2>1, IdleJob
  <1> QED BY <1>1, <1>2

Saved(row, c, t) == [row EXCEPT !.claim = c, !.at = t, !.active = TRUE]

LEMMA SavedFields ==
  ASSUME NEW F, NEW old \in Row(F), NEW c \in {f.claim : f \in F}, NEW t \in Nat
  PROVE  /\ Saved(old, c, t) \in Row(F)
         /\ Saved(old, c, t).id = old.id /\ Saved(old, c, t).key = old.key
         /\ Saved(old, c, t).claim = c /\ Saved(old, c, t).at = t /\ Saved(old, c, t).active
  <1> DEFINE B == BOOLEAN
             C == {f.claim : f \in F}
             K == {f.key : f \in F}
  <1>1. old \in [id : Ids, key : K, claim : C, at : Nat, active : B] /\ TRUE \in B /\ c \in C
    BY DEF Row
  <1> HIDE DEF B, C, K
  <1>2. [old EXCEPT !.claim = c, !.at = t, !.active = TRUE]
           \in [id : Ids, key : K, claim : C, at : Nat, active : B]
    BY <1>1
  <1>3. /\ [old EXCEPT !.claim = c, !.at = t, !.active = TRUE].id = old.id
        /\ [old EXCEPT !.claim = c, !.at = t, !.active = TRUE].key = old.key
        /\ [old EXCEPT !.claim = c, !.at = t, !.active = TRUE].claim = c
        /\ [old EXCEPT !.claim = c, !.at = t, !.active = TRUE].at = t
        /\ [old EXCEPT !.claim = c, !.at = t, !.active = TRUE].active
    BY <1>1
  <1> QED BY Zenon, <1>2, <1>3 DEF Saved, Row, B, C, K

LEMMA KeptSave ==
  ASSUME NEW F, F = Facts, FactsInv(F), NEW w \in Writers, Save(w)
  PROVE  After(F)
  <1> DEFINE j == jobs[w]
             f == Head(j.todo)
             k == f.key
             old == Written(j.id) # {}
             r == IF old THEN CHOOSE q \in Written(j.id) : TRUE ELSE NewRowid
             row == IF r \in Rowids
                    THEN Saved(rows[r], f.claim, j.at)
                    ELSE [id |-> j.id, key |-> k, claim |-> f.claim,
                          at |-> IF j.made = 0 THEN j.at ELSE j.made, active |-> TRUE]
             c == IF j.raced THEN Unknown ELSE f.claim
             js == [jobs EXCEPT ![w] = AfterFirst(j)]
             rs == WithRow(rows, r, row)
             ex == [expect EXCEPT ![k] = c]
             ix == index \cup {<< r, f.claim >>}
  <1>1. /\ Core(F, rows, jobs, index, expect) /\ Shape(F, rows, jobs) /\ OwnIds(rows, jobs)
        /\ Races(jobs) /\ Fresh(rows, jobs)
    BY Zenon DEF FactsInv, Core
  <1>2. j.id # 0
    BY Zenon DEF Save, Saving
  <1>3. /\ j \in JobRecord(F) /\ j.todo # << >> /\ j.at > 0 /\ j.phase # "idle"
        /\ \A q \in DOMAIN rows : rows[q] \in Row(F) /\ q \in 1..MaxRows
    BY Zenon, <1>1, <1>2 DEF Shape
  <1>4. f \in F /\ j.at \in Nat /\ j.made \in Nat /\ j.raced \in BOOLEAN /\ j.id \in Ids
    BY <1>2, <1>3 DEF JobRecord
  <1>5. KeyOf(j) = k
    BY Zenon DEF KeyOf
  <1>6. r <= MaxRows
    BY Zenon DEF Save, Rowids
  <1>7. Store(rs, js) /\ index' = ix /\ expect' = ex
    BY Zenon DEF Save, Resync, FtsReplace, Saved, WithRow, Rowids
  <1>8. /\ r \in 1..MaxRows
        /\ \/ r \in DOMAIN rows /\ rows[r].id = j.id /\ rows[r].key = k
           \/ r \notin DOMAIN rows /\ \A q \in DOMAIN rows : rows[q].id # j.id
    <2>1. CASE old
      <3>1. r \in Written(j.id)
        BY Zenon, <2>1
      <3>2. r \in DOMAIN rows /\ rows[r].id = j.id
        BY Zenon, <3>1 DEF Written, Rowids
      <3> HIDE DEF j, r
      <3>3. rows[r].key = KeyOf(j)
        BY Zenon, <1>1, <1>2, <3>2 DEF OwnIds, j
      <3> QED BY Zenon, <1>3, <1>5, <3>2, <3>3
    <2>2. CASE ~old
      <3>1. r = NewRowid
        BY Zenon, <2>2
      <3>2. \A q \in DOMAIN rows : rows[q].id # j.id
        BY Zenon, <2>2 DEF Written, Rowids
      <3>3. NewRowid \in Nat /\ NewRowid > 0 /\ NewRowid \notin DOMAIN rows
        BY Zenon, <1>1, NewRowidIsNew
      <3> HIDE DEF j, r, k
      <3>4. r \in 1..MaxRows
        BY <1>6, <3>1, <3>3, FactsAssumption
      <3> QED BY Zenon, <3>1, <3>2, <3>3, <3>4
    <2> QED BY <2>1, <2>2
  <1>9. /\ row \in Row(F) /\ row.id = j.id /\ row.key = k /\ row.claim = f.claim /\ row.active
        /\ row.at > 0 /\ (r \in DOMAIN rows => row.at = j.at)
    <2>1. f.claim \in {g.claim : g \in F} /\ k \in {g.key : g \in F}
      BY Zenon, <1>4
    <2>2. CASE r \in DOMAIN rows
      <3>1. row = Saved(rows[r], f.claim, j.at)
        BY Zenon, <2>2 DEF Rowids
      <3> HIDE DEF row, f, j, r, k
      <3>2. rows[r] \in Row(F) /\ rows[r].id = j.id /\ rows[r].key = k
        BY Zenon, <1>3, <1>8, <2>2
      <3>3. /\ row \in Row(F) /\ row.id = rows[r].id /\ row.key = rows[r].key /\ row.claim = f.claim
            /\ row.active /\ row.at = j.at
        <4> DEFINE o == rows[r]
                   said == f.claim
                   t == j.at
        <4>1. o \in Row(F) /\ said \in {g.claim : g \in F} /\ t \in Nat /\ row = Saved(o, said, t)
          BY Zenon, <1>4, <2>1, <3>1, <3>2
        <4> HIDE DEF o, said, t
        <4>2. /\ row \in Row(F) /\ row.id = o.id /\ row.key = o.key /\ row.claim = said
              /\ row.active /\ row.at = t
          BY <4>1, SavedFields
        <4> QED BY Zenon, <4>2 DEF o, said, t
      <3> QED BY Zenon, <1>3, <3>2, <3>3
    <2>3. CASE r \notin DOMAIN rows
      <3> DEFINE at == IF j.made = 0 THEN j.at ELSE j.made
      <3>1. row = [id |-> j.id, key |-> k, claim |-> f.claim, at |-> at, active |-> TRUE]
        BY Zenon, <2>3 DEF Rowids
      <3>2. at \in Nat /\ at > 0
        <4> HIDE DEF j, r
        <4> QED BY <1>3, <1>4
      <3> HIDE DEF at, row, f, j, r, k
      <3>3. [id |-> j.id, key |-> k, claim |-> f.claim, at |-> at, active |-> TRUE] \in Row(F)
        BY <1>4, <2>1, <3>2 DEF Row
      <3> QED BY <2>3, <3>1, <3>2, <3>3
    <2> QED BY <2>2, <2>3
  <1>10. Core(F, rows, js, index, expect)
    <2> HIDE DEF f, r, row
    <2> QED BY Zenon, <1>1, <1>3, AfterFirstFields, JobChanged
  <1>11. \A v \in Writers : js[v].id # 0 => v # w /\ js[v] = jobs[v]
    <2>1. jobs \in [Writers -> JobRecord(F)] /\ AfterFirst(j).id = 0
      BY Zenon, <1>1, <1>3, AfterFirstFields DEF Shape
    <2> QED BY Zenon, <2>1
  <1> HIDE DEF js, f, r, row, k
  <1>12. Writable(F, rows, js, r, row, c)
    <2>1. \A q \in DOMAIN rows : q = r <=> rows[q].id = row.id
      BY Zenon, <1>1, <1>8, <1>9 DEF OwnIds
    <2>2. \A v \in Writers : js[v].id # 0 /\ js[v].id = row.id => KeyOf(js[v]) = row.key
      <3> SUFFICES ASSUME NEW v \in Writers, js[v].id # 0, js[v].id = row.id PROVE KeyOf(js[v]) = row.key
        OBVIOUS
      <3>1. js[v] = jobs[v] /\ jobs[v].id # 0 /\ jobs[v].id = jobs[w].id
        BY Zenon, <1>9, <1>11
      <3>2. KeyOf(jobs[v]) = KeyOf(jobs[w])
        BY Zenon, <1>1, <3>1 DEF OwnIds
      <3> QED BY Zenon, <1>5, <1>9, <3>1, <3>2
    <2>3. \A v \in Writers : js[v].id # 0 /\ KeyOf(js[v]) = row.key => js[v].raced
      <3> SUFFICES ASSUME NEW v \in Writers, js[v].id # 0, KeyOf(js[v]) = row.key PROVE js[v].raced
        OBVIOUS
      <3>1. v # w /\ js[v] = jobs[v] /\ KeyOf(jobs[v]) = KeyOf(jobs[w])
        BY Zenon, <1>5, <1>9, <1>11
      <3> QED BY Zenon, <1>1, <1>2, <3>1 DEF Races
    <2>4. ASSUME ~j.raced, NEW q \in DOMAIN rows, rows[q].active, rows[q].key = row.key
          PROVE  rows[q].at <= row.at
      <3>1. rows[q].key = KeyOf(j)
        BY Zenon, <1>5, <1>9, <2>4
      <3>2. rows[q].at < j.at /\ \E p \in DOMAIN rows : rows[p].id = j.id
        BY Zenon, <1>1, <1>2, <2>4, <3>1 DEF Fresh
      <3>3. row.at = j.at
        BY Zenon, <1>8, <1>9, <3>2
      <3>4. rows[q].at \in Nat
        BY <1>3 DEF Row
      <3> HIDE DEF j
      <3> QED BY <1>4, <3>2, <3>3, <3>4
    <2> HIDE DEF j
    <2> QED BY Zenon, <1>8, <1>9, <2>1, <2>2, <2>3, <2>4 DEF Writable
  <1>13. Core(F, rs, js, ix, ex)
    <2>1. Core(F, rs, js, index \cup {<< r, row.claim >>}, [expect EXCEPT ![row.key] = c])
      BY Zenon, <1>10, <1>12, RowWritten
    <2> HIDE DEF j, c
    <2> QED BY Zenon, <1>9, <2>1
  <1> HIDE DEF rs, ix, ex
  <1>14. Core(F, rows', jobs', ix, ex) /\ Dense(rows', jobs')
    BY Zenon, <1>7, <1>13, StoreKeeps
  <1> QED BY Zenon, <1>7, <1>14 DEF After
-----------------------------------------------------------------------------
(***************************************************************************)
(* The theorems.                                                           *)
(***************************************************************************)
LEMMA StepFacts ==
  ASSUME NEW F, F = Facts, FactsInv(F), [Next]_vars
  PROVE  FactsInv(F)'
  <1>1. After(F) /\ events' \in 0..MaxEvents
    <2>0. events \in Nat /\ events \in 0..MaxEvents /\ (Bounded => events' \in 0..MaxEvents)
      BY FactsAssumption DEF FactsInv, Bounded
    <2>1. CASE StartSeeding
      BY Zenon, <2>0, <2>1, KeptSeeding DEF StartSeeding
    <2>2. CASE Dedup
      BY Zenon, <2>0, <2>2, KeptDedup DEF Dedup
    <2>3. CASE Administrator
      <3>1. PICK r \in Rowids :
               \/ \E active \in BOOLEAN, f \in {g \in Facts : g.key = rows[r].key} : Patch(r, active, f.claim)
               \/ Delete(r)
        BY Zenon, <2>3 DEF Administrator
      <3>2. CASE \E active \in BOOLEAN, f \in {g \in Facts : g.key = rows[r].key} : Patch(r, active, f.claim)
        <4>1. PICK active \in BOOLEAN, f \in {g \in Facts : g.key = rows[r].key} : Patch(r, active, f.claim)
          BY Zenon, <3>2
        <4>2. Bounded
          BY Zenon, <4>1 DEF Patch, Edited
        <4> QED BY Zenon, <2>0, <4>1, <4>2, KeptPatch
      <3>3. CASE Delete(r)
        <4>1. Bounded
          BY Zenon, <3>3 DEF Delete, Edited
        <4> QED BY Zenon, <2>0, <3>3, <4>1, KeptDeletion
      <3> QED BY Zenon, <3>1, <3>2, <3>3
    <2>4. CASE \E w \in Chatters : StartCorrection(w)
      BY Zenon, <2>0, <2>4, KeptCorrection DEF StartCorrection
    <2>5. CASE \E w \in Writers : Find(w)
      BY Zenon, <2>0, <2>5, KeptFinding DEF Find
    <2>6. CASE \E w \in Writers : Save(w)
      BY Zenon, <2>0, <2>6, KeptSave DEF Save
    <2>7. CASE \E w \in Writers : Fails(w)
      BY Zenon, <2>0, <2>7, KeptFailure DEF Fails
    <2>8. CASE UNCHANGED vars
      <3>1. rows' = rows /\ jobs' = jobs /\ index' = index /\ expect' = expect /\ events' = events
        BY <2>8 DEF vars
      <3> QED BY Zenon, <2>0, <3>1 DEF After, FactsInv
    <2> QED BY Zenon, <2>1, <2>2, <2>3, <2>4, <2>5, <2>6, <2>7, <2>8 DEF Next
  <1> QED BY Zenon, <1>1, NextFacts DEF After

LEMMA FactsInvariant ==
  ASSUME NEW F, F = Facts
  PROVE  Spec => []FactsInv(F)
  <1>1. Init => FactsInv(F)
    BY Zenon, InitFacts
  <1>2. FactsInv(F) /\ [Next]_vars => FactsInv(F)'
    BY Zenon, StepFacts
  <1> QED BY <1>1, <1>2, PTL DEF Spec

(***************************************************************************)
(* Rows, jobs and index have their types: in particular no rowid exceeds   *)
(* the largest, no writer saves where it has nothing to save, and an       *)
(* active row has a stamp.                                                 *)
(***************************************************************************)
THEOREM Types == Spec => []TypeOK
  <1>1. PICK F : F = Facts
    OBVIOUS
  <1>2. FactsInv(F) => TypeOK
    <2> SUFFICES ASSUME FactsInv(F) PROVE TypeOK
      OBVIOUS
    <2>1. /\ Shape(F, rows, jobs) /\ index \subseteq (1..MaxRows) \X {f.claim : f \in F}
          /\ expect \in [{f.key : f \in F} -> {f.claim : f \in F} \cup {Unknown}]
          /\ events \in 0..MaxEvents
      BY Zenon DEF FactsInv, Core
    <2>2. {f.key : f \in F} = Keys /\ {f.claim : f \in F} = Claims
      BY Zenon, <1>1 DEF Keys, Claims
    <2>3. \A r \in Rowids : /\ rows[r].id \in 1..MaxRows + Cardinality(Writers)
                            /\ rows[r].key \in Keys /\ rows[r].claim \in Claims
                            /\ rows[r].at \in Nat /\ rows[r].active \in BOOLEAN
                            /\ rows[r].active => rows[r].at > 0
      <3> SUFFICES ASSUME NEW r \in Rowids
                   PROVE  /\ rows[r].id \in 1..MaxRows + Cardinality(Writers)
                          /\ rows[r].key \in Keys /\ rows[r].claim \in Claims
                          /\ rows[r].at \in Nat /\ rows[r].active \in BOOLEAN
                          /\ rows[r].active => rows[r].at > 0
        OBVIOUS
      <3>1. rows[r] \in Row(F) /\ (rows[r].active => rows[r].at > 0)
        BY Zenon, <2>1 DEF Shape, Rowids
      <3>2. /\ rows[r].id \in Ids /\ rows[r].key \in {f.key : f \in F} /\ rows[r].claim \in {f.claim : f \in F}
            /\ rows[r].at \in Nat /\ rows[r].active \in BOOLEAN
        BY <3>1 DEF Row
      <3> QED BY Zenon, <2>2, <3>1, <3>2 DEF Ids
    <2>4. \A w \in Writers : /\ jobs[w].phase \in {"idle", "seeding", "extracting", "correcting"}
                             /\ ToSet(jobs[w].todo) \subseteq Facts
                             /\ Saving(w) => jobs[w].todo # << >>
      <3> SUFFICES ASSUME NEW w \in Writers
                   PROVE  /\ jobs[w].phase \in {"idle", "seeding", "extracting", "correcting"}
                          /\ ToSet(jobs[w].todo) \subseteq Facts
                          /\ Saving(w) => jobs[w].todo # << >>
        OBVIOUS
      <3>1. jobs[w] \in JobRecord(F) /\ (Saving(w) => jobs[w].todo # << >>)
        BY Zenon, <2>1 DEF Shape, Saving
      <3>2. jobs[w].phase \in {"idle", "seeding", "extracting", "correcting"} /\ jobs[w].todo \in Seq(F)
        BY <3>1 DEF JobRecord
      <3>3. ToSet(jobs[w].todo) \subseteq F
        BY <3>2 DEF ToSet
      <3> QED BY Zenon, <1>1, <3>1, <3>2, <3>3
    <2> QED BY Zenon, <2>1, <2>2, <2>3, <2>4 DEF TypeOK, Shape, Rowids
  <1> QED BY <1>1, <1>2, FactsInvariant, PTL

(***************************************************************************)
(* An active row is found by the words it holds: whoever writes a row      *)
(* brings the index up to date, and no deletion takes out of it what       *)
(* another row needs.                                                      *)
(***************************************************************************)
THEOREM FactsAreFound == Spec => []ActiveFactsAreFound
  <1>1. PICK F : F = Facts
    OBVIOUS
  <1>2. FactsInv(F) => ActiveFactsAreFound
    BY Zenon DEF FactsInv, Core, Indexed, ActiveFactsAreFound, Active, Rowids
  <1> QED BY <1>1, <1>2, FactsInvariant, PTL

(***************************************************************************)
(* After saves of a key that did not overlap, its newest active row holds  *)
(* the claim that was saved last, whatever was seeded, extracted, deleted  *)
(* or removed as a duplicate in between.                                   *)
(***************************************************************************)
THEOREM LastSave == Spec => []LastSaveStands
  <1>1. PICK F : F = Facts
    OBVIOUS
  <1>2. FactsInv(F) => LastSaveStands
    <2> SUFFICES ASSUME FactsInv(F), NEW k \in Keys, expect[k] # Unknown
                 PROVE  \E r \in Of(k) : /\ rows[r].claim = expect[k]
                                         /\ \A q \in Of(k) : rows[q].at <= rows[r].at
      BY Zenon DEF LastSaveStands
    <2>1. k \in {f.key : f \in F}
      BY Zenon, <1>1 DEF Keys
    <2>2. PICK r \in DOMAIN rows : Newest(rows, k, r) /\ rows[r].claim = expect[k]
      BY Zenon, <2>1 DEF FactsInv, Core, Stands
    <2> QED BY Zenon, <2>2 DEF Newest, Of, Active, Rowids
  <1> QED BY <1>1, <1>2, FactsInvariant, PTL
-----------------------------------------------------------------------------
(***************************************************************************)
(* The sort: each position goes to a place of its own, those before it by  *)
(* priority or rank before it.                                             *)
(***************************************************************************)
LEMMA Priorities == \A r : Priority(r) \in Int
  BY DEF Priority

LEMMA UpTo ==
  ASSUME NEW n \in Nat
  PROVE  IsFiniteSet(1..n) /\ Cardinality(1..n) = n
  <1>1. 1 \in Int /\ n \in Int
    OBVIOUS
  <1>2. IsFiniteSet(1..n) /\ Cardinality(1..n) = IF 1 > n THEN 0 ELSE n - 1 + 1
    BY Zenon, <1>1, FS_Interval
  <1> QED BY <1>2

LEMMA AheadIsFinite ==
  ASSUME NEW s, Len(s) \in Nat, NEW j \in 1..Len(s)
  PROVE  /\ IsFiniteSet(Ahead(s, j)) /\ Ahead(s, j) \in SUBSET (1..Len(s)) /\ j \notin Ahead(s, j)
         /\ Cardinality(Ahead(s, j)) \in 0..Len(s) - 1
  <1>1. IsFiniteSet(1..Len(s)) /\ Cardinality(1..Len(s)) = Len(s)
    BY Zenon, UpTo
  <1>2. Ahead(s, j) \in SUBSET (1..Len(s))
    BY DEF Ahead
  <1>3. j \notin Ahead(s, j)
    <2>1. Priority(s[j]) \in Int
      BY Zenon, Priorities
    <2> QED BY <2>1 DEF Ahead
  <1>4. /\ IsFiniteSet(Ahead(s, j)) /\ Cardinality(Ahead(s, j)) <= Len(s)
        /\ Cardinality(Ahead(s, j)) = Len(s) => Ahead(s, j) = 1..Len(s)
    BY Zenon, <1>1, <1>2, FS_Subset
  <1>5. Cardinality(Ahead(s, j)) \in Nat /\ Cardinality(Ahead(s, j)) # Len(s)
    BY Zenon, <1>3, <1>4, FS_CardinalityType
  <1>6. Cardinality(Ahead(s, j)) \in 0..Len(s) - 1
    BY <1>4, <1>5
  <1> QED BY Zenon, <1>2, <1>3, <1>4, <1>6

LEMMA AheadGrows ==
  ASSUME NEW s, Len(s) \in Nat, NEW i \in 1..Len(s), NEW j \in 1..Len(s), i \in Ahead(s, j)
  PROVE  Cardinality(Ahead(s, i)) < Cardinality(Ahead(s, j))
  <1>1. Ahead(s, i) \in SUBSET Ahead(s, j)
    <2> SUFFICES ASSUME NEW k \in 1..Len(s), k \in Ahead(s, i) PROVE k \in Ahead(s, j)
      BY DEF Ahead
    <2>1. Priority(s[i]) \in Int /\ Priority(s[j]) \in Int /\ Priority(s[k]) \in Int
      BY Zenon, Priorities
    <2> QED BY <2>1 DEF Ahead
  <1>2. i \notin Ahead(s, i) /\ IsFiniteSet(Ahead(s, j)) /\ IsFiniteSet(Ahead(s, i))
    BY Zenon, AheadIsFinite
  <1>3. /\ Cardinality(Ahead(s, i)) <= Cardinality(Ahead(s, j))
        /\ Cardinality(Ahead(s, i)) # Cardinality(Ahead(s, j))
    BY Zenon, <1>1, <1>2, FS_Subset
  <1>4. Cardinality(Ahead(s, i)) \in Nat /\ Cardinality(Ahead(s, j)) \in Nat
    BY Zenon, <1>2, FS_CardinalityType
  <1> QED BY <1>3, <1>4

LEMMA Placed ==
  ASSUME NEW s, Len(s) \in Nat
  PROVE  /\ \A i, j \in 1..Len(s) : Cardinality(Ahead(s, i)) = Cardinality(Ahead(s, j)) => i = j
         /\ \A n \in 1..Len(s) : \E j \in 1..Len(s) : Cardinality(Ahead(s, j)) = n - 1
  <1> DEFINE place == [j \in 1..Len(s) |-> Cardinality(Ahead(s, j)) + 1]
  <1>1. ASSUME NEW i \in 1..Len(s), NEW j \in 1..Len(s), i # j
        PROVE  Cardinality(Ahead(s, i)) # Cardinality(Ahead(s, j))
    <2>1. Priority(s[i]) \in Int /\ Priority(s[j]) \in Int
      BY Zenon, Priorities
    <2>2. i \in Ahead(s, j) \/ j \in Ahead(s, i)
      BY <1>1, <2>1 DEF Ahead
    <2>3. Cardinality(Ahead(s, i)) \in Int /\ Cardinality(Ahead(s, j)) \in Int
      BY AheadIsFinite
    <2> QED BY <2>2, <2>3, AheadGrows
  <1>2. \A j \in 1..Len(s) : Cardinality(Ahead(s, j)) \in 0..Len(s) - 1
    BY Zenon, AheadIsFinite
  <1>3. place \in [1..Len(s) -> 1..Len(s)]
    BY <1>2
  <1>4. \A i, j \in 1..Len(s) : place[i] = place[j] => i = j
    BY <1>1, <1>2
  <1>5. place \in Surjection(1..Len(s), 1..Len(s))
    <2> HIDE DEF place
    <2>1. place \in Injection(1..Len(s), 1..Len(s))
      BY <1>3, <1>4 DEF Injection, IsInjective
    <2>2. IsFiniteSet(1..Len(s))
      BY FS_Interval
    <2> QED BY <2>1, <2>2, FS_Injection
  <1>6. ASSUME NEW n \in 1..Len(s) PROVE \E j \in 1..Len(s) : Cardinality(Ahead(s, j)) = n - 1
    <2>1. PICK j \in 1..Len(s) : place[j] = n
      BY <1>5 DEF Surjection
    <2>2. Cardinality(Ahead(s, j)) = n - 1
      BY <1>2, <2>1
    <2> QED BY <2>2
  <1> QED BY Zenon, <1>1, <1>6

\* The sequence sorted has the elements of the other one, the best ones first.
LEMMA Sorted ==
  ASSUME NEW T, NEW s \in Seq(T)
  PROVE  /\ ByPriority(s) \in Seq(T) /\ Len(ByPriority(s)) = Len(s)
         /\ \A n \in 1..Len(s) : \E j \in 1..Len(s) : ByPriority(s)[n] = s[j]
         /\ \A j \in 1..Len(s) : \E n \in 1..Len(s) : ByPriority(s)[n] = s[j]
         /\ \A m, n \in 1..Len(s) :
               m <= n => Priority(ByPriority(s)[m]) <= Priority(ByPriority(s)[n])
  <1> DEFINE At(n) == CHOOSE j \in 1..Len(s) : Cardinality(Ahead(s, j)) = n - 1
             sorted == [n \in 1..Len(s) |-> s[At(n)]]
  <1>0. Len(s) \in Nat /\ \A j \in 1..Len(s) : s[j] \in T
    OBVIOUS
  <1>1. \A n \in 1..Len(s) : At(n) \in 1..Len(s) /\ Cardinality(Ahead(s, At(n))) = n - 1
    BY Zenon, <1>0, Placed
  <1>2. \A i, j \in 1..Len(s) : Cardinality(Ahead(s, i)) = Cardinality(Ahead(s, j)) => i = j
    BY Zenon, <1>0, Placed
  <1>3. \A j \in 1..Len(s) : Cardinality(Ahead(s, j)) \in 0..Len(s) - 1
    BY Zenon, <1>0, AheadIsFinite
  <1>4. ByPriority(s) = sorted
    BY Zenon DEF ByPriority
  <1> HIDE DEF At
  <1>5. sorted \in Seq(T) /\ Len(sorted) = Len(s) /\ \A n \in 1..Len(s) : sorted[n] = s[At(n)]
    BY <1>0, <1>1
  <1> HIDE DEF sorted
  <1>6. ASSUME NEW j \in 1..Len(s) PROVE \E n \in 1..Len(s) : sorted[n] = s[j]
    <2> DEFINE n == Cardinality(Ahead(s, j)) + 1
    <2>1. n \in 1..Len(s) /\ n - 1 = Cardinality(Ahead(s, j))
      BY <1>0, <1>3
    <2> HIDE DEF n
    <2>2. At(n) = j
      BY Zenon, <1>1, <1>2, <2>1
    <2> QED BY Zenon, <1>5, <2>1, <2>2
  <1>7. ASSUME NEW m \in 1..Len(s), NEW n \in 1..Len(s), m <= n
        PROVE  Priority(sorted[m]) <= Priority(sorted[n])
    <2>1. /\ At(m) \in 1..Len(s) /\ Cardinality(Ahead(s, At(m))) = m - 1
          /\ At(n) \in 1..Len(s) /\ Cardinality(Ahead(s, At(n))) = n - 1
      BY Zenon, <1>1
    <2>2. At(n) \notin Ahead(s, At(m))
      <3>1. At(n) \in Ahead(s, At(m)) => Cardinality(Ahead(s, At(n))) < Cardinality(Ahead(s, At(m)))
        BY Zenon, <1>0, <2>1, AheadGrows
      <3> QED BY <1>7, <2>1, <3>1
    <2>3. ~(Priority(s[At(n)]) < Priority(s[At(m)]))
      BY Zenon, <2>1, <2>2 DEF Ahead
    <2>4. Priority(s[At(n)]) \in Int /\ Priority(s[At(m)]) \in Int
      BY Zenon, Priorities
    <2>5. Priority(s[At(m)]) <= Priority(s[At(n)])
      BY <2>3, <2>4
    <2> QED BY Zenon, <1>5, <2>5
  <1> QED BY Zenon, <1>1, <1>4, <1>5, <1>6, <1>7

\* What the pool keeps of a sequence: the first ones, all of them if they fit.
LEMMA CandidatesOf ==
  ASSUME NEW T, NEW s \in Seq(T), NEW limits \in [facts : Nat, tokens : Nat]
  PROVE  /\ Candidates(s, limits) \in Seq(T)
         /\ Len(s) <= Pool(limits) => Candidates(s, limits) = s
  <1> DEFINE n == IF Len(s) < Pool(limits) THEN Len(s) ELSE Pool(limits)
  <1>1. limits.facts \in Nat /\ Pool(limits) \in Nat
    BY DEF Pool
  <1>2. n \in 0..Len(s) /\ (Len(s) <= Pool(limits) => n = Len(s))
    BY <1>1
  <1>3. Candidates(s, limits) = SubSeq(s, 1, n)
    BY Zenon DEF Candidates
  <1> HIDE DEF n
  <1>4. SubSeq(s, 1, n) \in Seq(T) /\ (n = Len(s) => SubSeq(s, 1, n) = s)
    BY <1>2
  <1> QED BY Zenon, <1>2, <1>3, <1>4

LEMMA FittingIsFinite ==
  ASSUME NEW s, Len(s) \in Nat, NEW limits
  PROVE  /\ Cardinality(Fitting(s, limits)) \in 0..Len(s)
         /\ Fitting(s, limits) # {} => Cardinality(Fitting(s, limits)) >= 1
  <1>1. IsFiniteSet(1..Len(s)) /\ Cardinality(1..Len(s)) = Len(s)
    BY Zenon, UpTo
  <1>2. Fitting(s, limits) \in SUBSET (1..Len(s))
    BY Zenon DEF Fitting
  <1>3. IsFiniteSet(Fitting(s, limits)) /\ Cardinality(Fitting(s, limits)) <= Len(s)
    BY Zenon, <1>1, <1>2, FS_Subset
  <1>4. /\ Cardinality(Fitting(s, limits)) \in Nat
        /\ Cardinality(Fitting(s, limits)) = 0 <=> Fitting(s, limits) = {}
    BY Zenon, <1>3, FS_CardinalityType, FS_EmptySet
  <1> QED BY <1>3, <1>4

\* One fact costs its size.
LEMMA OneFits ==
  ASSUME NEW T, NEW s \in Seq(T), Len(s) >= 1, NEW limits \in [facts : Nat, tokens : Nat],
         limits.facts >= 1, Size[rows[s[1]].claim] \in Nat,
         Size[rows[s[1]].claim] <= limits.tokens
  PROVE  1 \in Fitting(s, limits)
  <1> DEFINE first == SubSeq(s, 1, 1)
             size  == Size[rows[s[1]].claim]
  <1>1. Len(first) = 1 /\ first[1] = s[1] /\ 1 \in 1..Len(s) /\ 1..1 = {1}
    OBVIOUS
  <1> HIDE DEF first
  <1>2. Tokens(first) = {1} \X (1..size)
    BY <1>1 DEF Tokens
  <1>3. Cardinality({1} \X (1..size)) = size
    <2>1. IsFiniteSet({1}) /\ Cardinality({1}) = 1
      BY Zenon, FS_Singleton
    <2>2. IsFiniteSet(1..size) /\ Cardinality(1..size) = size
      BY Zenon, UpTo
    <2>3. Cardinality({1} \X (1..size)) = 1 * size
      BY Zenon, <2>1, <2>2, FS_Product
    <2> QED BY <2>3
  <1> HIDE DEF size
  <1>4. 1 <= limits.facts /\ Cardinality(Tokens(first)) <= limits.tokens
    BY <1>2, <1>3 DEF size
  <1> QED BY Zenon, <1>1, <1>4 DEF Fitting, first

(***************************************************************************)
(* A context is the best of the candidates: a prefix of them sorted, and   *)
(* not an empty one where the first fits.                                  *)
(***************************************************************************)
LEMMA ContextIsBest ==
  ASSUME TypeOK, NEW s \in Seq(Rowids), NEW limits \in [facts : Nat, tokens : Nat]
  PROVE  BestFirst(s, limits, Context(s, limits))
  <1> DEFINE c == Candidates(s, limits)
             t == ByPriority(c)
             n == Cardinality(Fitting(t, limits))
             p == SubSeq(t, 1, n)
  <1>1. c \in Seq(Rowids) /\ (Len(s) <= Pool(limits) => c = s)
    BY Zenon, CandidatesOf
  <1> HIDE DEF c
  <1>2. /\ t \in Seq(Rowids) /\ Len(t) = Len(c)
        /\ \A i \in 1..Len(c) : \E j \in 1..Len(c) : t[i] = c[j]
        /\ \A j \in 1..Len(c) : \E i \in 1..Len(c) : t[i] = c[j]
        /\ \A i, j \in 1..Len(c) : i <= j => Priority(t[i]) <= Priority(t[j])
    BY Zenon, <1>1, Sorted
  <1> HIDE DEF t
  <1>3. Len(t) \in Nat
    BY <1>2
  <1>4. n \in 0..Len(t) /\ (Fitting(t, limits) # {} => n >= 1)
    BY Zenon, <1>3, FittingIsFinite
  <1> HIDE DEF n
  <1>5. Len(p) = n /\ \A i \in 1..n : p[i] = t[i] /\ i \in 1..Len(t)
    BY <1>2, <1>4
  <1>6. DOMAIN p = 1..n /\ DOMAIN c = 1..Len(c) /\ DOMAIN s = 1..Len(s)
    BY <1>1, <1>2, <1>4
  <1> HIDE DEF p
  <1>7. ASSUME NEW r \in ToSet(c) \ ToSet(p), NEW q \in ToSet(p)
        PROVE  Priority(q) <= Priority(r)
    <2>1. PICK j \in 1..Len(c) : r = c[j]
      BY <1>6 DEF ToSet
    <2>2. PICK i \in 1..n : q = p[i]
      BY <1>6 DEF ToSet
    <2>3. PICK k \in 1..Len(c) : t[k] = r
      BY Zenon, <1>2, <2>1
    <2>4. k \notin 1..n
      <3>1. ASSUME k \in 1..n PROVE FALSE
        <4>1. p[k] = r
          BY Zenon, <1>5, <2>3, <3>1
        <4> QED BY <1>6, <1>7, <3>1, <4>1 DEF ToSet
      <3> QED BY <3>1
    <2>5. i <= k /\ i \in 1..Len(c)
      BY <1>2, <1>4, <2>4
    <2>6. q = t[i]
      BY Zenon, <1>5, <2>2
    <2> QED BY Zenon, <1>2, <2>3, <2>5, <2>6
  <1>8. ASSUME Len(s) <= Pool(limits), NEW r \in ToSet(s), Priority(r) = 0,
               \A q \in ToSet(s) : Size[rows[q].claim] <= limits.tokens
        PROVE  ToSet(p) # {} /\ Priority(p[1]) = 0
    <2>1. c = s
      BY Zenon, <1>1, <1>8
    <2>2. PICK j \in 1..Len(s) : r = s[j]
      BY <1>6, <1>8 DEF ToSet
    <2>3. PICK k \in 1..Len(s) : t[k] = r
      BY Zenon, <1>2, <2>1, <2>2
    <2>4. Len(s) \in Nat /\ Len(s) >= 1 /\ 1 \in 1..Len(s) /\ 1 <= k
      BY <2>2, <2>3
    <2>5. limits.facts >= 1
      BY <1>8, <2>4 DEF Pool
    <2>6. t[1] \in ToSet(s) /\ t[1] \in Rowids
      <3>1. PICK i \in 1..Len(s) : t[1] = s[i]
        BY Zenon, <1>2, <2>1, <2>4
      <3>2. s[i] \in ToSet(s)
        BY <1>6, <3>1 DEF ToSet
      <3> QED BY <3>1, <3>2
    <2>7. Size[rows[t[1]].claim] \in Nat /\ Size[rows[t[1]].claim] <= limits.tokens
      BY Zenon, <1>8, <2>6, LimitsAssumption DEF TypeOK
    <2>8. Len(t) >= 1
      BY <1>2, <2>1, <2>4
    <2>9. 1 \in Fitting(t, limits)
      BY Zenon, <1>2, <2>5, <2>7, <2>8, OneFits
    <2>10. n >= 1 /\ 1 \in 1..n
      BY <1>4, <2>9
    <2>11. p[1] = t[1] /\ p[1] \in ToSet(p)
      BY <1>5, <1>6, <2>10 DEF ToSet
    <2>12. Priority(t[1]) <= Priority(t[k])
      BY Zenon, <1>2, <2>1, <2>4, <2>3
    <2>13. Priority(t[1]) = 0
      <3>1. Priority(t[1]) \in Nat
        BY DEF Priority
      <3> QED BY <1>8, <2>3, <2>12, <3>1
    <2> QED BY Zenon, <2>11, <2>13
  <1>9. Context(s, limits) = p
    BY Zenon DEF Context, p, n, t, c
  <1> QED BY Zenon, <1>7, <1>8, <1>9 DEF BestFirst, c

(***************************************************************************)
(* Whatever is asked, in whatever order the index returns what it finds:   *)
(* users' corrections stand first in the context of a chat and in that of  *)
(* diagnostics, and no fact takes the place of one of a better source.     *)
(***************************************************************************)
THEOREM CorrectionsFirst == Spec => []CorrectionsComeFirst
  <1>1. TypeOK => CorrectionsComeFirst
    <2> SUFFICES ASSUME TypeOK, NEW words \in Searches, NEW s \in Ranked(words), NEW meta \in Metas
                 PROVE  /\ Freshness(meta) # "unavailable"
                             => BestFirst(s, ForQuestion, QuestionContext(meta, s))
                        /\ Freshness(meta) \in {"current", "stale"}
                             => BestFirst(s, ForAnomalies, AnomalyContext(meta, s))
      BY Zenon DEF CorrectionsComeFirst
    <2>1. s \in Seq(Rowids)
      <3> DEFINE found == Found(words)
      <3>1. found \in SUBSET Rowids /\ Rowids \in SUBSET (1..MaxRows)
        BY DEF Found, Active, TypeOK
      <3>2. IsFiniteSet(1..MaxRows)
        BY Zenon, FactsAssumption, UpTo
      <3>3. Cardinality(found) \in Nat
        <4>1. found \in SUBSET (1..MaxRows)
          BY <3>1
        <4> QED BY Zenon, <3>2, <4>1, FS_Subset, FS_CardinalityType
      <3>4. s \in [1..Cardinality(found) -> found]
        BY Zenon DEF Ranked
      <3> HIDE DEF found
      <3>5. s \in Seq(found)
        <4>1. s \in UNION {[1..n -> found] : n \in Nat}
          BY Zenon, <3>3, <3>4
        <4> QED BY Zenon, <4>1, SeqDef
      <3> QED BY Zenon, <3>1, <3>5, SeqMonotonic
    <2>2. /\ BestFirst(s, ForQuestion, Context(s, ForQuestion))
          /\ BestFirst(s, ForAnomalies, Context(s, ForAnomalies))
      <3>1. /\ ForQuestion \in [facts : Nat, tokens : Nat]
            /\ ForAnomalies \in [facts : Nat, tokens : Nat]
        BY LimitsAssumption
      <3> QED BY Zenon, <2>1, <3>1, ContextIsBest
    <2>3. Freshness(meta) # "unavailable" => QuestionContext(meta, s) = Context(s, ForQuestion)
      BY Zenon DEF QuestionContext
    <2>4. Freshness(meta) \in {"current", "stale"}
            => AnomalyContext(meta, s) = Context(s, ForAnomalies)
      BY DEF AnomalyContext
    <2> QED BY Zenon, <2>2, <2>3, <2>4
  <1> QED BY <1>1, Types, PTL
=============================================================================
