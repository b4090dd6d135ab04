-------------------------- MODULE AlertManagerProofs -------------------------
(***************************************************************************)
(* Theorems about AlertManager, for every set of insights and channels,    *)
(* every limit and every clock.                                            *)
(***************************************************************************)
EXTENDS AlertManager, FiniteSetTheorems, WellFoundedInduction, TLAPS

LEMMA LeastNumber ==
  ASSUME NEW S \in SUBSET Nat, S # {}
  PROVE  Min(S) \in S /\ \A m \in S : Min(S) <= m
  <1> DEFINE Less == OpToRel(<, Nat)
  <1>1. \A m, n \in Nat : m < n => << m, n >> \in Less
    BY DEF OpToRel
  <1>2. IsWellFoundedOn(Less, Nat)
    BY NatLessThanWellFounded
  <1> HIDE DEF Less
  <1>3. PICK n \in S : \A m \in S : ~ (<< m, n >> \in Less)
    <2>1. S \subseteq Nat
      OBVIOUS
    <2> QED BY <1>2, <2>1, WFMin
  <1>4. ASSUME NEW m \in S PROVE n <= m
    <2>1. m \in Nat /\ n \in Nat
      OBVIOUS
    <2>2. ~ (m < n)
      BY Zenon, <1>1, <1>3, <2>1
    <2> QED BY <2>1, <2>2
  <1> QED BY <1>4 DEF Min

(***************************************************************************)
(* What allow() forgets is a prefix: everything up to some k, the last of  *)
(* which is more than an hour old.                                         *)
(***************************************************************************)
LEMMA RecentIsSuffix ==
  ASSUME NEW times \in Seq(Nat), now \in Nat, Hour \in Nat
  PROVE  \E n \in 0..Len(times) :
            /\ Recent(times) = SubSeq(times, n + 1, Len(times))
            /\ n # 0 => times[n] < now - Hour
  <1> DEFINE kept == {k \in 1..Len(times) : times[k] >= now - Hour} \cup {Len(times) + 1}
             n == Min(kept) - 1
  <1>1. kept \in SUBSET Nat /\ kept # {} /\ Len(times) + 1 \in kept
    OBVIOUS
  <1>2. Min(kept) \in kept /\ \A m \in kept : Min(kept) <= m
    BY <1>1, LeastNumber
  <1>3. n \in 0..Len(times) /\ n + 1 = Min(kept)
    BY <1>2
  <1>4. n # 0 => times[n] < now - Hour
    <2> SUFFICES ASSUME n # 0 PROVE times[n] < now - Hour
      OBVIOUS
    <2>1. n \in 1..Len(times) /\ n \notin kept
      BY <1>2, <1>3
    <2>2. times[n] \in Nat
      BY <2>1
    <2> QED BY <2>1, <2>2
  <1>5. Recent(times) = SubSeq(times, n + 1, Len(times))
    BY <1>3 DEF Recent
  <1> QED BY <1>3, <1>4, <1>5
-----------------------------------------------------------------------------
(***************************************************************************)
(* Who may do what.  A sender that is off holds nothing, one that is not   *)
(* sending has no alert; callers send only without a window, the flush     *)
(* task only with one, and after close() has begun the closer alone.       *)
(***************************************************************************)
Control ==
    /\ \A s \in Senders : /\ stage[s] = "off" => outbox[s] = << >>
                          /\ stage[s] # "sending" => alert[s] = NoAlert
                          /\ stage[s] = "sending" => alert[s] \in Alerts
    /\ aggregating => \A c \in Callers : stage[c] = "off"
    /\ ~aggregating => flushTask = "none"
    /\ flushTask = "running" <=> stage["flusher"] # "off"
    /\ closing = "open" => stage["closer"] = "off" /\ ~cut
    /\ closing # "open" => /\ flushTask = "none" /\ buffer = << >>
                           /\ \A s \in Senders \ {"closer"} : stage[s] = "off"
    /\ closing = "closed" => stage["closer"] = "off"

(***************************************************************************)
(* Where an insight is, of a buffer b, outboxes o, alerts a and the        *)
(* insights h that are done with.                                          *)
(***************************************************************************)
Buffered(b, i) == \E k \in 1..Len(b) : b[k] = i
Drained(o, i)  == \E s \in Senders : \E k \in 1..Len(o[s]) : i \in o[s][k].parts
Sent(a, i)     == \E s \in Senders : i \in a[s].parts

AtMostOnce(b, o, a, h, i) ==
    /\ \A j, k \in 1..Len(b) : b[j] = i /\ b[k] = i => j = k
    /\ \A s, t \in Senders : \A j \in 1..Len(o[s]) : \A k \in 1..Len(o[t]) :
          i \in o[s][j].parts /\ i \in o[t][k].parts => s = t /\ j = k
    /\ \A s, t \in Senders : i \in a[s].parts /\ i \in a[t].parts => s = t
    /\ Buffered(b, i) => ~Drained(o, i) /\ ~Sent(a, i) /\ i \notin h
    /\ Drained(o, i) => ~Sent(a, i) /\ i \notin h
    /\ Sent(a, i) => i \notin h

Somewhere(b, o, a, h, i) == Buffered(b, i) \/ Drained(o, i) \/ Sent(a, i) \/ i \in h

InPlace(b, o, a, h, d, c) ==
    \A i \in Insights :
        /\ AtMostOnce(b, o, a, h, i)
        /\ Somewhere(b, o, a, h, i) => i \in d
        /\ i \in d /\ ~c => Somewhere(b, o, a, h, i)

PlacesInv == TypeOK /\ Control /\ InPlace(buffer, outbox, alert, handled, dispatched, cut)
-----------------------------------------------------------------------------
(***************************************************************************)
(* Alerts.  An alert made of insights is not NoAlert; grouping the buffer  *)
(* leaves each insight in one alert.                                       *)
(***************************************************************************)
LEMMA AlertParts ==
  /\ \A i \in Insights : Single(i) \in Alerts /\ Single(i).parts = {i}
  /\ \A I \in SUBSET Insights : Incident(I) \in Alerts /\ Incident(I).parts = I
  /\ \A a \in Alerts : a.parts \subseteq Insights
  /\ NoAlert.parts = {}
  <1>1. \A i \in Insights : Single(i) \in Alerts /\ Single(i).parts = {i}
    BY Zenon DEF Single, Alerts
  <1>2. \A I \in SUBSET Insights : Incident(I) \in Alerts /\ Incident(I).parts = I
    BY Zenon DEF Incident, Alerts
  <1>3. ASSUME NEW a \in Alerts PROVE a.parts \subseteq Insights
    <2>1. (\E i \in Insights : a = Single(i)) \/ (\E I \in SUBSET Insights : a = Incident(I))
      BY Zenon DEF Alerts
    <2> QED BY <1>1, <1>2, <2>1
  <1> QED BY <1>1, <1>2, <1>3 DEF NoAlert

LEMMA Grouping ==
  ASSUME NEW b \in Seq(Insights)
  PROVE  /\ Grouped(b) \in Seq(Alerts)
         /\ \A k \in 1..Len(Grouped(b)) : Grouped(b)[k].parts # {}
         /\ \A i : Buffered(b, i) <=> \E k \in 1..Len(Grouped(b)) : i \in Grouped(b)[k].parts
         /\ \A i : (\A j, k \in 1..Len(b) : b[j] = i /\ b[k] = i => j = k) =>
                      \A j, k \in 1..Len(Grouped(b)) :
                         i \in Grouped(b)[j].parts /\ i \in Grouped(b)[k].parts => j = k
  <1> DEFINE g == Grouped(b)
  <1>1. Len(b) \in Nat /\ DOMAIN b = 1..Len(b) /\ \A k \in 1..Len(b) : b[k] \in Insights
    OBVIOUS
  <1>2. ToSet(b) \in SUBSET Insights /\ \A i : i \in ToSet(b) <=> Buffered(b, i)
    BY <1>1 DEF ToSet, Buffered
  <1>3. CASE b = << >>
    <2>1. g = << >>
      BY <1>3 DEF Grouped
    <2>2. g \in Seq(Alerts) /\ 1..Len(g) = {} /\ 1..Len(b) = {}
      <3>1. << >> \in Seq(Alerts) /\ Len(<< >>) = 0 /\ 1..0 = {}
        OBVIOUS
      <3> QED BY Zenon, <1>3, <2>1, <3>1
    <2> HIDE DEF g
    <2> QED BY Zenon, <2>2 DEF g, Buffered
  <1>4. CASE b # << >> /\ Len(b) >= MinIncidents
    <2>1. g = << Incident(ToSet(b)) >>
      BY <1>4 DEF Grouped
    <2>2. Incident(ToSet(b)) \in Alerts /\ Incident(ToSet(b)).parts = ToSet(b)
      BY <1>2, AlertParts
    <2>3. ToSet(b) # {}
      <3>1. 1 \in 1..Len(b)
        BY <1>1, <1>4
      <3> QED BY <1>1, <3>1 DEF ToSet
    <2>4. g \in Seq(Alerts) /\ Len(g) = 1 /\ g[1] = Incident(ToSet(b))
      BY <2>1, <2>2
    <2> HIDE DEF g
    <2> QED BY <1>2, <2>2, <2>3, <2>4 DEF g
  <1>5. CASE b # << >> /\ ~(Len(b) >= MinIncidents)
    <2>1. g = [k \in 1..Len(b) |-> Single(b[k])]
      BY <1>5 DEF Grouped
    <2>2. \A k \in 1..Len(b) : g[k] \in Alerts /\ g[k].parts = {b[k]}
      BY <1>1, <2>1, AlertParts
    <2> HIDE DEF g
    <2>3. g \in [1..Len(b) -> Alerts]
      BY Zenon, <2>1, <2>2
    <2>4. g \in Seq(Alerts) /\ Len(g) = Len(b)
      BY <1>1, <2>3
    <2>5. \A i, k : k \in 1..Len(b) => (i \in g[k].parts <=> b[k] = i)
      BY <2>2
    <2> QED BY Zenon, <2>2, <2>4, <2>5 DEF g, Buffered
  <1> QED BY <1>3, <1>4, <1>5
-----------------------------------------------------------------------------
(***************************************************************************)
(* The moves of an insight: into the buffer or to a caller, from the       *)
(* buffer into an outbox, from there into a send or to what is done with,  *)
(* from a send to what is done with.                                       *)
(***************************************************************************)
LEMMA IntoBuffer ==
  ASSUME NEW b \in Seq(Insights), NEW o, NEW a, NEW h, NEW d, NEW c,
         InPlace(b, o, a, h, d, c), NEW i \in Insights \ d
  PROVE  InPlace(Append(b, i), o, a, h, d \cup {i}, c)
  <1> DEFINE b2 == Append(b, i)
  <1>1. Len(b2) = Len(b) + 1 /\ Len(b) \in Nat /\ b2[Len(b) + 1] = i
        /\ \A k \in 1..Len(b) : b2[k] = b[k]
    OBVIOUS
  <1> HIDE DEF b2
  <1>2. \A j : Buffered(b2, j) <=> Buffered(b, j) \/ j = i
    <2>1. 1..Len(b2) = (1..Len(b)) \cup {Len(b) + 1}
      BY <1>1
    <2> QED BY <1>1, <2>1 DEF Buffered
  <1>3. ASSUME NEW j \in Insights
        PROVE  /\ AtMostOnce(b2, o, a, h, j)
               /\ Somewhere(b2, o, a, h, j) => j \in d \cup {i}
               /\ j \in d \cup {i} /\ ~c => Somewhere(b2, o, a, h, j)
    <2>1. AtMostOnce(b, o, a, h, j) /\ (Somewhere(b, o, a, h, j) => j \in d)
          /\ (j \in d /\ ~c => Somewhere(b, o, a, h, j))
      BY Zenon DEF InPlace
    <2>2. CASE j = i
      <3>1. ~Somewhere(b, o, a, h, j)
        BY <2>1, <2>2
      <3>2. \A k \in 1..Len(b2) : b2[k] = j => k = Len(b) + 1
        BY <1>1, <3>1 DEF Somewhere, Buffered
      <3> QED BY Zenon, <1>2, <2>1, <2>2, <3>1, <3>2 DEF AtMostOnce, Somewhere
    <2>3. CASE j # i
      <3>1. \A k \in 1..Len(b2) : b2[k] = j => k \in 1..Len(b) /\ b[k] = j
        BY <1>1, <2>3
      <3>2. Buffered(b2, j) <=> Buffered(b, j)
        BY Zenon, <1>2, <2>3
      <3>3. AtMostOnce(b2, o, a, h, j)
        BY Zenon, <2>1, <3>1, <3>2 DEF AtMostOnce
      <3> QED BY Zenon, <2>1, <2>3, <3>2, <3>3 DEF Somewhere
    <2> QED BY <2>2, <2>3
  <1> QED BY Zenon, <1>3 DEF InPlace, b2

LEMMA ToCaller ==
  ASSUME NEW b, NEW o, NEW a, NEW h, NEW d, NEW c, InPlace(b, o, a, h, d, c),
         NEW i \in Insights \ d, NEW s \in Senders, o[s] = << >>,
         NEW o2, o2[s] = << Single(i) >>, \A t \in Senders : t # s => o2[t] = o[t]
  PROVE  InPlace(b, o2, a, h, d \cup {i}, c)
  <1>1. 1..Len(o[s]) = {} /\ 1..Len(o2[s]) = {1} /\ o2[s][1].parts = {i}
    <2>1. 1..Len(<< >>) = {} /\ 1..Len(<< Single(i) >>) = {1} /\ << Single(i) >>[1] = Single(i)
      OBVIOUS
    <2> QED BY Zenon, <2>1, AlertParts
  <1>2. \A j : Drained(o2, j) <=> Drained(o, j) \/ j = i
    BY Zenon, <1>1 DEF Drained
  <1>3. ASSUME NEW j \in Insights
        PROVE  /\ AtMostOnce(b, o2, a, h, j)
               /\ Somewhere(b, o2, a, h, j) => j \in d \cup {i}
               /\ j \in d \cup {i} /\ ~c => Somewhere(b, o2, a, h, j)
    <2>1. AtMostOnce(b, o, a, h, j) /\ (Somewhere(b, o, a, h, j) => j \in d)
          /\ (j \in d /\ ~c => Somewhere(b, o, a, h, j))
      BY Zenon DEF InPlace
    <2>2. CASE j = i
      <3>1. ~Somewhere(b, o, a, h, j)
        BY <2>1, <2>2
      <3>2. \A t \in Senders : \A k \in 1..Len(o2[t]) : j \in o2[t][k].parts => t = s /\ k = 1
        BY Zenon, <1>1, <3>1 DEF Somewhere, Drained
      <3> QED BY ZenonT(60), <1>2, <2>1, <2>2, <3>1, <3>2 DEF AtMostOnce, Somewhere
    <2>3. CASE j # i
      <3>1. \A t \in Senders : \A k \in 1..Len(o2[t]) : j \in o2[t][k].parts =>
               k \in 1..Len(o[t]) /\ j \in o[t][k].parts
        BY Zenon, <1>1, <2>3
      <3>2. Drained(o2, j) <=> Drained(o, j)
        BY Zenon, <1>2, <2>3
      <3>3. \A t, u \in Senders : \A k \in 1..Len(o2[t]) : \A l \in 1..Len(o2[u]) :
               j \in o2[t][k].parts /\ j \in o2[u][l].parts => t = u /\ k = l
        <4> SUFFICES ASSUME NEW t \in Senders, NEW u \in Senders,
                            NEW k \in 1..Len(o2[t]), NEW l \in 1..Len(o2[u]),
                            j \in o2[t][k].parts, j \in o2[u][l].parts
                     PROVE  t = u /\ k = l
          OBVIOUS
        <4>1. /\ k \in 1..Len(o[t]) /\ j \in o[t][k].parts
              /\ l \in 1..Len(o[u]) /\ j \in o[u][l].parts
          BY Zenon, <3>1
        <4> QED BY ZenonT(60), <2>1, <4>1 DEF AtMostOnce
      <3>4. AtMostOnce(b, o2, a, h, j)
        BY Zenon, <2>1, <3>2, <3>3 DEF AtMostOnce
      <3> QED BY Zenon, <2>1, <2>3, <3>2, <3>4 DEF Somewhere
    <2> QED BY <2>2, <2>3
  <1> QED BY Zenon, <1>3 DEF InPlace

LEMMA FromBuffer ==
  ASSUME NEW b \in Seq(Insights), NEW o, NEW a, NEW h, NEW d, NEW c, InPlace(b, o, a, h, d, c),
         NEW s \in Senders, NEW o2, NEW a2, NEW c2 \in BOOLEAN,
         o2[s] = Grouped(b), \A t \in Senders : t # s => o2[t] = << >>,
         \A t \in Senders : a2[t].parts = {},
         ~c2 => ~c /\ \A t \in Senders : o[t] = << >> /\ a[t].parts = {}
  PROVE  InPlace(<< >>, o2, a2, h, d, c2)
  <1>1. 1..Len(<< >>) = {}
    OBVIOUS
  <1> DEFINE g == Grouped(b)
  <1>2. /\ \A i : Buffered(b, i) <=> \E k \in 1..Len(g) : i \in g[k].parts
        /\ \A i : (\A j, k \in 1..Len(b) : b[j] = i /\ b[k] = i => j = k) =>
                     \A j, k \in 1..Len(g) : i \in g[j].parts /\ i \in g[k].parts => j = k
    BY Zenon, Grouping
  <1> HIDE DEF g
  <1>3. o2[s] = g
    BY DEF g
  <1>4. \A i : /\ ~Buffered(<< >>, i) /\ ~Sent(a2, i)
               /\ Drained(o2, i) <=> Buffered(b, i)
    BY Zenon, <1>1, <1>2, <1>3 DEF Buffered, Sent, Drained
  <1>5. ASSUME NEW i \in Insights
        PROVE  /\ AtMostOnce(<< >>, o2, a2, h, i)
               /\ Somewhere(<< >>, o2, a2, h, i) => i \in d
               /\ i \in d /\ ~c2 => Somewhere(<< >>, o2, a2, h, i)
    <2>1. AtMostOnce(b, o, a, h, i) /\ (Somewhere(b, o, a, h, i) => i \in d)
          /\ (i \in d /\ ~c => Somewhere(b, o, a, h, i))
      BY Zenon DEF InPlace
    <2>2. \A j, k \in 1..Len(g) : i \in g[j].parts /\ i \in g[k].parts => j = k
      BY Zenon, <1>2, <2>1 DEF AtMostOnce
    <2>3. \A t \in Senders : \A k \in 1..Len(o2[t]) : i \in o2[t][k].parts => t = s /\ k \in 1..Len(g)
      BY Zenon, <1>1, <1>3
    <2>4. \A t, u \in Senders : \A j \in 1..Len(o2[t]) : \A k \in 1..Len(o2[u]) :
             i \in o2[t][j].parts /\ i \in o2[u][k].parts => t = u /\ j = k
      BY Zenon, <1>3, <2>2, <2>3
    <2>5. AtMostOnce(<< >>, o2, a2, h, i)
      BY Zenon, <1>1, <1>4, <2>1, <2>4 DEF AtMostOnce, Sent
    <2>6. ~c2 => ~Drained(o, i) /\ ~Sent(a, i)
      BY Zenon, <1>1 DEF Drained, Sent
    <2> QED BY Zenon, <1>4, <2>1, <2>5, <2>6 DEF Somewhere
  <1> QED BY Zenon, <1>5 DEF InPlace

\* A sender takes the first alert of its list up, and sends it or has done with it.
TakesUp(s, o, o2, a, a2, h, h2) ==
    /\ o[s] \in Seq(Alerts) /\ o[s] # << >>
    /\ o2[s] = Tail(o[s]) /\ \A t \in Senders : t # s => o2[t] = o[t]
    /\ \A t \in Senders : t # s => a2[t] = a[t]
    /\ a[s].parts = {}
    /\ \/ a2[s].parts = Head(o[s]).parts /\ h2 = h
       \/ a2[s].parts = {} /\ h2 = h \cup Head(o[s]).parts

LEMMA FromOutbox ==
  ASSUME NEW b, NEW o, NEW a, NEW h, NEW d, NEW c, InPlace(b, o, a, h, d, c),
         NEW s \in Senders, NEW o2, NEW a2, NEW h2, TakesUp(s, o, o2, a, a2, h, h2)
  PROVE  InPlace(b, o2, a2, h2, d, c)
  <1>0. /\ o[s] \in Seq(Alerts) /\ o[s] # << >>
        /\ o2[s] = Tail(o[s]) /\ \A t \in Senders : t # s => o2[t] = o[t]
        /\ \A t \in Senders : t # s => a2[t] = a[t]
        /\ a[s].parts = {}
        /\ \/ a2[s].parts = Head(o[s]).parts /\ h2 = h
           \/ a2[s].parts = {} /\ h2 = h \cup Head(o[s]).parts
    BY Zenon DEF TakesUp
  <1> USE <1>0
  <1> DEFINE P == Head(o[s]).parts
  <1>1. /\ Len(o[s]) \in Nat /\ Len(o[s]) >= 1 /\ Len(o2[s]) = Len(o[s]) - 1
        /\ Head(o[s]) = o[s][1]
        /\ \A k \in 1..Len(o2[s]) : o2[s][k] = o[s][k + 1]
    OBVIOUS
  <1>2. /\ 1 \in 1..Len(o[s]) /\ P = o[s][1].parts
        /\ \A k \in 1..Len(o2[s]) : k + 1 \in 1..Len(o[s]) /\ k + 1 # 1 /\ o2[s][k] = o[s][k + 1]
        /\ \A j, k \in 1..Len(o2[s]) : j + 1 = k + 1 => j = k
        /\ \A k \in 1..Len(o[s]) : k = 1 \/ \E l \in 1..Len(o2[s]) : k = l + 1
    <2>1. \A k \in 1..Len(o[s]) : k = 1 \/ (k - 1 \in 1..Len(o2[s]) /\ k = (k - 1) + 1)
      BY <1>1
    <2>2. /\ 1 \in 1..Len(o[s]) /\ P = o[s][1].parts
          /\ \A k \in 1..Len(o2[s]) : k + 1 \in 1..Len(o[s]) /\ k + 1 # 1 /\ o2[s][k] = o[s][k + 1]
          /\ \A j, k \in 1..Len(o2[s]) : j + 1 = k + 1 => j = k
      BY <1>1
    <2> QED BY Zenon, <2>1, <2>2
  <1> HIDE DEF P
  <1> DEFINE Place(t, k) == IF t = s THEN k + 1 ELSE k
  <1>6. ASSUME NEW t \in Senders, NEW k \in 1..Len(o2[t])
        PROVE  /\ Place(t, k) \in 1..Len(o[t]) /\ o2[t][k] = o[t][Place(t, k)]
               /\ ~(t = s /\ Place(t, k) = 1)
               /\ \A j \in 1..Len(o2[t]) : Place(t, j) = Place(t, k) => j = k
    <2>1. CASE t = s
      BY Zenon, <1>2, <2>1
    <2>2. CASE t # s
      BY Zenon, <2>2
    <2> QED BY <2>1, <2>2
  <1>7. ASSUME NEW t \in Senders, NEW k \in 1..Len(o[t])
        PROVE  (t = s /\ k = 1) \/ \E l \in 1..Len(o2[t]) : o2[t][l] = o[t][k]
    <2>1. CASE t = s
      <3>1. k \in 1..Len(o[s])
        BY Zenon, <2>1
      <3>2. CASE k = 1
        BY Zenon, <2>1, <3>2
      <3>3. CASE k # 1
        <4>1. PICK l \in 1..Len(o2[s]) : k = l + 1
          BY Zenon, <1>2, <3>1, <3>3
        <4>2. o2[s][l] = o[s][k]
          BY Zenon, <1>2, <4>1
        <4> QED BY Zenon, <2>1, <4>2
      <3> QED BY Zenon, <3>2, <3>3
    <2>2. CASE t # s
      BY Zenon, <2>2
    <2> QED BY <2>1, <2>2
  <1> HIDE DEF Place
  <1>3. \A i : Drained(o, i) <=> Drained(o2, i) \/ i \in P
    <2>1. ASSUME NEW i, Drained(o, i) PROVE Drained(o2, i) \/ i \in P
      <3>1. PICK t \in Senders : \E k \in 1..Len(o[t]) : i \in o[t][k].parts
        BY <2>1 DEF Drained
      <3>2. PICK k \in 1..Len(o[t]) : i \in o[t][k].parts
        BY <3>1
      <3> QED BY ZenonT(60), <1>2, <1>7, <3>2 DEF Drained
    <2>2. ASSUME NEW i, Drained(o2, i) PROVE Drained(o, i)
      BY ZenonT(60), <1>6, <2>2 DEF Drained
    <2>3. ASSUME NEW i \in P PROVE Drained(o, i)
      BY Zenon, <1>2, <2>3 DEF Drained
    <2> QED BY <2>1, <2>2, <2>3
  <1>4. \/ h2 = h /\ \A i : Sent(a2, i) <=> Sent(a, i) \/ i \in P
        \/ h2 = h \cup P /\ \A i : Sent(a2, i) <=> Sent(a, i)
    <2>1. CASE a2[s].parts = P /\ h2 = h
      BY Zenon, <2>1 DEF Sent
    <2>2. CASE a2[s].parts = {} /\ h2 = h \cup P
      BY Zenon, <2>2 DEF Sent
    <2> QED BY <2>1, <2>2 DEF P
  <1>5. ASSUME NEW i \in Insights
        PROVE  /\ AtMostOnce(b, o2, a2, h2, i)
               /\ Somewhere(b, o2, a2, h2, i) => i \in d
               /\ i \in d /\ ~c => Somewhere(b, o2, a2, h2, i)
    <2>1. AtMostOnce(b, o, a, h, i) /\ (Somewhere(b, o, a, h, i) => i \in d)
          /\ (i \in d /\ ~c => Somewhere(b, o, a, h, i))
      BY Zenon DEF InPlace
    <2>6. \A t, u \in Senders : \A j \in 1..Len(o[t]) : \A k \in 1..Len(o[u]) :
             i \in o[t][j].parts /\ i \in o[u][k].parts => t = u /\ j = k
      BY Zenon, <2>1 DEF AtMostOnce
    <2>2. i \in P => ~Drained(o2, i)
      <3> SUFFICES ASSUME i \in P, NEW t \in Senders, NEW k \in 1..Len(o2[t]), i \in o2[t][k].parts
                   PROVE  FALSE
        BY Zenon DEF Drained
      <3>1. Place(t, k) \in 1..Len(o[t]) /\ i \in o[t][Place(t, k)].parts /\ i \in o[s][1].parts
        <4>1. P = o[s][1].parts
          BY <1>2
        <4>2. Place(t, k) \in 1..Len(o[t]) /\ o2[t][k] = o[t][Place(t, k)]
          BY <1>6
        <4> QED BY <4>1, <4>2
      <3>2. t = s /\ Place(t, k) = 1
        <4>1. 1 \in 1..Len(o[s])
          BY <1>2
        <4> QED BY <2>6, <3>1, <4>1
      <3> QED BY <1>6, <3>2
    <2>3. \A t, u \in Senders : \A j \in 1..Len(o2[t]) : \A k \in 1..Len(o2[u]) :
             i \in o2[t][j].parts /\ i \in o2[u][k].parts => t = u /\ j = k
      <3> SUFFICES ASSUME NEW t \in Senders, NEW u \in Senders,
                          NEW j \in 1..Len(o2[t]), NEW k \in 1..Len(o2[u]),
                          i \in o2[t][j].parts, i \in o2[u][k].parts
                   PROVE  t = u /\ j = k
        OBVIOUS
      <3>1. /\ Place(t, j) \in 1..Len(o[t]) /\ i \in o[t][Place(t, j)].parts
            /\ Place(u, k) \in 1..Len(o[u]) /\ i \in o[u][Place(u, k)].parts
        <4>1. /\ Place(t, j) \in 1..Len(o[t]) /\ o2[t][j] = o[t][Place(t, j)]
              /\ Place(u, k) \in 1..Len(o[u]) /\ o2[u][k] = o[u][Place(u, k)]
          BY <1>6
        <4> QED BY <4>1
      <3>2. t = u /\ Place(t, j) = Place(u, k)
        BY <2>6, <3>1
      <3> QED BY Zenon, <1>6, <3>2
    <2>4. \A t, u \in Senders : i \in a2[t].parts /\ i \in a2[u].parts => t = u
      <3>1. i \in P => ~Sent(a, i)
        BY Zenon, <1>3, <2>1 DEF AtMostOnce
      <3>2. \A t \in Senders : i \in a2[t].parts => (t = s /\ i \in P) \/ i \in a[t].parts
        BY Zenon DEF P
      <3> QED BY Zenon, <2>1, <3>1, <3>2 DEF AtMostOnce, Sent
    <2>5. AtMostOnce(b, o2, a2, h2, i)
      BY Zenon, <1>3, <1>4, <2>1, <2>2, <2>3, <2>4 DEF AtMostOnce
    <2> QED BY Zenon, <1>3, <1>4, <2>1, <2>5 DEF Somewhere
  <1> QED BY Zenon, <1>5 DEF InPlace

LEMMA FromSend ==
  ASSUME NEW b, NEW o, NEW a, NEW h, NEW d, NEW c, InPlace(b, o, a, h, d, c),
         NEW s \in Senders, NEW a2, a2[s].parts = {}, \A t \in Senders : t # s => a2[t] = a[t]
  PROVE  InPlace(b, o, a2, h \cup a[s].parts, d, c)
  <1>1. \A i : Sent(a, i) <=> Sent(a2, i) \/ i \in a[s].parts
    BY Zenon DEF Sent
  <1>2. \A t \in Senders : \A i : i \in a2[t].parts => t # s /\ i \in a[t].parts
    BY Zenon
  <1>3. ASSUME NEW i \in Insights
        PROVE  /\ AtMostOnce(b, o, a2, h \cup a[s].parts, i)
               /\ Somewhere(b, o, a2, h \cup a[s].parts, i) => i \in d
               /\ i \in d /\ ~c => Somewhere(b, o, a2, h \cup a[s].parts, i)
    <2>1. AtMostOnce(b, o, a, h, i) /\ (Somewhere(b, o, a, h, i) => i \in d)
          /\ (i \in d /\ ~c => Somewhere(b, o, a, h, i))
      BY Zenon DEF InPlace
    <2>2. i \in a[s].parts => ~Sent(a2, i)
      BY Zenon, <1>2, <2>1 DEF AtMostOnce, Sent
    <2>3. AtMostOnce(b, o, a2, h \cup a[s].parts, i)
      BY Zenon, <1>1, <1>2, <2>1, <2>2 DEF AtMostOnce
    <2> QED BY Zenon, <1>1, <2>1, <2>3 DEF Somewhere
  <1> QED BY Zenon, <1>3 DEF InPlace
-----------------------------------------------------------------------------
LEMMA PlacesInit == Init => PlacesInv
  <1> SUFFICES ASSUME Init PROVE PlacesInv
    OBVIOUS
  <1>1. TypeOK
    <2>1. /\ \A S : << >> \in Seq(S)
          /\ \A f \in DOMAIN << >> : << >>[f] \in 0..MaxTime
          /\ 0 \in 0..MaxTime
      BY AlertAssumption
    <2>2. /\ outbox \in [Senders -> Seq(Alerts)] /\ alert \in [Senders -> Alerts \cup {NoAlert}]
          /\ reached \in [Senders -> BOOLEAN] /\ waiting \in [Senders -> SUBSET Channels]
          /\ stage \in [Senders -> {"off", "next", "sending"}]
      BY Zenon, <2>1 DEF Init
    <2> QED BY Zenon, <2>1, <2>2 DEF Init, TypeOK
  <1>2. Control
    BY DEF Init, Control, Senders
  <1>3. InPlace(buffer, outbox, alert, handled, dispatched, cut)
    <2>1. 1..Len(<< >>) = {}
      OBVIOUS
    <2>2. /\ buffer = << >> /\ \A s \in Senders : outbox[s] = << >> /\ alert[s] = NoAlert
          /\ handled = {} /\ dispatched = {}
      BY DEF Init
    <2>3. ASSUME NEW i
          PROVE  ~Buffered(buffer, i) /\ ~Drained(outbox, i) /\ ~Sent(alert, i) /\ i \notin handled
                 /\ i \notin dispatched
      BY Zenon, <2>1, <2>2, AlertParts DEF Buffered, Drained, Sent
    <2>4. ASSUME NEW i PROVE AtMostOnce(buffer, outbox, alert, handled, i)
      BY Zenon, <2>1, <2>2, <2>3, AlertParts DEF AtMostOnce
    <2> QED BY Zenon, <2>3, <2>4 DEF InPlace, Somewhere
  <1> QED BY <1>1, <1>2, <1>3 DEF PlacesInv

(***************************************************************************)
(* The parts of the invariant, spelled out for the next state.             *)
(***************************************************************************)
LEMMA NextControl ==
  Control' <=>
        /\ \A s \in Senders : /\ stage'[s] = "off" => outbox'[s] = << >>
                              /\ stage'[s] # "sending" => alert'[s] = NoAlert
                              /\ stage'[s] = "sending" => alert'[s] \in Alerts
        /\ aggregating' => \A c \in Callers : stage'[c] = "off"
        /\ ~aggregating' => flushTask' = "none"
        /\ flushTask' = "running" <=> stage'["flusher"] # "off"
        /\ closing' = "open" => stage'["closer"] = "off" /\ ~cut'
        /\ closing' # "open" => /\ flushTask' = "none" /\ buffer' = << >>
                                /\ \A s \in Senders \ {"closer"} : stage'[s] = "off"
        /\ closing' = "closed" => stage'["closer"] = "off"
  BY Zenon DEF Control, Alerts, Single, Incident, NoAlert, Senders

LEMMA NextPlaces ==
  InPlace(buffer, outbox, alert, handled, dispatched, cut)'
        <=> InPlace(buffer', outbox', alert', handled', dispatched', cut')
  BY Zenon DEF InPlace, AtMostOnce, Somewhere, Buffered, Drained, Sent, Senders

LEMMA NextTypes ==
  TypeOK' <=>
        /\ aggregating' \in Modes
        /\ buffer' \in Seq(Insights)
        /\ flushTask' \in {"none", "sleeping", "running"}
        /\ closing' \in {"open", "closing", "closed"}
        /\ stage' \in [Senders -> {"off", "next", "sending"}]
        /\ outbox' \in [Senders -> Seq(Alerts)]
        /\ alert' \in [Senders -> Alerts \cup {NoAlert}]
        /\ waiting' \in [Senders -> SUBSET Channels]
        /\ reached' \in [Senders -> BOOLEAN]
        /\ sentTimes' \in Seq(0..MaxTime)
        /\ \A f \in DOMAIN lastSent' : lastSent'[f] \in 0..MaxTime
        /\ now' \in 0..MaxTime
        /\ dispatched' \in SUBSET Insights /\ handled' \in SUBSET Insights
        /\ delivered' \in SUBSET [alert : Alerts, channel : Channels, at : 0..MaxTime]
        /\ cut' \in BOOLEAN
  BY Zenon DEF TypeOK, Alerts, Single, Incident, NoAlert, Senders

LEMMA DispatchKeeps ==
  ASSUME PlacesInv, NEW i \in Insights, Dispatch(i)
  PROVE  PlacesInv'
  <1>0. TypeOK /\ Control /\ InPlace(buffer, outbox, alert, handled, dispatched, cut)
    BY DEF PlacesInv
  <1>1. InPlace(buffer, outbox, alert, handled, dispatched, cut)'
    <2>1. InPlace(Append(buffer, i), outbox, alert, handled, dispatched \cup {i}, cut)
      BY Zenon, <1>0, IntoBuffer DEF Dispatch, TypeOK
    <2> QED BY Zenon, <2>1, NextPlaces DEF Dispatch, sending
  <1>2. TypeOK'
    <2>1. buffer' \in Seq(Insights) /\ flushTask' \in {"none", "sleeping", "running"}
          /\ dispatched' \in SUBSET Insights
      BY <1>0 DEF Dispatch, TypeOK
    <2> QED BY Zenon, <1>0, <2>1, NextTypes DEF Dispatch, TypeOK, sending, limit
  <1>3. Control'
    BY Zenon, <1>0, NextControl DEF Dispatch, Control, sending
  <1> QED BY <1>1, <1>2, <1>3 DEF PlacesInv

LEMMA DispatchDirectKeeps ==
  ASSUME PlacesInv, NEW c \in Callers, NEW i \in Insights, DispatchDirect(c, i)
  PROVE  PlacesInv'
  <1>0. TypeOK /\ Control /\ InPlace(buffer, outbox, alert, handled, dispatched, cut)
    BY DEF PlacesInv
  <1>1. /\ c \in Senders /\ c # "flusher" /\ c # "closer"
        /\ outbox[c] = << >> /\ outbox \in [Senders -> Seq(Alerts)]
        /\ stage \in [Senders -> {"off", "next", "sending"}]
    BY <1>0, AlertAssumption DEF Senders, DispatchDirect, Control, TypeOK
  <1>2. InPlace(buffer, outbox, alert, handled, dispatched, cut)'
    <2>1. /\ outbox'[c] = << Single(i) >> /\ \A t \in Senders : t # c => outbox'[t] = outbox[t]
      BY <1>1 DEF DispatchDirect
    <2>2. InPlace(buffer, outbox', alert, handled, dispatched \cup {i}, cut)
      BY Zenon, <1>0, <1>1, <2>1, ToCaller DEF DispatchDirect
    <2> QED BY Zenon, <2>2, NextPlaces DEF DispatchDirect
  <1>3. TypeOK'
    <2>1. << Single(i) >> \in Seq(Alerts)
      BY AlertParts
    <2> QED BY <1>0, <1>1, <2>1, NextTypes DEF DispatchDirect, TypeOK, limit
  <1>4. Control'
    BY <1>0, <1>1, NextControl DEF DispatchDirect, Control, Senders
  <1> QED BY <1>2, <1>3, <1>4 DEF PlacesInv

LEMMA WindowKeeps ==
  ASSUME PlacesInv, WindowElapses
  PROVE  PlacesInv'
  <1>0. TypeOK /\ Control /\ InPlace(buffer, outbox, alert, handled, dispatched, cut)
    BY DEF PlacesInv
  <1>1. /\ "flusher" \in Senders /\ outbox \in [Senders -> Seq(Alerts)] /\ buffer \in Seq(Insights)
        /\ stage \in [Senders -> {"off", "next", "sending"}] /\ cut \in BOOLEAN
        /\ closing = "open"
        /\ \A s \in Senders : stage[s] = "off" /\ outbox[s] = << >> /\ alert[s] = NoAlert
    BY <1>0 DEF Senders, WindowElapses, Control, TypeOK
  <1>2. Grouped(buffer) \in Seq(Alerts)
    BY Zenon, <1>1, Grouping
  <1>3. InPlace(buffer, outbox, alert, handled, dispatched, cut)'
    <2>1. /\ outbox'["flusher"] = Grouped(buffer)
          /\ \A t \in Senders : t # "flusher" => outbox'[t] = << >>
      BY <1>1 DEF WindowElapses, Drain
    <2>2. InPlace(<< >>, outbox', alert, handled, dispatched, cut)
      <3>1. /\ \A t \in Senders : alert[t].parts = {}
            /\ ~cut => ~cut /\ \A t \in Senders : outbox[t] = << >> /\ alert[t].parts = {}
        BY Zenon, <1>1, AlertParts
      <3> QED BY <1>0, <1>1, <2>1, <3>1, FromBuffer
    <2> QED BY Zenon, <2>2, NextPlaces DEF WindowElapses, Drain, history
  <1>4. TypeOK'
    <2>1. << >> \in Seq(Insights)
      OBVIOUS
    <2> QED BY <1>0, <1>1, <1>2, <2>1, NextTypes DEF WindowElapses, Drain, TypeOK, limit, history
  <1>5. Control'
    <2>1. \A c \in Callers : c # "flusher" /\ c \in Senders
      BY AlertAssumption DEF Senders
    <2> QED BY <1>0, <1>1, <2>1, NextControl DEF WindowElapses, Drain, Control, history
  <1> QED BY <1>3, <1>4, <1>5 DEF PlacesInv

LEMMA NextAlertKeeps ==
  ASSUME PlacesInv, NEW s \in Senders, NextAlert(s)
  PROVE  PlacesInv'
  <1>0. TypeOK /\ Control /\ InPlace(buffer, outbox, alert, handled, dispatched, cut)
    BY DEF PlacesInv
  <1> DEFINE a == Head(outbox[s])
  <1>1. /\ outbox \in [Senders -> Seq(Alerts)] /\ alert \in [Senders -> Alerts \cup {NoAlert}]
        /\ stage \in [Senders -> {"off", "next", "sending"}]
        /\ outbox[s] \in Seq(Alerts) /\ outbox[s] # << >> /\ stage[s] = "next"
        /\ alert[s] = NoAlert
    BY <1>0 DEF NextAlert, Control, TypeOK
  <1>2. a \in Alerts /\ Tail(outbox[s]) \in Seq(Alerts)
    BY <1>1
  <1>3. a.parts \subseteq Insights /\ NoAlert.parts = {}
    BY Zenon, <1>2, AlertParts
  <1> HIDE DEF a
  <1>4. outbox' = [outbox EXCEPT ![s] = Tail(outbox[s])]
    BY DEF NextAlert
  <1>5. /\ UNCHANGED << aggregating, buffer, flushTask, closing, lastSent, now, dispatched,
                        delivered, cut >>
        /\ sentTimes' = IF Channels = {} THEN sentTimes ELSE Recent(sentTimes)
    BY DEF NextAlert
  <1>6. \/ /\ stage' = [stage EXCEPT ![s] = "sending"] /\ alert' = [alert EXCEPT ![s] = a]
           /\ waiting' = [waiting EXCEPT ![s] = Accepting(a)]
           /\ reached' = [reached EXCEPT ![s] = FALSE] /\ handled' = handled
        \/ handled' = handled \cup a.parts /\ UNCHANGED << stage, alert, waiting, reached >>
    BY Zenon DEF NextAlert, a
  <1>7. /\ \A t \in Senders : t # s => outbox'[t] = outbox[t] /\ alert'[t] = alert[t]
        /\ outbox'[s] = Tail(outbox[s])
        /\ \/ alert'[s].parts = a.parts /\ handled' = handled
           \/ alert'[s].parts = {} /\ handled' = handled \cup a.parts
    BY <1>1, <1>3, <1>4, <1>6
  <1>8. InPlace(buffer, outbox, alert, handled, dispatched, cut)'
    <2>1. InPlace(buffer, outbox', alert', handled', dispatched, cut)
      <3>1. /\ alert[s].parts = {}
            /\ \/ alert'[s].parts = Head(outbox[s]).parts /\ handled' = handled
               \/ alert'[s].parts = {} /\ handled' = handled \cup Head(outbox[s]).parts
        BY Zenon, <1>1, <1>3, <1>7 DEF a
      <3>3. /\ \A t \in Senders : t # s => outbox'[t] = outbox[t]
            /\ \A t \in Senders : t # s => alert'[t] = alert[t]
            /\ outbox'[s] = Tail(outbox[s])
        BY Zenon, <1>7
      <3>4. outbox[s] \in Seq(Alerts) /\ outbox[s] # << >>
        BY <1>1
      <3>5. TakesUp(s, outbox, outbox', alert, alert', handled, handled')
        BY Zenon, <3>1, <3>3, <3>4 DEF TakesUp
      <3>6. InPlace(buffer, outbox, alert, handled, dispatched, cut)
        BY Zenon, <1>0 DEF PlacesInv
      <3> HIDE DEF a
      <3> QED BY Zenon, <3>5, <3>6, FromOutbox
    <2> QED BY Zenon, <1>5, <2>1, NextPlaces
  <1>9. sentTimes' \in Seq(0..MaxTime)
    <2>1. sentTimes \in Seq(0..MaxTime) /\ sentTimes \in Seq(Nat) /\ now \in Nat /\ Hour \in Nat
      BY <1>0, AlertAssumption DEF TypeOK
    <2>2. PICK n \in 0..Len(sentTimes) : Recent(sentTimes) = SubSeq(sentTimes, n + 1, Len(sentTimes))
      BY <2>1, RecentIsSuffix
    <2>3. \A S : \A q \in Seq(S) : \A m \in 0..Len(q) : SubSeq(q, m + 1, Len(q)) \in Seq(S)
      OBVIOUS
    <2>4. Recent(sentTimes) \in Seq(0..MaxTime)
      BY <2>1, <2>2, <2>3
    <2> QED BY <1>5, <2>1, <2>4
  <1>10. TypeOK'
    <2>1. Accepting(a) \in SUBSET Channels
      BY DEF Accepting
    <2>2. /\ stage' \in [Senders -> {"off", "next", "sending"}]
          /\ outbox' \in [Senders -> Seq(Alerts)]
          /\ alert' \in [Senders -> Alerts \cup {NoAlert}]
          /\ waiting' \in [Senders -> SUBSET Channels]
          /\ reached' \in [Senders -> BOOLEAN]
          /\ handled' \in SUBSET Insights
      <3>1. /\ waiting \in [Senders -> SUBSET Channels] /\ reached \in [Senders -> BOOLEAN]
            /\ handled \in SUBSET Insights /\ "sending" \in {"off", "next", "sending"}
        BY <1>0 DEF TypeOK
      <3>2. outbox' \in [Senders -> Seq(Alerts)]
        BY <1>1, <1>2, <1>4
      <3>3. /\ stage' \in [Senders -> {"off", "next", "sending"}]
            /\ alert' \in [Senders -> Alerts \cup {NoAlert}]
        BY <1>1, <1>2, <1>6
      <3>4. waiting' \in [Senders -> SUBSET Channels] /\ reached' \in [Senders -> BOOLEAN]
        BY <1>6, <2>1, <3>1
      <3>5. handled' \in SUBSET Insights
        BY <1>3, <1>6, <3>1
      <3> QED BY <3>2, <3>3, <3>4, <3>5
    <2> QED BY Zenon, <1>0, <1>5, <1>9, <2>2, NextTypes DEF TypeOK
  <1>11. Control'
    BY <1>0, <1>1, <1>2, <1>4, <1>5, <1>6, NextControl DEF Control, Senders
  <1> QED BY <1>8, <1>10, <1>11 DEF PlacesInv

(***************************************************************************)
(* A sender that got the last answer it waited for, and one that did not.  *)
(***************************************************************************)
LEMMA ReplyCases ==
  ASSUME NEW s \in Senders, NEW c \in Channels, NEW reply \in Replies, ChannelReplies(s, c, reply)
  PROVE  /\ LoopFree /\ stage[s] = "sending" /\ c \in waiting[s]
         /\ waiting' = [waiting EXCEPT ![s] = @ \ {c}]
         /\ delivered' = delivered \cup
              (IF reply = "accepted" THEN {[alert |-> alert[s], channel |-> c, at |-> now]} ELSE {})
         /\ UNCHANGED << aggregating, buffer, flushTask, closing, outbox, now, dispatched, cut >>
         /\ \/ /\ waiting[s] # {c}
               /\ reached' = [reached EXCEPT ![s] = @ \/ reply = "accepted"]
               /\ UNCHANGED << stage, alert, sentTimes, lastSent, handled >>
            \/ /\ stage' = [stage EXCEPT ![s] = "next"]
               /\ alert' = [alert EXCEPT ![s] = NoAlert]
               /\ reached' = [reached EXCEPT ![s] = FALSE]
               /\ handled' = handled \cup alert[s].parts
               /\ \/ (reply = "accepted" \/ reached[s]) /\ Record(alert[s])
                  \/ ~(reply = "accepted" \/ reached[s]) /\ UNCHANGED << sentTimes, lastSent >>
  BY Zenon DEF ChannelReplies, limit

LEMMA ReplyKeeps ==
  ASSUME PlacesInv, NEW s \in Senders, NEW c \in Channels, NEW reply \in Replies,
         ChannelReplies(s, c, reply)
  PROVE  PlacesInv'
  <1>0. TypeOK /\ Control /\ InPlace(buffer, outbox, alert, handled, dispatched, cut)
    BY DEF PlacesInv
  <1>1. /\ stage \in [Senders -> {"off", "next", "sending"}]
        /\ alert \in [Senders -> Alerts \cup {NoAlert}]
        /\ waiting \in [Senders -> SUBSET Channels] /\ reached \in [Senders -> BOOLEAN]
        /\ sentTimes \in Seq(0..MaxTime) /\ now \in 0..MaxTime
        /\ \A f \in DOMAIN lastSent : lastSent[f] \in 0..MaxTime
        /\ delivered \in SUBSET [alert : Alerts, channel : Channels, at : 0..MaxTime]
        /\ handled \in SUBSET Insights /\ InPlace(buffer, outbox, alert, handled, dispatched, cut)
    BY <1>0 DEF TypeOK
  <1>2. /\ stage[s] = "sending" /\ waiting' = [waiting EXCEPT ![s] = @ \ {c}]
        /\ delivered' = delivered \cup
             (IF reply = "accepted" THEN {[alert |-> alert[s], channel |-> c, at |-> now]} ELSE {})
        /\ UNCHANGED << aggregating, buffer, flushTask, closing, outbox, now, dispatched, cut >>
    BY ReplyCases
  <1>3. waiting' \in [Senders -> SUBSET Channels]
    BY <1>1, <1>2
  <1>4. alert[s] \in Alerts
    BY <1>0, <1>2 DEF Control
  <1>5. alert[s].parts \subseteq Insights /\ NoAlert.parts = {}
    BY Zenon, <1>4, AlertParts
  <1>6. delivered' \in SUBSET [alert : Alerts, channel : Channels, at : 0..MaxTime]
    BY <1>1, <1>2, <1>4
  <1>7. CASE /\ waiting[s] # {c}
             /\ reached' = [reached EXCEPT ![s] = @ \/ reply = "accepted"]
             /\ UNCHANGED << stage, alert, sentTimes, lastSent, handled >>
    <2>1. reached' \in [Senders -> BOOLEAN]
      BY Zenon, <1>1, <1>7
    <2>2. TypeOK'
      BY Zenon, <1>0, <1>2, <1>3, <1>6, <1>7, <2>1, NextTypes DEF TypeOK
    <2>3. Control'
      BY Zenon, <1>0, <1>2, <1>7, NextControl DEF Control
    <2>4. InPlace(buffer, outbox, alert, handled, dispatched, cut)'
      BY Zenon, <1>0, <1>2, <1>7, NextPlaces
    <2> QED BY <2>2, <2>3, <2>4 DEF PlacesInv
  <1>8. CASE /\ stage' = [stage EXCEPT ![s] = "next"]
             /\ alert' = [alert EXCEPT ![s] = NoAlert]
             /\ reached' = [reached EXCEPT ![s] = FALSE]
             /\ handled' = handled \cup alert[s].parts
             /\ Record(alert[s]) \/ UNCHANGED << sentTimes, lastSent >>
    <2>1. /\ stage' \in [Senders -> {"off", "next", "sending"}]
          /\ alert' \in [Senders -> Alerts \cup {NoAlert}]
          /\ reached' \in [Senders -> BOOLEAN] /\ handled' \in SUBSET Insights
      BY <1>1, <1>5, <1>8
    <2>2. sentTimes' \in Seq(0..MaxTime)
      <3>1. Append(sentTimes, now) \in Seq(0..MaxTime)
        BY <1>1
      <3> QED BY Zenon, <1>1, <1>8, <3>1 DEF Record
    <2>3. \A f \in DOMAIN lastSent' : lastSent'[f] \in 0..MaxTime
      BY <1>1, <1>8 DEF Record
    <2>4. TypeOK'
      BY Zenon, <1>0, <1>2, <1>3, <1>6, <2>1, <2>2, <2>3, NextTypes DEF TypeOK
    <2>5. Control'
      BY <1>0, <1>1, <1>2, <1>8, NextControl DEF Control, Senders
    <2>6. InPlace(buffer, outbox, alert, handled, dispatched, cut)'
      <3>1. alert'[s].parts = {} /\ \A t \in Senders : t # s => alert'[t] = alert[t]
        BY <1>1, <1>5, <1>8
      <3>2. InPlace(buffer, outbox, alert', handled \cup alert[s].parts, dispatched, cut)
        BY Zenon, <1>0, <3>1, FromSend
      <3> QED BY Zenon, <1>2, <1>8, <3>2, NextPlaces
    <2> QED BY <2>4, <2>5, <2>6 DEF PlacesInv
  <1> QED BY ZenonT(60), <1>7, <1>8, ReplyCases

LEMMA EndKeeps ==
  ASSUME PlacesInv, NEW s \in Senders, SenderEnds(s)
  PROVE  PlacesInv'
  <1>0. TypeOK /\ Control /\ InPlace(buffer, outbox, alert, handled, dispatched, cut)
    BY DEF PlacesInv
  <1>1. TypeOK'
    <2>1. /\ stage' \in [Senders -> {"off", "next", "sending"}]
          /\ flushTask' \in {"none", "sleeping", "running"}
          /\ closing' \in {"open", "closing", "closed"}
      BY <1>0 DEF SenderEnds, TypeOK
    <2> QED BY Zenon, <1>0, <2>1, NextTypes DEF SenderEnds, TypeOK, limit, history
  <1>2. Control'
    <2>1. stage \in [Senders -> {"off", "next", "sending"}] /\ stage' = [stage EXCEPT ![s] = "off"]
          /\ stage[s] = "next" /\ outbox[s] = << >>
      BY <1>0 DEF TypeOK, SenderEnds
    <2> QED BY <1>0, <2>1, NextControl DEF SenderEnds, Control, Senders, history
  <1>3. InPlace(buffer, outbox, alert, handled, dispatched, cut)'
    BY Zenon, <1>0, NextPlaces DEF SenderEnds, history
  <1> QED BY <1>1, <1>2, <1>3 DEF PlacesInv

LEMMA CloseKeeps ==
  ASSUME PlacesInv, Close
  PROVE  PlacesInv'
  <1>0. TypeOK /\ Control /\ InPlace(buffer, outbox, alert, handled, dispatched, cut)
    BY DEF PlacesInv
  <1>1. /\ "closer" \in Senders /\ buffer \in Seq(Insights) /\ closing = "open" /\ ~cut
        /\ cut' = (\E s \in Senders : stage[s] = "sending") /\ LoopFree
        /\ stage \in [Senders -> {"off", "next", "sending"}]
    BY <1>0 DEF Senders, Close, Control, TypeOK
  <1>2. Grouped(buffer) \in Seq(Alerts) /\ NoAlert.parts = {}
    BY Zenon, <1>1, Grouping, AlertParts
  <1>3. /\ outbox'["closer"] = Grouped(buffer)
        /\ \A t \in Senders : t # "closer" => outbox'[t] = << >>
        /\ \A t \in Senders : alert'[t] = NoAlert
        /\ buffer' = << >>
    BY <1>1 DEF Close
  <1>4. ~cut' => \A t \in Senders : stage[t] = "off"
    BY <1>1 DEF LoopFree
  <1>5. InPlace(buffer, outbox, alert, handled, dispatched, cut)'
    <2>1. ~cut' => ~cut /\ \A t \in Senders : outbox[t] = << >> /\ alert[t].parts = {}
      BY <1>0, <1>1, <1>2, <1>4 DEF Control
    <2>2. cut' \in BOOLEAN /\ \A t \in Senders : alert'[t].parts = {}
      BY <1>1, <1>2, <1>3
    <2>3. InPlace(<< >>, outbox', alert', handled, dispatched, cut')
      <3>1. "closer" \in Senders /\ buffer \in Seq(Insights)
        BY <1>1
      <3>2. outbox'["closer"] = Grouped(buffer) /\ \A t \in Senders : t # "closer" => outbox'[t] = << >>
        BY Zenon, <1>3
      <3>3. InPlace(buffer, outbox, alert, handled, dispatched, cut)
        BY <1>0
      <3> QED BY <2>1, <2>2, <3>1, <3>2, <3>3, FromBuffer
    <2> QED BY Zenon, <1>3, <2>3, NextPlaces DEF Close
  <1>6. TypeOK'
    <2>1. /\ stage' \in [Senders -> {"off", "next", "sending"}]
          /\ outbox' \in [Senders -> Seq(Alerts)]
          /\ alert' \in [Senders -> Alerts \cup {NoAlert}]
          /\ waiting' \in [Senders -> SUBSET Channels]
          /\ reached' \in [Senders -> BOOLEAN]
          /\ buffer' \in Seq(Insights)
          /\ flushTask' = "none" /\ closing' = "closing" /\ cut' \in BOOLEAN
      BY <1>1, <1>2 DEF Close
    <2> QED BY Zenon, <1>0, <2>1, NextTypes DEF Close, TypeOK, limit
  <1>7. Control'
    <2>1. /\ \A s \in Senders : stage'[s] = IF s = "closer" THEN "next" ELSE "off"
          /\ closing' = "closing" /\ flushTask' = "none" /\ buffer' = << >>
      BY DEF Close
    <2>2. \A c \in Callers : c # "closer" /\ c \in Senders
      BY AlertAssumption DEF Senders
    <2>3. "flusher" \in Senders /\ "closer" \in Senders
      BY DEF Senders
    <2> QED BY <1>3, <2>1, <2>2, <2>3, NextControl
  <1> QED BY <1>5, <1>6, <1>7 DEF PlacesInv

LEMMA PlacesStep == PlacesInv /\ [Next]_vars => PlacesInv'
  <1> SUFFICES ASSUME PlacesInv, [Next]_vars PROVE PlacesInv'
    OBVIOUS
  <1>1. CASE Tick
    <2>1. now + 1 \in 0..MaxTime
      BY <1>1, AlertAssumption DEF PlacesInv, TypeOK, Tick
    <2> QED BY Zenon, <1>1, <2>1, NextTypes, NextControl, NextPlaces
            DEF PlacesInv, TypeOK, Control, Tick, sending, limit, history
  <1>2. CASE UNCHANGED vars
    BY Zenon, <1>2, NextTypes, NextControl, NextPlaces
       DEF PlacesInv, TypeOK, Control, vars, sending, limit, history
  <1> QED BY <1>1, <1>2, DispatchKeeps, DispatchDirectKeeps, WindowKeeps, NextAlertKeeps, ReplyKeeps,
             EndKeeps, CloseKeeps DEF Next, SenderStep

(***************************************************************************)
(* An insight given to dispatch is never in two places, and in none only   *)
(* when close() cancelled the send it was in.                              *)
(***************************************************************************)
THEOREM PlacesInvariant == Spec => []PlacesInv
  BY PlacesInit, PlacesStep, PTL DEF Spec

(***************************************************************************)
(* Every variable of the alert manager keeps its type: the senders, what   *)
(* they have drained and the times the rate limit remembers.               *)
(***************************************************************************)
THEOREM Types == Spec => []TypeOK
  <1>1. PlacesInv => TypeOK
    BY DEF PlacesInv
  <1> QED BY <1>1, PlacesInvariant, PTL

LEMMA AtMostOneElement ==
  ASSUME NEW S, \A x, y \in S : x = y
  PROVE  Cardinality(S) = IF S = {} THEN 0 ELSE 1
  <1>1. CASE S = {}
    BY Zenon, <1>1, FS_EmptySet
  <1>2. CASE S # {}
    <2>1. PICK x : x \in S
      BY <1>2
    <2>2. S = {x}
      BY <2>1
    <2> QED BY <1>2, <2>2, FS_Singleton
  <1> QED BY <1>1, <1>2

LEMMA PlacesCounted ==
  ASSUME NEW i, AtMostOnce(buffer, outbox, alert, handled, i),
         Somewhere(buffer, outbox, alert, handled, i)
  PROVE  Places(i) = 1
  <1> DEFINE B == {k \in 1..Len(buffer) : buffer[k] = i}
             OO == UNION {{s} \X {k \in 1..Len(outbox[s]) : i \in outbox[s][k].parts} : s \in Senders}
             A == {s \in Senders : i \in alert[s].parts}
             H == IF i \in handled THEN 1 ELSE 0
  <1>1. Cardinality(B) = IF Buffered(buffer, i) THEN 1 ELSE 0
    <2>1. \A x, y \in B : x = y
      BY Zenon DEF AtMostOnce
    <2>2. B = {} <=> ~Buffered(buffer, i)
      BY Zenon DEF Buffered
    <2> HIDE DEF B
    <2>3. Cardinality(B) = IF B = {} THEN 0 ELSE 1
      BY Zenon, <2>1, AtMostOneElement
    <2> QED BY <2>2, <2>3
  <1>2. Cardinality(OO) = IF Drained(outbox, i) THEN 1 ELSE 0
    <2>4. \A x : x \in OO <=> \E s \in Senders : \E k \in 1..Len(outbox[s]) :
                                i \in outbox[s][k].parts /\ x = << s, k >>
      OBVIOUS
    <2> HIDE DEF OO
    <2>1. \A x, y \in OO : x = y
      <3> SUFFICES ASSUME NEW x \in OO, NEW y \in OO PROVE x = y
        OBVIOUS
      <3>1. PICK s \in Senders : \E k \in 1..Len(outbox[s]) :
                i \in outbox[s][k].parts /\ x = << s, k >>
        BY Zenon, <2>4
      <3>2. PICK k \in 1..Len(outbox[s]) : i \in outbox[s][k].parts /\ x = << s, k >>
        BY Zenon, <3>1
      <3>3. PICK t \in Senders : \E l \in 1..Len(outbox[t]) :
                i \in outbox[t][l].parts /\ y = << t, l >>
        BY Zenon, <2>4
      <3>4. PICK l \in 1..Len(outbox[t]) : i \in outbox[t][l].parts /\ y = << t, l >>
        BY Zenon, <3>3
      <3>5. s = t /\ k = l
        BY Zenon, <3>2, <3>4 DEF AtMostOnce
      <3> QED BY <3>2, <3>4, <3>5
    <2>2. OO = {} <=> ~Drained(outbox, i)
      BY Zenon, <2>4 DEF Drained
    <2>3. Cardinality(OO) = IF OO = {} THEN 0 ELSE 1
      BY Zenon, <2>1, AtMostOneElement
    <2> QED BY <2>2, <2>3
  <1>3. Cardinality(A) = IF Sent(alert, i) THEN 1 ELSE 0
    <2>1. \A x, y \in A : x = y
      BY Zenon DEF AtMostOnce
    <2>2. A = {} <=> ~Sent(alert, i)
      BY Zenon DEF Sent
    <2> HIDE DEF A
    <2>3. Cardinality(A) = IF A = {} THEN 0 ELSE 1
      BY Zenon, <2>1, AtMostOneElement
    <2> QED BY <2>2, <2>3
  <1>4. Places(i) = Cardinality(B) + Cardinality(OO) + Cardinality(A) + H
    BY Zenon DEF Places
  <1> HIDE DEF B, OO, A
  <1> QED BY <1>1, <1>2, <1>3, <1>4 DEF AtMostOnce, Somewhere

(***************************************************************************)
(* dispatch, flush and _send_one neither lose nor repeat an insight while  *)
(* the manager is open: it is in the buffer, in a drained batch, in a send *)
(* or done with, and in one of them only.                                  *)
(***************************************************************************)
THEOREM NeitherLostNorRepeated == Spec => []InsightInOnePlace
  <1>1. PlacesInv => InsightInOnePlace
    <2> SUFFICES ASSUME PlacesInv, closing = "open", NEW i \in dispatched PROVE Places(i) = 1
      BY DEF InsightInOnePlace
    <2>1. i \in Insights /\ ~cut
      BY DEF PlacesInv, TypeOK, Control
    <2>2. AtMostOnce(buffer, outbox, alert, handled, i) /\ Somewhere(buffer, outbox, alert, handled, i)
      BY Zenon, <2>1 DEF PlacesInv, InPlace
    <2> QED BY <2>2, PlacesCounted
  <1> QED BY <1>1, PlacesInvariant, PTL

(***************************************************************************)
(* close() leaves nothing behind: when it is over, what was dispatched was *)
(* sent or refused, unless close() cancelled a send.                       *)
(***************************************************************************)
THEOREM CloseFlushes == Spec => []ClosedMeansHandled
  <1>1. PlacesInv => ClosedMeansHandled
    <2> SUFFICES ASSUME PlacesInv, closing = "closed", ~cut PROVE handled = dispatched
      BY DEF ClosedMeansHandled
    <2>1. buffer = << >> /\ \A s \in Senders : stage[s] = "off"
      BY DEF PlacesInv, Control
    <2>2. \A s \in Senders : outbox[s] = << >> /\ alert[s].parts = {}
      BY Zenon, <2>1, AlertParts DEF PlacesInv, Control
    <2>3. 1..Len(<< >>) = {}
      OBVIOUS
    <2>4. \A i \in Insights : /\ Somewhere(buffer, outbox, alert, handled, i) <=> i \in handled
                              /\ Somewhere(buffer, outbox, alert, handled, i) => i \in dispatched
                              /\ i \in dispatched => Somewhere(buffer, outbox, alert, handled, i)
      <3>1. \A i : ~Buffered(buffer, i) /\ ~Drained(outbox, i) /\ ~Sent(alert, i)
        BY Zenon, <2>1, <2>2, <2>3 DEF Buffered, Drained, Sent
      <3> QED BY Zenon, <3>1 DEF PlacesInv, InPlace, Somewhere
    <2>5. dispatched \subseteq Insights /\ handled \subseteq Insights
      BY DEF PlacesInv, TypeOK
    <2> QED BY Zenon, <2>4, <2>5
  <1> QED BY <1>1, PlacesInvariant, PTL
-----------------------------------------------------------------------------
(***************************************************************************)
(* The limits.  They are asked when a send begins and recorded when it is  *)
(* over, so they hold while at most one task sends at a time: the flush    *)
(* task with a window, the only caller without one, then close().          *)
(***************************************************************************)
OneCaller == \A c, d \in Callers : c = d

\* The alerts of the deliveries D, and those from t on that no sender of a holds.
AlertsOf(D)    == {d.alert : d \in D}
Since(D, a, t) == {e \in D : e.at >= t /\ \A s \in Senders : a[s] # e.alert}
Done(D, a, t)  == AlertsOf(Since(D, a, t))

\* Nothing is delivered or recorded in the future, no alert is empty.
WellMade(o, g, a, D, l, n) ==
    /\ \A s \in Senders : /\ \A k \in 1..Len(o[s]) : o[s][k].parts # {}
                          /\ g[s] = "sending" => a[s].parts # {}
    /\ IsFiniteSet(AlertsOf(D))
    /\ \A d \in D : d.at <= n /\ d.alert.parts # {}
    /\ \A f \in DOMAIN l : l[f] <= n

\* What was delivered is recorded, or it is with its sender, who will record it.
InFlight(d, g, a, r) == \E s \in Senders : g[s] = "sending" /\ a[s] = d.alert /\ r[s]
Finished(d, h, l) ==
    /\ d.alert.parts \subseteq h
    /\ AlertFp(d.alert) \in DOMAIN l
    /\ d.at <= l[AlertFp(d.alert)]

Recorded(D, g, a, r, h, l) == \A d \in D : InFlight(d, g, a, r) \/ Finished(d, h, l)

\* An alert that is being sent is below the limits.
Cleared(D, g, a, q, n) ==
    \A s \in Senders : g[s] = "sending" =>
        /\ Len(q) < MaxPerHour
        /\ \A d \in D : (d.alert # a[s] /\ AlertFp(d.alert) = AlertFp(a[s])) => n - d.at >= Cooldown

\* Of the last hour, no more alerts were delivered from t on than sent_times holds
\* once the times before t are left out.
Counted(D, a, q, n) ==
    \A t \in 0..MaxTime : \A j \in 0..Len(q) :
        t >= n - Hour /\ (j # 0 => q[j] < t) => Cardinality(Done(D, a, t)) <= Len(q) - j

Apart(D) ==
    \A d, e \in D :
        (d.alert # e.alert /\ AlertFp(d.alert) = AlertFp(e.alert) /\ d.at <= e.at)
            => e.at - d.at >= Cooldown

Capped(D) ==
    \A t \in 0..MaxTime :
        Cardinality({d.alert : d \in {e \in D : e.at \in t..(t + Hour)}}) <= MaxPerHour

LimitsInv ==
    /\ WellMade(outbox, stage, alert, delivered, lastSent, now)
    /\ ~cut => /\ Recorded(delivered, stage, alert, reached, handled, lastSent)
               /\ Cleared(delivered, stage, alert, sentTimes, now)
               /\ Counted(delivered, alert, sentTimes, now)
               /\ Apart(delivered)
               /\ Capped(delivered)

LEMMA NextLimits ==
  LimitsInv' <=>
    /\ WellMade(outbox', stage', alert', delivered', lastSent', now')
    /\ ~cut' => /\ Recorded(delivered', stage', alert', reached', handled', lastSent')
                /\ Cleared(delivered', stage', alert', sentTimes', now')
                /\ Counted(delivered', alert', sentTimes', now')
                /\ Apart(delivered')
                /\ Capped(delivered')
  BY Zenon DEF LimitsInv, WellMade, Recorded, Cleared, Counted, Apart, Capped, InFlight, Finished,
               Done, Since, AlertsOf, AlertFp, AlertSeverity, Senders

LEMMA Solo ==
  ASSUME PlacesInv, OneCaller,
         NEW s \in Senders, NEW t \in Senders, stage[s] # "off", stage[t] # "off"
  PROVE  s = t
  <1>1. Control
    BY DEF PlacesInv
  <1>2. CASE closing # "open"
    BY <1>1, <1>2 DEF Control
  <1>3. CASE closing = "open"
    BY <1>1, <1>3 DEF Control, Senders, OneCaller
  <1> QED BY <1>2, <1>3

(***************************************************************************)
(* How the count of sent_times follows the alerts that are done with: it   *)
(* may forget what is over an hour old, and it grows with them.            *)
(***************************************************************************)
LEMMA DoneIsFinite ==
  ASSUME NEW D, NEW a, NEW t, IsFiniteSet(AlertsOf(D))
  PROVE  IsFiniteSet(Done(D, a, t)) /\ Cardinality(Done(D, a, t)) \in Nat
  <1>1. Done(D, a, t) \subseteq AlertsOf(D)
    BY DEF Done, Since, AlertsOf
  <1>2. IsFiniteSet(Done(D, a, t))
    BY <1>1, FS_Subset
  <1> QED BY <1>2, FS_CardinalityType

LEMMA CountedForgets ==
  ASSUME NEW D, IsFiniteSet(AlertsOf(D)), NEW a, NEW a2, NEW q \in Seq(Nat), NEW n \in Nat, NEW q2,
         \A t : Done(D, a2, t) \subseteq Done(D, a, t),
         Counted(D, a, q, n),
         NEW k \in 0..Len(q), q2 = SubSeq(q, k + 1, Len(q)), k # 0 => q[k] < n - Hour
  PROVE  Counted(D, a2, q2, n)
  <1> SUFFICES ASSUME NEW t \in 0..MaxTime, NEW j \in 0..Len(q2), t >= n - Hour,
                      j # 0 => q2[j] < t
               PROVE  Cardinality(Done(D, a2, t)) <= Len(q2) - j
    BY Zenon DEF Counted
  <1>1. /\ Len(q) \in Nat /\ Len(q2) = Len(q) - k /\ k + j \in 0..Len(q)
        /\ j # 0 => q2[j] = q[k + j]
        /\ Len(q2) - j = Len(q) - (k + j) /\ (j = 0 => k + j = k) /\ k \in Int
    OBVIOUS
  <1>2. t \in Nat /\ n - Hour \in Int /\ \A m \in 1..Len(q) : q[m] \in Int
    BY AlertAssumption
  <1>3. k + j # 0 => q[k + j] < t
    <2>1. CASE j # 0
      BY <1>1, <2>1
    <2>2. CASE j = 0
      <3>1. k + j = k
        BY <1>1, <2>2
      <3>2. k # 0 => q[k] < n - Hour /\ q[k] \in Int
        BY <1>2
      <3> QED BY <1>2, <3>1, <3>2
    <2> QED BY <2>1, <2>2
  <1>4. Cardinality(Done(D, a, t)) <= Len(q) - (k + j)
    BY Zenon, <1>1, <1>3 DEF Counted
  <1>5. Cardinality(Done(D, a2, t)) <= Cardinality(Done(D, a, t))
    BY Zenon, DoneIsFinite, FS_Subset
  <1> QED BY <1>1, <1>4, <1>5, DoneIsFinite

LEMMA CountedStays ==
  ASSUME NEW D, NEW D2, IsFiniteSet(AlertsOf(D)), IsFiniteSet(AlertsOf(D2)),
         NEW a, NEW a2, NEW q \in Seq(Nat), NEW n \in Nat, NEW n2 \in Nat, n <= n2,
         \A t : Done(D2, a2, t) \subseteq Done(D, a, t),
         Counted(D, a, q, n)
  PROVE  Counted(D2, a2, q, n2)
  <1> SUFFICES ASSUME NEW t \in 0..MaxTime, NEW j \in 0..Len(q), t >= n2 - Hour,
                      j # 0 => q[j] < t
               PROVE  Cardinality(Done(D2, a2, t)) <= Len(q) - j
    BY Zenon DEF Counted
  <1>1. t >= n - Hour /\ Len(q) - j \in Int
    BY AlertAssumption
  <1>2. Cardinality(Done(D, a, t)) <= Len(q) - j
    BY Zenon, <1>1 DEF Counted
  <1>3. Cardinality(Done(D2, a2, t)) <= Cardinality(Done(D, a, t))
    BY Zenon, DoneIsFinite, FS_Subset
  <1>4. Cardinality(Done(D, a, t)) \in Nat /\ Cardinality(Done(D2, a2, t)) \in Nat
    BY Zenon, DoneIsFinite
  <1> QED BY <1>1, <1>2, <1>3, <1>4

LEMMA CountedGrows ==
  ASSUME NEW D, NEW D2, IsFiniteSet(AlertsOf(D)), IsFiniteSet(AlertsOf(D2)),
         NEW a, NEW a2, NEW q \in Seq(Nat), NEW n \in Nat, NEW x,
         \A t : Done(D2, a2, t) \subseteq Done(D, a, t) \cup {x},
         \A d \in D2 : d.at \in Nat /\ d.at <= n,
         Counted(D, a, q, n)
  PROVE  Counted(D2, a2, Append(q, n), n)
  <1> DEFINE q2 == Append(q, n)
  <1>1. /\ Len(q) \in Nat /\ Len(q2) = Len(q) + 1 /\ q2[Len(q) + 1] = n
        /\ \A j \in 1..Len(q) : q2[j] = q[j]
    OBVIOUS
  <1> HIDE DEF q2
  <1> SUFFICES ASSUME NEW t \in 0..MaxTime, NEW j \in 0..Len(q2), t >= n - Hour,
                      j # 0 => q2[j] < t
               PROVE  Cardinality(Done(D2, a2, t)) <= Len(q2) - j
    BY Zenon DEF Counted, q2
  <1>2. CASE j = Len(q) + 1
    <2>1. n < t /\ t \in Nat
      BY <1>1, <1>2
    <2>2. \A d \in D2 : ~(d.at >= t)
      BY <2>1
    <2>3. Done(D2, a2, t) = {}
      BY Zenon, <2>2 DEF Done, Since, AlertsOf
    <2>4. Cardinality(Done(D2, a2, t)) = 0
      BY Zenon, <2>3, FS_EmptySet
    <2> QED BY <1>1, <1>2, <2>4
  <1>3. CASE j \in 0..Len(q)
    <2>1. j # 0 => q[j] < t
      <3>1. j # 0 => j \in 1..Len(q)
        BY <1>3
      <3> QED BY <1>1, <3>1
    <2>2. Cardinality(Done(D, a, t)) <= Len(q) - j
      BY Zenon, <1>3, <2>1 DEF Counted
    <2>3. IsFiniteSet(Done(D, a, t)) /\ Cardinality(Done(D, a, t)) \in Nat
      BY Zenon, DoneIsFinite
    <2>4. /\ IsFiniteSet(Done(D, a, t) \cup {x})
          /\ Cardinality(Done(D, a, t) \cup {x}) \in Nat
          /\ Cardinality(Done(D, a, t) \cup {x}) <= Cardinality(Done(D, a, t)) + 1
      <3>1. /\ IsFiniteSet(Done(D, a, t) \cup {x})
            /\ \/ Cardinality(Done(D, a, t) \cup {x}) = Cardinality(Done(D, a, t))
               \/ Cardinality(Done(D, a, t) \cup {x}) = Cardinality(Done(D, a, t)) + 1
        BY Zenon, <2>3, FS_AddElement
      <3> QED BY <2>3, <3>1
    <2>5. Cardinality(Done(D2, a2, t)) <= Cardinality(Done(D, a, t) \cup {x})
      BY Zenon, <2>4, FS_Subset
    <2>6. Cardinality(Done(D2, a2, t)) \in Nat
      BY Zenon, DoneIsFinite
    <2> QED BY <1>1, <1>3, <2>2, <2>3, <2>4, <2>5, <2>6
  <1> QED BY <1>1, <1>2, <1>3
-----------------------------------------------------------------------------
LEMMA LimitsInit == Init => LimitsInv
  <1> SUFFICES ASSUME Init PROVE LimitsInv
    OBVIOUS
  <1>1. /\ \A s \in Senders : outbox[s] = << >> /\ stage[s] = "off"
        /\ delivered = {} /\ lastSent = << >> /\ sentTimes = << >>
    BY DEF Init
  <1>2. Len(<< >>) = 0 /\ 1..0 = {} /\ DOMAIN << >> = {} /\ 0..0 = {0}
    OBVIOUS
  <1>3. AlertsOf({}) = {} /\ \A a, t : Done({}, a, t) = {}
    BY Zenon DEF AlertsOf, Done, Since
  <1>4. WellMade(outbox, stage, alert, delivered, lastSent, now)
    <2>1. \A s \in Senders : 1..Len(outbox[s]) = {} /\ stage[s] # "sending"
      BY <1>1, <1>2
    <2>2. IsFiniteSet(AlertsOf({}))
      BY Zenon, <1>3, FS_EmptySet
    <2> QED BY Zenon, <1>1, <1>2, <2>1, <2>2 DEF WellMade
  <1>5. Recorded(delivered, stage, alert, reached, handled, lastSent) /\ Apart(delivered)
    BY Zenon, <1>1 DEF Recorded, Apart
  <1>6. Cleared(delivered, stage, alert, sentTimes, now)
    BY <1>1 DEF Cleared
  <1>7. Counted(delivered, alert, sentTimes, now)
    <2> SUFFICES ASSUME NEW t \in 0..MaxTime, NEW j \in 0..Len(sentTimes)
                 PROVE  Cardinality(Done(delivered, alert, t)) <= Len(sentTimes) - j
      BY Zenon DEF Counted
    <2>1. Cardinality(Done(delivered, alert, t)) = 0
      BY Zenon, <1>1, <1>3, FS_EmptySet
    <2> QED BY <1>1, <1>2, <2>1
  <1>8. Capped(delivered)
    <2> SUFFICES ASSUME NEW t \in 0..MaxTime
                 PROVE  Cardinality({d.alert : d \in {e \in delivered : e.at \in t..(t + Hour)}}) <= MaxPerHour
      BY Zenon DEF Capped
    <2>1. {d.alert : d \in {e \in delivered : e.at \in t..(t + Hour)}} = {}
      BY Zenon, <1>1
    <2>2. Cardinality({d.alert : d \in {e \in delivered : e.at \in t..(t + Hour)}}) = 0
      BY Zenon, <2>1, FS_EmptySet
    <2> QED BY <2>2, AlertAssumption
  <1> QED BY <1>4, <1>5, <1>6, <1>7, <1>8 DEF LimitsInv

(***************************************************************************)
(* A step that fills an outbox or lets a sender end leaves the limits as   *)
(* they are.                                                               *)
(***************************************************************************)
LEMMA LimitsStay ==
  ASSUME LimitsInv, UNCHANGED << alert, reached, handled, lastSent, sentTimes, now, delivered, cut >>,
         \A s \in Senders : stage'[s] = "sending" <=> stage[s] = "sending",
         \A s \in Senders : \A k \in 1..Len(outbox'[s]) : outbox'[s][k].parts # {}
  PROVE  LimitsInv'
  <1>1. WellMade(outbox', stage', alert', delivered', lastSent', now')
    BY Zenon DEF LimitsInv, WellMade
  <1>2. ASSUME ~cut'
        PROVE  /\ Recorded(delivered', stage', alert', reached', handled', lastSent')
               /\ Cleared(delivered', stage', alert', sentTimes', now')
               /\ Counted(delivered', alert', sentTimes', now')
               /\ Apart(delivered')
               /\ Capped(delivered')
    BY Zenon, <1>2 DEF LimitsInv, Recorded, Cleared, InFlight
  <1> QED BY Zenon, <1>1, <1>2, NextLimits

LEMMA TickLimits ==
  ASSUME PlacesInv, LimitsInv, Tick
  PROVE  LimitsInv'
  <1>1. /\ now \in Nat /\ now' = now + 1 /\ sentTimes \in Seq(Nat)
        /\ UNCHANGED << outbox, stage, alert, reached, handled, lastSent, sentTimes, delivered, cut >>
        /\ \A d \in delivered : d.at \in Nat
        /\ \A f \in DOMAIN lastSent : lastSent[f] \in Nat
    BY AlertAssumption DEF Tick, sending, limit, history, PlacesInv, TypeOK
  <1>2. WellMade(outbox', stage', alert', delivered', lastSent', now')
    <2>1. WellMade(outbox, stage, alert, delivered, lastSent, now)
      BY DEF LimitsInv
    <2>2. \A d \in delivered : d.at <= now + 1 /\ d.alert.parts # {}
      BY <1>1, <2>1 DEF WellMade
    <2>3. \A f \in DOMAIN lastSent : lastSent[f] <= now + 1
      BY <1>1, <2>1 DEF WellMade
    <2> QED BY Zenon, <1>1, <2>1, <2>2, <2>3 DEF WellMade
  <1>3. ASSUME ~cut'
        PROVE  /\ Recorded(delivered', stage', alert', reached', handled', lastSent')
               /\ Cleared(delivered', stage', alert', sentTimes', now')
               /\ Counted(delivered', alert', sentTimes', now')
               /\ Apart(delivered')
               /\ Capped(delivered')
    <2>1. /\ Recorded(delivered, stage, alert, reached, handled, lastSent)
          /\ Cleared(delivered, stage, alert, sentTimes, now)
          /\ Counted(delivered, alert, sentTimes, now)
          /\ Apart(delivered) /\ Capped(delivered)
      BY <1>1, <1>3 DEF LimitsInv
    <2>2. Cleared(delivered, stage, alert, sentTimes, now + 1)
      <3> SUFFICES ASSUME NEW s \in Senders, stage[s] = "sending",
                          NEW d \in delivered, d.alert # alert[s], AlertFp(d.alert) = AlertFp(alert[s])
                   PROVE  (now + 1) - d.at >= Cooldown
        BY Zenon, <2>1 DEF Cleared
      <3>1. now - d.at >= Cooldown
        BY Zenon, <2>1 DEF Cleared
      <3> QED BY <1>1, <3>1, AlertAssumption
    <2>3. Counted(delivered, alert, sentTimes, now + 1)
      <3>1. IsFiniteSet(AlertsOf(delivered)) /\ now + 1 \in Nat /\ now <= now + 1
        BY <1>1 DEF LimitsInv, WellMade
      <3> QED BY <1>1, <2>1, <3>1, CountedStays
    <2> QED BY Zenon, <1>1, <2>1, <2>2, <2>3
  <1> QED BY Zenon, <1>2, <1>3, NextLimits

LEMMA CloseLimits ==
  ASSUME PlacesInv, LimitsInv, Close
  PROVE  LimitsInv'
  <1>0. TypeOK /\ Control
    BY DEF PlacesInv
  <1>1. /\ "closer" \in Senders /\ buffer \in Seq(Insights)
        /\ UNCHANGED << lastSent, sentTimes, now, handled, delivered >>
        /\ \A s \in Senders : stage'[s] # "sending" /\ alert'[s] = NoAlert
        /\ outbox'["closer"] = Grouped(buffer)
        /\ \A s \in Senders : s # "closer" => outbox'[s] = << >>
        /\ ~cut' => ~cut /\ \A s \in Senders : stage[s] # "sending" /\ alert[s] = NoAlert
    BY <1>0 DEF Close, limit, Senders, TypeOK, Control
  <1>2. WellMade(outbox', stage', alert', delivered', lastSent', now')
    <2>1. \A k \in 1..Len(Grouped(buffer)) : Grouped(buffer)[k].parts # {}
      BY Zenon, <1>1, Grouping
    <2>2. 1..Len(<< >>) = {}
      OBVIOUS
    <2> QED BY Zenon, <1>1, <2>1, <2>2 DEF LimitsInv, WellMade
  <1>3. ASSUME ~cut'
        PROVE  /\ Recorded(delivered', stage', alert', reached', handled', lastSent')
               /\ Cleared(delivered', stage', alert', sentTimes', now')
               /\ Counted(delivered', alert', sentTimes', now')
               /\ Apart(delivered')
               /\ Capped(delivered')
    <2>1. /\ Recorded(delivered, stage, alert, reached, handled, lastSent)
          /\ Counted(delivered, alert, sentTimes, now)
          /\ Apart(delivered) /\ Capped(delivered)
      BY <1>1, <1>3 DEF LimitsInv
    <2>2. Recorded(delivered, stage', alert', reached', handled, lastSent)
      BY Zenon, <1>1, <1>3, <2>1 DEF Recorded, InFlight
    <2>3. Cleared(delivered, stage', alert', sentTimes, now)
      BY Zenon, <1>1 DEF Cleared
    <2>4. \A t : Since(delivered, alert', t) = Since(delivered, alert, t)
      BY Zenon, <1>1, <1>3 DEF Since
    <2>5. Counted(delivered, alert', sentTimes, now)
      BY Zenon, <2>1, <2>4 DEF Counted, Done
    <2> QED BY Zenon, <1>1, <2>1, <2>2, <2>3, <2>5
  <1> QED BY Zenon, <1>2, <1>3, NextLimits

LEMMA NextAlertLimits ==
  ASSUME PlacesInv, OneCaller, LimitsInv, NEW s \in Senders, NextAlert(s)
  PROVE  LimitsInv'
  <1> DEFINE a == Head(outbox[s])
  <1>0. TypeOK /\ Control /\ WellMade(outbox, stage, alert, delivered, lastSent, now)
    BY DEF PlacesInv, LimitsInv
  <1>1. /\ outbox[s] \in Seq(Alerts) /\ outbox[s] # << >> /\ stage[s] = "next"
        /\ outbox \in [Senders -> Seq(Alerts)]
        /\ stage \in [Senders -> {"off", "next", "sending"}]
        /\ alert \in [Senders -> Alerts \cup {NoAlert}]
        /\ reached \in [Senders -> BOOLEAN]
        /\ now \in Nat /\ sentTimes \in Seq(Nat) /\ Hour \in Nat /\ MaxPerHour \in Nat
        /\ \A d \in delivered : d.at \in Nat
        /\ \A f \in DOMAIN lastSent : lastSent[f] \in Nat
    BY <1>0, AlertAssumption DEF NextAlert, TypeOK
  <1>2. \A t \in Senders : stage[t] # "sending" /\ alert[t] = NoAlert
    <2> SUFFICES ASSUME NEW t \in Senders, stage[t] = "sending" PROVE FALSE
      BY <1>0 DEF Control
    <2>1. s = t
      BY <1>1, Solo
    <2> QED BY <1>1, <2>1
  <1>3. /\ UNCHANGED << lastSent, now, delivered, cut >>
        /\ outbox' = [outbox EXCEPT ![s] = Tail(outbox[s])]
        /\ sentTimes' = IF Channels = {} THEN sentTimes ELSE Recent(sentTimes)
    BY DEF NextAlert
  <1>4. \/ /\ Allowed(a) /\ Channels # {} /\ handled' = handled
           /\ stage' = [stage EXCEPT ![s] = "sending"] /\ alert' = [alert EXCEPT ![s] = a]
        \/ handled' = handled \cup a.parts /\ UNCHANGED << stage, alert >>
    BY Zenon DEF NextAlert, Accepting
  <1>5. a = outbox[s][1] /\ 1 \in 1..Len(outbox[s]) /\ a.parts # {}
    <2>1. a = outbox[s][1] /\ 1 \in 1..Len(outbox[s])
      BY <1>1
    <2> HIDE DEF a
    <2>2. outbox[s][1].parts # {}
      BY Zenon, <1>0, <2>1 DEF WellMade
    <2> QED BY <2>1, <2>2
  <1> HIDE DEF a
  <1>6. /\ \A t \in Senders : t # s => stage'[t] # "sending" /\ alert'[t] = NoAlert
        /\ stage'[s] = "sending" => Allowed(a) /\ Channels # {} /\ alert'[s] = a
        /\ handled \subseteq handled'
    BY <1>1, <1>2, <1>4
  <1>7. WellMade(outbox', stage', alert', delivered', lastSent', now')
    <2>1. \A k \in 1..Len(outbox'[s]) : outbox'[s][k].parts # {}
      <3>1. \A k \in 1..Len(outbox'[s]) : k + 1 \in 1..Len(outbox[s]) /\ outbox'[s][k] = outbox[s][k + 1]
        BY <1>1, <1>3
      <3> QED BY Zenon, <1>0, <3>1 DEF WellMade
    <2>2. \A t \in Senders : t # s => outbox'[t] = outbox[t]
      BY <1>1, <1>3
    <2>3. \A t \in Senders : stage'[t] = "sending" => alert'[t].parts # {}
      BY Zenon, <1>5, <1>6
    <2>4. /\ \A t \in Senders : \A k \in 1..Len(outbox'[t]) : outbox'[t][k].parts # {}
      BY Zenon, <1>0, <2>1, <2>2 DEF WellMade
    <2> QED BY Zenon, <1>0, <1>3, <2>3, <2>4 DEF WellMade
  <1>8. ASSUME ~cut'
        PROVE  /\ Recorded(delivered', stage', alert', reached', handled', lastSent')
               /\ Cleared(delivered', stage', alert', sentTimes', now')
               /\ Counted(delivered', alert', sentTimes', now')
               /\ Apart(delivered')
               /\ Capped(delivered')
    <2>1. /\ Recorded(delivered, stage, alert, reached, handled, lastSent)
          /\ Counted(delivered, alert, sentTimes, now)
          /\ Apart(delivered) /\ Capped(delivered)
      BY <1>3, <1>8 DEF LimitsInv
    <2>2. \A d \in delivered : Finished(d, handled, lastSent)
      BY Zenon, <1>2, <2>1 DEF Recorded, InFlight
    <2>3. Recorded(delivered, stage', alert', reached', handled', lastSent)
      BY Zenon, <1>6, <2>2 DEF Recorded, Finished
    <2>4. Cleared(delivered, stage', alert', sentTimes', now)
      <3> SUFFICES ASSUME stage'[s] = "sending"
                   PROVE  /\ Len(sentTimes') < MaxPerHour
                          /\ \A d \in delivered : (d.alert # a /\ AlertFp(d.alert) = AlertFp(a))
                                                       => now - d.at >= Cooldown
        BY Zenon, <1>6 DEF Cleared
      <3>1. Allowed(a) /\ Channels # {}
        BY <1>6
      <3>2. Len(sentTimes') < MaxPerHour
        BY <1>3, <3>1 DEF Allowed
      <3>3. ASSUME NEW d \in delivered, AlertFp(d.alert) = AlertFp(a)
            PROVE  now - d.at >= Cooldown
        <4>1. AlertFp(a) \in DOMAIN lastSent /\ d.at <= lastSent[AlertFp(a)]
          BY Zenon, <2>2, <3>3 DEF Finished
        <4>2. now - lastSent[AlertFp(a)] >= Cooldown
          BY Zenon, <3>1, <4>1 DEF Allowed
        <4>3. lastSent[AlertFp(a)] \in Nat /\ d.at \in Nat /\ Cooldown \in Nat
          BY <1>1, <4>1, AlertAssumption
        <4> QED BY <1>1, <4>1, <4>2, <4>3
      <3> QED BY Zenon, <3>2, <3>3
    <2>5. Counted(delivered, alert', sentTimes', now)
      <3>1. ASSUME NEW t PROVE Done(delivered, alert', t) \subseteq Done(delivered, alert, t)
        <4>1. \A e \in delivered : \A u \in Senders : alert[u] # e.alert
          BY Zenon, <1>0, <1>2, AlertParts DEF WellMade
        <4> QED BY Zenon, <4>1 DEF Done, Since, AlertsOf
      <3>2. IsFiniteSet(AlertsOf(delivered))
        BY <1>0 DEF WellMade
      <3>3. CASE Channels = {}
        <4>1. sentTimes' = sentTimes /\ now <= now
          BY <1>1, <1>3, <3>3
        <4> QED BY <1>1, <2>1, <3>1, <3>2, <4>1, CountedStays
      <3>4. CASE Channels # {}
        <4>1. PICK k \in 0..Len(sentTimes) :
                  /\ Recent(sentTimes) = SubSeq(sentTimes, k + 1, Len(sentTimes))
                  /\ k # 0 => sentTimes[k] < now - Hour
          BY <1>1, RecentIsSuffix
        <4>2. sentTimes' = SubSeq(sentTimes, k + 1, Len(sentTimes))
          BY <1>3, <3>4, <4>1
        <4> QED BY <1>1, <2>1, <3>1, <3>2, <4>1, <4>2, CountedForgets
      <3> QED BY <3>3, <3>4
    <2> QED BY Zenon, <1>3, <2>1, <2>3, <2>4, <2>5
  <1> QED BY Zenon, <1>7, <1>8, NextLimits

(***************************************************************************)
(* What a reply adds to the deliveries, N, keeps the limits: the alert was  *)
(* cleared when its send began, and nothing else was sent meanwhile.       *)
(***************************************************************************)
LEMMA DeliveriesWithinLimits ==
  ASSUME NEW N, NEW s \in Senders, now \in 0..MaxTime, sentTimes \in Seq(Nat),
         \A d \in delivered : d.at \in Nat /\ d.at <= now /\ d.alert.parts # {},
         \A d \in N : d.alert = alert[s] /\ d.at = now,
         IsFiniteSet(AlertsOf(delivered)),
         stage[s] = "sending", \A t \in Senders : t # s => alert[t].parts = {},
         Cleared(delivered, stage, alert, sentTimes, now), Counted(delivered, alert, sentTimes, now),
         Apart(delivered), Capped(delivered)
  PROVE  /\ IsFiniteSet(AlertsOf(delivered \cup N))
         /\ Apart(delivered \cup N)
         /\ Capped(delivered \cup N)
  <1>1. now \in Nat /\ Cooldown \in Nat /\ Hour \in Nat /\ MaxPerHour \in Nat /\ MaxTime \in Nat
    BY AlertAssumption
  <1>2. AlertsOf(delivered \cup N) \subseteq AlertsOf(delivered) \cup {alert[s]}
    BY Zenon DEF AlertsOf
  <1>3. IsFiniteSet(AlertsOf(delivered \cup N))
    <2>1. IsFiniteSet(AlertsOf(delivered) \cup {alert[s]})
      BY Zenon, FS_AddElement
    <2> QED BY Zenon, <1>2, <2>1, FS_Subset
  <1>4. /\ Len(sentTimes) < MaxPerHour
        /\ \A d \in delivered :
              (d.alert # alert[s] /\ AlertFp(d.alert) = AlertFp(alert[s])) => now - d.at >= Cooldown
    BY Zenon DEF Cleared
  <1>5. Apart(delivered \cup N)
    <2> SUFFICES ASSUME NEW d \in delivered \cup N, NEW e \in delivered \cup N, d.alert # e.alert,
                        AlertFp(d.alert) = AlertFp(e.alert), d.at <= e.at
                 PROVE  e.at - d.at >= Cooldown
      BY Zenon DEF Apart
    <2>1. CASE d \in delivered /\ e \in delivered
      BY Zenon, <2>1 DEF Apart
    <2>2. CASE d \in delivered /\ e \in N
      <3>1. now - d.at >= Cooldown /\ e.at = now
        BY Zenon, <1>4, <2>2
      <3> QED BY <3>1
    <2>3. CASE d \in N /\ e \in delivered
      <3>1. now - e.at >= Cooldown /\ d.at = now
        BY Zenon, <1>4, <2>3
      <3>2. e.at \in Nat /\ e.at <= now
        BY <2>3
      <3> QED BY <1>1, <3>1, <3>2
    <2>4. CASE d \in N /\ e \in N
      BY <2>4
    <2> QED BY <2>1, <2>2, <2>3, <2>4
  <1>6. Capped(delivered \cup N)
    <2> SUFFICES ASSUME NEW t \in 0..MaxTime
                 PROVE  Cardinality({d.alert : d \in {e \in delivered \cup N : e.at \in t..(t + Hour)}}) <= MaxPerHour
      BY Zenon DEF Capped
    <2> DEFINE W == {d.alert : d \in {e \in delivered \cup N : e.at \in t..(t + Hour)}}
               V == {d.alert : d \in {e \in delivered : e.at \in t..(t + Hour)}}
    <2>1. CASE now \notin t..(t + Hour)
      <3>1. W = V
        BY Zenon, <2>1
      <3>2. Cardinality(V) <= MaxPerHour
        BY Zenon DEF Capped
      <3> QED BY Zenon, <3>1, <3>2
    <2>2. CASE now \in t..(t + Hour)
      <3>1. /\ t >= now - Hour /\ t \in Nat
            /\ 0 \in 0..Len(sentTimes) /\ Len(sentTimes) - 0 = Len(sentTimes) /\ Len(sentTimes) \in Nat
        BY <1>1, <2>2
      <3>2. Cardinality(Done(delivered, alert, t)) <= Len(sentTimes)
        <4>1. Cardinality(Done(delivered, alert, t)) <= Len(sentTimes) - 0
          BY Zenon, <3>1 DEF Counted
        <4> QED BY <3>1, <4>1
      <3>3. ASSUME NEW e \in delivered, e.at \in t..(t + Hour)
            PROVE  e.alert \in Done(delivered, alert, t) \cup {alert[s]}
        <4>1. e.at >= t
          BY <1>1, <3>3
        <4>2. ASSUME e.alert # alert[s] PROVE \A u \in Senders : alert[u] # e.alert
          BY Zenon, <4>2
        <4> QED BY Zenon, <4>1, <4>2 DEF Done, Since, AlertsOf
      <3>4. W \subseteq Done(delivered, alert, t) \cup {alert[s]}
        BY Zenon, <3>3
      <3>5. IsFiniteSet(Done(delivered, alert, t)) /\ Cardinality(Done(delivered, alert, t)) \in Nat
        BY Zenon, DoneIsFinite
      <3>6. /\ IsFiniteSet(Done(delivered, alert, t) \cup {alert[s]})
            /\ \/ Cardinality(Done(delivered, alert, t) \cup {alert[s]}) = Cardinality(Done(delivered, alert, t))
               \/ Cardinality(Done(delivered, alert, t) \cup {alert[s]}) = Cardinality(Done(delivered, alert, t)) + 1
        BY Zenon, <3>5, FS_AddElement
      <3> HIDE DEF W
      <3>7. IsFiniteSet(W) /\ Cardinality(W) <= Cardinality(Done(delivered, alert, t) \cup {alert[s]})
        BY Zenon, <3>4, <3>6, FS_Subset
      <3>8. Cardinality(W) \in Nat
        BY Zenon, <3>7, FS_CardinalityType
      <3>9. Cardinality(W) <= MaxPerHour
        BY <1>1, <1>4, <3>1, <3>2, <3>5, <3>6, <3>7, <3>8
      <3> QED BY <3>9 DEF W
    <2> QED BY <2>1, <2>2
  <1> QED BY <1>3, <1>5, <1>6

LEMMA ReplyLimits ==
  ASSUME PlacesInv, OneCaller, LimitsInv, NEW s \in Senders, NEW c \in Channels, NEW reply \in Replies,
         ChannelReplies(s, c, reply)
  PROVE  LimitsInv'
  <1> DEFINE x == alert[s]
             N == IF reply = "accepted" THEN {[alert |-> x, channel |-> c, at |-> now]} ELSE {}
  <1>0. TypeOK /\ Control /\ WellMade(outbox, stage, alert, delivered, lastSent, now)
    BY DEF PlacesInv, LimitsInv
  <1>1. /\ stage \in [Senders -> {"off", "next", "sending"}]
        /\ alert \in [Senders -> Alerts \cup {NoAlert}]
        /\ reached \in [Senders -> BOOLEAN] /\ reached[s] \in BOOLEAN
        /\ now \in 0..MaxTime /\ now \in Nat /\ sentTimes \in Seq(Nat)
        /\ \A d \in delivered : d.at \in Nat
        /\ \A f \in DOMAIN lastSent : lastSent[f] \in Nat
    BY <1>0, AlertAssumption DEF TypeOK
  <1>2. /\ stage[s] = "sending" /\ delivered' = delivered \cup N
        /\ UNCHANGED << outbox, now, cut >>
    BY Zenon, ReplyCases
  <1>3. \/ /\ reached' = [reached EXCEPT ![s] = @ \/ reply = "accepted"]
           /\ UNCHANGED << stage, alert, sentTimes, lastSent, handled >>
        \/ /\ stage' = [stage EXCEPT ![s] = "next"]
           /\ alert' = [alert EXCEPT ![s] = NoAlert]
           /\ handled' = handled \cup x.parts
           /\ \/ Record(x)
              \/ reply # "accepted" /\ ~reached[s] /\ UNCHANGED << sentTimes, lastSent >>
    BY ZenonT(60), ReplyCases
  <1>4. \A t \in Senders : t # s => stage[t] # "sending" /\ alert[t] = NoAlert
    <2> SUFFICES ASSUME NEW t \in Senders, t # s PROVE stage[t] # "sending"
      BY <1>0 DEF Control
    <2> QED BY <1>2, Solo
  <1>5. x.parts # {} /\ x \in Alerts /\ NoAlert.parts = {}
    BY Zenon, <1>0, <1>2, AlertParts DEF WellMade, Control
  <1>6. /\ \A d \in N : d.alert = x /\ d.at = now
        /\ reply # "accepted" => N = {}
    OBVIOUS
  <1>7. \A d \in delivered' : d.at \in Nat /\ d.at <= now /\ d.alert.parts # {}
    <2>1. \A d \in delivered : d.at \in Nat /\ d.at <= now /\ d.alert.parts # {}
      BY Zenon, <1>0, <1>1 DEF WellMade
    <2>2. \A d \in N : d.at \in Nat /\ d.at <= now /\ d.alert.parts # {}
      BY <1>1, <1>5, <1>6
    <2> HIDE DEF N, x
    <2> QED BY Zenon, <1>2, <2>1, <2>2
  <1> HIDE DEF N
  <1>8. ~cut => /\ Recorded(delivered, stage, alert, reached, handled, lastSent)
                /\ Cleared(delivered, stage, alert, sentTimes, now)
                /\ Counted(delivered, alert, sentTimes, now)
                /\ Apart(delivered) /\ Capped(delivered)
    BY DEF LimitsInv
  <1>9. IsFiniteSet(AlertsOf(delivered')) /\ IsFiniteSet(AlertsOf(delivered))
    <2>1. IsFiniteSet(AlertsOf(delivered))
      BY Zenon, <1>0 DEF WellMade
    <2>2. IsFiniteSet(AlertsOf(delivered) \cup {x})
      BY Zenon, <2>1, FS_AddElement
    <2>3. AlertsOf(delivered') \subseteq AlertsOf(delivered) \cup {x}
      BY Zenon, <1>2, <1>6 DEF AlertsOf
    <2> QED BY Zenon, <2>1, <2>2, <2>3, FS_Subset
  <1>10. ASSUME ~cut PROVE Apart(delivered') /\ Capped(delivered')
    <2>1. \A t \in Senders : t # s => alert[t].parts = {}
      BY Zenon, <1>4, <1>5
    <2>2. \A d \in delivered : d.at \in Nat /\ d.at <= now /\ d.alert.parts # {}
      BY Zenon, <1>2, <1>7
    <2>3. Apart(delivered \cup N) /\ Capped(delivered \cup N)
      <3>1. /\ Cleared(delivered, stage, alert, sentTimes, now)
            /\ Counted(delivered, alert, sentTimes, now) /\ Apart(delivered) /\ Capped(delivered)
        BY Zenon, <1>8, <1>10
      <3>2. /\ now \in 0..MaxTime /\ sentTimes \in Seq(Nat) /\ stage[s] = "sending"
            /\ \A d \in N : d.alert = x /\ d.at = now
            /\ IsFiniteSet(AlertsOf(delivered))
        BY Zenon, <1>1, <1>2, <1>6, <1>9
      <3> QED BY Zenon, <2>1, <2>2, <3>1, <3>2, DeliveriesWithinLimits
    <2> QED BY Zenon, <1>2, <2>3
  <1>11. CASE /\ reached' = [reached EXCEPT ![s] = @ \/ reply = "accepted"]
              /\ UNCHANGED << stage, alert, sentTimes, lastSent, handled >>
    <2>1. WellMade(outbox', stage', alert', delivered', lastSent', now')
      BY Zenon, <1>0, <1>2, <1>7, <1>9, <1>11 DEF WellMade
    <2>2. ASSUME ~cut
          PROVE  /\ Recorded(delivered', stage, alert, reached', handled, lastSent)
                 /\ Cleared(delivered', stage, alert, sentTimes, now)
                 /\ Counted(delivered', alert, sentTimes, now)
      <3>1. /\ \A t \in Senders : reached[t] => reached'[t]
            /\ reply = "accepted" => reached'[s]
        BY <1>1, <1>11
      <3>2. Recorded(delivered', stage, alert, reached', handled, lastSent)
        <4>1. ASSUME NEW d \in delivered PROVE InFlight(d, stage, alert, reached') \/ Finished(d, handled, lastSent)
          BY Zenon, <1>8, <2>2, <3>1 DEF Recorded, InFlight
        <4>2. ASSUME NEW d \in N PROVE InFlight(d, stage, alert, reached')
          BY Zenon, <1>2, <1>6, <3>1, <4>2 DEF InFlight
        <4> QED BY Zenon, <1>2, <4>1, <4>2 DEF Recorded
      <3>3. Cleared(delivered', stage, alert, sentTimes, now)
        <4> SUFFICES ASSUME NEW t \in Senders, stage[t] = "sending"
                     PROVE  /\ Len(sentTimes) < MaxPerHour
                            /\ \A d \in delivered' : (d.alert # alert[t] /\ AlertFp(d.alert) = AlertFp(alert[t]))
                                                        => now - d.at >= Cooldown
          BY Zenon DEF Cleared
        <4>1. t = s
          BY <1>4
        <4> QED BY Zenon, <1>2, <1>6, <1>8, <2>2, <4>1 DEF Cleared
      <3>4. \A t : Done(delivered', alert, t) \subseteq Done(delivered, alert, t)
        BY Zenon, <1>2, <1>6 DEF Done, Since, AlertsOf
      <3>5. Counted(delivered', alert, sentTimes, now)
        <4>1. now <= now
          BY <1>1
        <4> QED BY <1>1, <1>8, <1>9, <2>2, <3>4, <4>1, CountedStays
      <3> QED BY <3>2, <3>3, <3>5
    <2> QED BY Zenon, <1>2, <1>10, <1>11, <2>1, <2>2, NextLimits
  <1>12. CASE /\ stage' = [stage EXCEPT ![s] = "next"]
              /\ alert' = [alert EXCEPT ![s] = NoAlert]
              /\ handled' = handled \cup x.parts
              /\ \/ Record(x)
                 \/ reply # "accepted" /\ ~reached[s] /\ UNCHANGED << sentTimes, lastSent >>
    <2>1. \A t \in Senders : stage'[t] # "sending" /\ alert'[t] = NoAlert
      BY <1>1, <1>4, <1>12
    <2>2. \A f \in DOMAIN lastSent' : lastSent'[f] \in Nat /\ lastSent'[f] <= now
      <3>1. \A f \in DOMAIN lastSent : lastSent[f] \in Nat /\ lastSent[f] <= now
        BY Zenon, <1>0, <1>1 DEF WellMade
      <3>2. now <= now
        BY <1>1
      <3> QED BY <1>1, <1>12, <3>1, <3>2 DEF Record
    <2>3. WellMade(outbox', stage', alert', delivered', lastSent', now')
      BY Zenon, <1>0, <1>2, <1>7, <1>9, <2>1, <2>2 DEF WellMade
    <2>4. Cleared(delivered', stage', alert', sentTimes', now)
      BY Zenon, <2>1 DEF Cleared
    <2>5. \A d \in delivered : InFlight(d, stage, alert, reached) => d.alert = x /\ reached[s]
      BY Zenon, <1>4 DEF InFlight
    <2>6. \A t : Done(delivered', alert', t) \subseteq Done(delivered, alert, t) \cup {x}
      <3>1. ASSUME NEW e \in delivered', e.alert # x
            PROVE  e \in delivered /\ \A u \in Senders : alert[u] # e.alert
        BY Zenon, <1>2, <1>4, <1>5, <1>6, <1>7, <3>1
      <3> HIDE DEF x
      <3> QED BY Zenon, <3>1 DEF Done, Since, AlertsOf
    <2>7. ASSUME ~cut
          PROVE  Recorded(delivered', stage', alert', reached', handled', lastSent')
                 /\ Counted(delivered', alert', sentTimes', now)
      <3>1. CASE Record(x)
        <4>1. /\ sentTimes' = Append(sentTimes, now)
              /\ DOMAIN lastSent' = DOMAIN lastSent \cup {AlertFp(x)}
              /\ lastSent'[AlertFp(x)] = now
              /\ \A f \in DOMAIN lastSent : f # AlertFp(x) => lastSent'[f] = lastSent[f]
          BY Zenon, <3>1 DEF Record
        <4>2. ASSUME NEW d \in delivered', d.alert = x PROVE Finished(d, handled', lastSent')
          BY Zenon, <1>7, <1>12, <4>1, <4>2 DEF Finished
        <4>3. ASSUME NEW d \in delivered, Finished(d, handled, lastSent) PROVE Finished(d, handled', lastSent')
          BY Zenon, <1>2, <1>7, <1>12, <4>1, <4>3 DEF Finished
        <4>4. Recorded(delivered', stage', alert', reached', handled', lastSent')
          BY Zenon, <1>2, <1>6, <1>8, <2>5, <2>7, <4>2, <4>3 DEF Recorded
        <4>5. Counted(delivered', alert', Append(sentTimes, now), now)
          BY <1>1, <1>7, <1>8, <1>9, <2>6, <2>7, CountedGrows
        <4> QED BY Zenon, <4>1, <4>4, <4>5
      <3>2. CASE reply # "accepted" /\ ~reached[s] /\ UNCHANGED << sentTimes, lastSent >>
        <4>1. delivered' = delivered
          BY Zenon, <1>2, <1>6, <3>2
        <4>2. \A d \in delivered : Finished(d, handled, lastSent)
          BY Zenon, <1>8, <2>5, <2>7, <3>2 DEF Recorded
        <4>3. \A d \in delivered : d.alert # x
          <5> SUFFICES ASSUME NEW d \in delivered, d.alert = x PROVE FALSE
            OBVIOUS
          <5>1. PICK i : i \in x.parts
            BY Zenon, <1>5
          <5>2. i \in handled /\ Sent(alert, i)
            BY Zenon, <4>2, <5>1 DEF Finished, Sent
          <5>3. i \in Insights
            BY Zenon, <1>5, <5>1, AlertParts
          <5> QED BY Zenon, <5>2, <5>3 DEF PlacesInv, InPlace, AtMostOnce
        <4>4. Recorded(delivered', stage', alert', reached', handled', lastSent')
          BY Zenon, <1>12, <3>2, <4>1, <4>2 DEF Recorded, Finished
        <4>5. \A t : Done(delivered', alert', t) \subseteq Done(delivered, alert, t)
          <5>1. \A t : x \notin Done(delivered', alert', t)
            BY Zenon, <4>1, <4>3 DEF Done, Since, AlertsOf
          <5> QED BY Zenon, <2>6, <5>1
        <4>6. Counted(delivered', alert', sentTimes, now)
          <5>1. now <= now
            BY <1>1
          <5> QED BY <1>1, <1>8, <1>9, <2>7, <4>5, <5>1, CountedStays
        <4> QED BY Zenon, <3>2, <4>4, <4>6
      <3> QED BY Zenon, <1>12, <3>1, <3>2
    <2> QED BY Zenon, <1>2, <1>10, <2>3, <2>4, <2>7, NextLimits
  <1> QED BY Zenon, <1>3, <1>11, <1>12

LEMMA LimitsStep ==
  ASSUME OneCaller, PlacesInv, LimitsInv, [Next]_vars
  PROVE  LimitsInv'
  <1>0. TypeOK /\ WellMade(outbox, stage, alert, delivered, lastSent, now)
    BY DEF PlacesInv, LimitsInv
  <1>1. /\ stage \in [Senders -> {"off", "next", "sending"}]
        /\ outbox \in [Senders -> Seq(Alerts)] /\ buffer \in Seq(Insights)
        /\ \A s \in Senders : \A k \in 1..Len(outbox[s]) : outbox[s][k].parts # {}
        /\ "flusher" \in Senders /\ Callers \subseteq Senders
    BY <1>0 DEF TypeOK, WellMade, Senders
  <1>2. ASSUME NEW i \in Insights, Dispatch(i) PROVE LimitsInv'
    BY Zenon, <1>1, <1>2, LimitsStay DEF Dispatch, sending, limit
  <1>3. ASSUME NEW c \in Callers, NEW i \in Insights, DispatchDirect(c, i) PROVE LimitsInv'
    <2>1. \A s \in Senders : stage'[s] = "sending" <=> stage[s] = "sending"
      BY <1>1, <1>3 DEF DispatchDirect
    <2>2. outbox'[c] = << Single(i) >> /\ \A s \in Senders : s # c => outbox'[s] = outbox[s]
      BY <1>1, <1>3 DEF DispatchDirect
    <2>3. 1..Len(<< Single(i) >>) = {1} /\ << Single(i) >>[1] = Single(i)
      OBVIOUS
    <2>4. Single(i).parts # {}
      BY AlertParts
    <2>5. \A s \in Senders : \A k \in 1..Len(outbox'[s]) : outbox'[s][k].parts # {}
      BY Zenon, <1>1, <2>2, <2>3, <2>4
    <2> QED BY Zenon, <1>3, <2>1, <2>5, LimitsStay DEF DispatchDirect, limit
  <1>4. CASE WindowElapses
    <2>1. \A s \in Senders : stage'[s] = "sending" <=> stage[s] = "sending"
      BY <1>0, <1>1, <1>4 DEF WindowElapses, Drain, PlacesInv, Control
    <2>2. outbox'["flusher"] = Grouped(buffer) /\ \A s \in Senders : s # "flusher" => outbox'[s] = outbox[s]
      BY <1>1, <1>4 DEF WindowElapses, Drain
    <2>3. \A k \in 1..Len(Grouped(buffer)) : Grouped(buffer)[k].parts # {}
      BY Zenon, <1>1, Grouping
    <2>4. \A s \in Senders : \A k \in 1..Len(outbox'[s]) : outbox'[s][k].parts # {}
      BY Zenon, <1>1, <2>2, <2>3
    <2> QED BY Zenon, <1>4, <2>1, <2>4, LimitsStay DEF WindowElapses, Drain, limit, history
  <1>5. ASSUME NEW s \in Senders, SenderEnds(s) PROVE LimitsInv'
    <2>1. \A t \in Senders : stage'[t] = "sending" <=> stage[t] = "sending"
      BY <1>1, <1>5 DEF SenderEnds
    <2> QED BY Zenon, <1>1, <1>5, <2>1, LimitsStay DEF SenderEnds, limit, history
  <1>6. CASE UNCHANGED vars
    BY Zenon, <1>1, <1>6, LimitsStay DEF vars, sending, limit, history
  <1> QED BY <1>2, <1>3, <1>4, <1>5, <1>6, TickLimits, CloseLimits, NextAlertLimits, ReplyLimits
          DEF Next, SenderStep

(***************************************************************************)
(* With one caller at most, what was delivered in the last hour and is no  *)
(* longer being sent is counted by sent_times, and what is being sent was  *)
(* found below the limits by allow().                                      *)
(***************************************************************************)
THEOREM LimitsInvariant ==
  ASSUME OneCaller
  PROVE  Spec => []LimitsInv
  <1>1. PlacesInv /\ LimitsInv /\ [Next]_vars => LimitsInv'
    BY LimitsStep
  <1> QED BY <1>1, LimitsInit, PlacesInvariant, PTL DEF Spec

(***************************************************************************)
(* The hard cap: no stretch of an hour sees more than max_alerts_per_hour  *)
(* alerts delivered, although allow() is asked before the sends and record *)
(* is made after them.                                                     *)
(***************************************************************************)
THEOREM CapHolds ==
  ASSUME OneCaller
  PROVE  Spec => []HardCap
  <1>1. LimitsInv => HardCap
    BY Zenon DEF LimitsInv, HardCap, Capped
  <1> QED BY <1>1, LimitsInvariant, PTL

(***************************************************************************)
(* Two alerts of one fingerprint are delivered at least a cooldown apart.  *)
(***************************************************************************)
THEOREM CooldownHolds ==
  ASSUME OneCaller
  PROVE  Spec => []FingerprintCooldown
  <1>1. LimitsInv => FingerprintCooldown
    BY Zenon DEF LimitsInv, FingerprintCooldown, Apart
  <1> QED BY <1>1, LimitsInvariant, PTL
=============================================================================
