-------------------------- MODULE LlmProviderProofs --------------------------
(***************************************************************************)
(* Theorems about LlmProvider and the breaker it drives, for every set of  *)
(* passes and direct callers, every budget, threshold and list of          *)
(* cooldowns.                                                              *)
(***************************************************************************)
EXTENDS LlmProvider, FiniteSetTheorems, TLAPS

(***************************************************************************)
(* The breaker and the history kept beside it tell the same: the run of    *)
(* soft failures is its count (up to the bound of the history), the        *)
(* cooldown owed is what is left of its own, one that is not open owes     *)
(* none, and it is open for one of the two reasons.                        *)
(***************************************************************************)
Agreement ==
    /\ softRun = IF breaker.soft < MaxStreak THEN breaker.soft ELSE MaxStreak
    /\ cooling = breaker.left
    /\ ~breaker.opened => breaker.left = 0
    /\ breaker.opened <=> (breaker.soft >= SoftThreshold \/ breaker.hard > 0)

BreakerInv == TypeOK /\ Agreement

LEMMA HardCooldownNat == \A n \in Nat : HardCooldown(n) \in Nat \ {0}
  <1> TAKE n \in Nat
  <1>1. HardCooldowns \in Seq(Nat \ {0}) /\ Len(HardCooldowns) \in Nat \ {0}
    BY BreakerAssumption
  <1>2. CASE n + 1 <= Len(HardCooldowns)
    BY <1>1, <1>2 DEF HardCooldown
  <1>3. CASE ~(n + 1 <= Len(HardCooldowns))
    BY <1>1, <1>3 DEF HardCooldown
  <1> QED BY <1>2, <1>3

LEMMA InvAtStart ==
  ASSUME breaker = Closed, calling = {}, cooling = 0, softRun = 0
  PROVE  BreakerInv
  BY BreakerAssumption, MaxStreakAssumption
  DEF BreakerInv, TypeOK, Agreement, Closed, Breakers, Runs

LEMMA InvAdmitted ==
  ASSUME BreakerInv, NEW p \in Passes, PassAdmitted(p)
  PROVE  BreakerInv'
  <1>1. CASE breaker.opened
    BY <1>1, BreakerAssumption, MaxStreakAssumption
    DEF BreakerInv, TypeOK, Agreement, PassAdmitted, IsOpen, Expired, AfterIsOpen, Closed, Breakers, Runs
  <1>2. CASE ~breaker.opened
    BY <1>2 DEF BreakerInv, TypeOK, Agreement, PassAdmitted, IsOpen, Expired, AfterIsOpen, Closed, Breakers, Runs
  <1> QED BY <1>1, <1>2

LEMMA InvEnds ==
  ASSUME BreakerInv, NEW p \in Passes, NEW o \in Outcomes, PassEnds(p, o)
  PROVE  BreakerInv'
  <1> USE BreakerAssumption, MaxStreakAssumption
  <1>1. calling' \in SUBSET Passes
    BY DEF PassEnds, BreakerInv, TypeOK
  <1>2. CASE o \in {"ok", "transient"}
    <2>1. breaker' = Closed /\ cooling' = 0 /\ softRun' = 0
      BY <1>2 DEF PassEnds, Recorded, RecordSuccess, CoolingAfter
    <2> QED BY <1>1, <2>1 DEF BreakerInv, TypeOK, Agreement, Closed, Breakers, Runs
  <1>3. CASE o = "hard"
    <2> DEFINE n    == breaker.hard + 1
               left == HardCooldown(breaker.hard)
               open == TRUE
    <2>1. /\ breaker' = [breaker EXCEPT !.hard = n, !.opened = open, !.left = left]
          /\ cooling' = left /\ softRun' = softRun
      BY <1>3, Zenon DEF PassEnds, Recorded, CoolingAfter, RecordHardFailure
    <2>2. breaker.hard \in Nat
      BY DEF BreakerInv, TypeOK, Breakers
    <2>3. n \in Nat /\ n > 0 /\ left \in Nat
      <3>1. left \in Nat
        BY <2>2, HardCooldownNat
      <3>2. n \in Nat /\ n > 0
        BY <2>2
      <3> QED BY <3>1, <3>2
    <2>4. open \in BOOLEAN /\ open
      OBVIOUS
    <2> HIDE DEF n, left, open
    <2>5. /\ breaker' \in Breakers
          /\ breaker'.soft = breaker.soft /\ breaker'.hard = n
          /\ breaker'.left = left
      BY <2>1, <2>3, <2>4 DEF BreakerInv, TypeOK, Breakers
    <2>6. breaker'.opened = open
      BY <2>1 DEF BreakerInv, TypeOK, Breakers
    <2>7. TypeOK'
      BY <1>1, <2>1, <2>3, <2>5 DEF BreakerInv, TypeOK, Runs
    <2> QED BY <2>1, <2>3, <2>4, <2>5, <2>6, <2>7 DEF BreakerInv, TypeOK, Agreement, Breakers
  <1>4. CASE o \in {"invalid", "other"}
    <2> DEFINE n     == breaker.soft + 1
               opens == n >= SoftThreshold /\ ~breaker.opened
               open  == breaker.opened \/ opens
               left  == IF opens THEN SoftCooldown ELSE breaker.left
    <2>1. /\ breaker' = [breaker EXCEPT !.soft = n, !.opened = open, !.left = left]
          /\ softRun' = Longer(softRun)
          /\ cooling' = IF softRun + 1 >= SoftThreshold /\ ~breaker.opened THEN SoftCooldown ELSE cooling
      BY <1>4, Zenon DEF PassEnds, Recorded, CoolingAfter, RecordSoftFailure
    <2>2. softRun + 1 >= SoftThreshold <=> n >= SoftThreshold
      BY DEF BreakerInv, TypeOK, Agreement, Breakers
    <2>3. n \in Nat /\ left \in Nat /\ open \in BOOLEAN /\ cooling' = left
      BY <2>1, <2>2 DEF BreakerInv, TypeOK, Agreement, Breakers
    <2>4. softRun' = IF n < MaxStreak THEN n ELSE MaxStreak
      BY <2>1 DEF BreakerInv, TypeOK, Agreement, Breakers, Longer, Runs
    <2>5. open <=> (n >= SoftThreshold \/ breaker.hard > 0)
      BY DEF BreakerInv, TypeOK, Agreement, Breakers
    <2>6. ~open => left = 0
      BY DEF BreakerInv, TypeOK, Agreement, Breakers
    <2> HIDE DEF n, open, left
    <2>7. /\ breaker' \in Breakers
          /\ breaker'.soft = n /\ breaker'.hard = breaker.hard
          /\ breaker'.left = left
      BY <2>1, <2>3 DEF BreakerInv, TypeOK, Breakers
    <2>8. breaker'.opened = open
      BY <2>1 DEF BreakerInv, TypeOK, Breakers
    <2>9. TypeOK'
      BY <1>1, <2>3, <2>4, <2>7, MaxStreakAssumption DEF BreakerInv, TypeOK, Runs
    <2> QED BY <2>3, <2>4, <2>5, <2>6, <2>7, <2>8, <2>9 DEF BreakerInv, Agreement
  <1> QED BY <1>2, <1>3, <1>4 DEF Outcomes

LEMMA InvTick ==
  ASSUME BreakerInv, Tick
  PROVE  BreakerInv'
  BY DEF BreakerInv, TypeOK, Agreement, Tick, Elapse, Breakers, Runs

LEMMA InvStutters ==
  ASSUME BreakerInv, UNCHANGED vars
  PROVE  BreakerInv'
  BY DEF BreakerInv, TypeOK, Agreement, vars
-----------------------------------------------------------------------------
(***************************************************************************)
(* The attempts that the calls in progress may still make, of every caller *)
(* three at most.  What has been consumed and what may still be, together, *)
(* stays below the budget by as much as they are fewer.                    *)
(***************************************************************************)
Slots == Callers \X (1..Attempts)
Ahead ==
    {s \in Slots : \/ stage[s[1]] = "daily"
                   \/ stage[s[1]] = "attempt" /\ s[2] >= tries[s[1]]}

Accounted == used + Cardinality(Ahead) <= Budget - 1 + Cardinality(Slots)

ProviderInv ==
    /\ LlmTypeOK /\ Agreement
    /\ \A c \in Callers : stage[c] = "attempt" => tries[c] # 0
    /\ Accounted

LEMMA SlotsCount == IsFiniteSet(Slots) /\ Cardinality(Slots) = Attempts * Cardinality(Callers)
  <1>1. IsFiniteSet(Callers) /\ Cardinality(Callers) \in Nat
    BY BudgetAssumption, FS_CardinalityType DEF Callers
  <1>2. IsFiniteSet(1..Attempts) /\ Cardinality(1..Attempts) = Attempts
    <2>1. 1 \in Int /\ Attempts \in Int /\ Attempts = 3
      BY DEF Attempts
    <2> HIDE DEF Attempts
    <2>2. /\ IsFiniteSet(1..Attempts)
          /\ Cardinality(1..Attempts) = IF 1 > Attempts THEN 0 ELSE Attempts - 1 + 1
      BY <2>1, FS_Interval, Zenon
    <2> QED BY <2>1, <2>2
  <1>3. IsFiniteSet(Slots) /\ Cardinality(Slots) = Cardinality(Callers) * Cardinality(1..Attempts)
    BY <1>1, <1>2, FS_Product DEF Slots
  <1> QED BY <1>1, <1>2, <1>3 DEF Attempts

\* No step adds to what may still be consumed but one that finds the budget
\* not used up, and what is consumed is taken from it.
LEMMA AccountedStep ==
  ASSUME ProviderInv, used' \in Nat,
         \/ used' = used /\ Ahead' \subseteq Ahead
         \/ used' = used + 1 /\ \E s \in Ahead : Ahead' \subseteq Ahead \ {s}
         \/ used' < Budget
  PROVE  Accounted'
  <1> USE BudgetAssumption DEF ProviderInv, LlmTypeOK
  <1>1. Ahead \subseteq Slots /\ Ahead' \subseteq Slots
    BY DEF Ahead
  <1>2. /\ IsFiniteSet(Ahead) /\ IsFiniteSet(Ahead')
        /\ Cardinality(Ahead) \in Nat /\ Cardinality(Ahead') \in Nat /\ Cardinality(Slots) \in Nat
        /\ Cardinality(Ahead') <= Cardinality(Slots)
    BY <1>1, SlotsCount, FS_Subset, FS_CardinalityType, SMTT(30)
  <1>3. Slots' = Slots
    BY DEF Slots, Callers
  <1>4. CASE used' = used /\ Ahead' \subseteq Ahead
    <2>1. Cardinality(Ahead') <= Cardinality(Ahead)
      BY <1>2, <1>4, FS_Subset
    <2> QED BY <1>2, <1>3, <1>4, <2>1 DEF Accounted
  <1>5. CASE used' = used + 1 /\ \E s \in Ahead : Ahead' \subseteq Ahead \ {s}
    <2>1. PICK s \in Ahead : Ahead' \subseteq Ahead \ {s}
      BY <1>5
    <2>2. IsFiniteSet(Ahead \ {s}) /\ Cardinality(Ahead \ {s}) = Cardinality(Ahead) - 1
      BY <1>2, FS_RemoveElement
    <2>3. Cardinality(Ahead') <= Cardinality(Ahead) - 1
      BY <2>1, <2>2, FS_Subset
    <2> QED BY <1>2, <1>3, <1>5, <2>3 DEF Accounted
  <1>6. CASE used' < Budget
    BY <1>2, <1>3, <1>6 DEF Accounted
  <1> QED BY <1>4, <1>5, <1>6

\* A caller that is moved to a stage without attempts has none ahead, and the
\* others have those they had.
LEMMA MovedOn ==
  ASSUME LlmTypeOK, NEW c \in Callers, NEW s \in Stages \ {"daily", "attempt"},
         stage' = [stage EXCEPT ![c] = s],
         tries' = tries \/ tries' = [tries EXCEPT ![c] = 0]
  PROVE  /\ stage' \in [Callers -> Stages] /\ tries' \in [Callers -> 0..Attempts]
         /\ Ahead' \subseteq Ahead
         /\ \A d \in Callers : stage'[d] = "attempt" => stage[d] = "attempt" /\ tries'[d] = tries[d]
  <1>1. stage' \in [Callers -> Stages] /\ tries' \in [Callers -> 0..Attempts]
    BY DEF LlmTypeOK, Attempts
  <1>2. \A d \in Callers : d # c => stage'[d] = stage[d] /\ tries'[d] = tries[d]
    BY DEF LlmTypeOK
  <1>3. stage'[c] = s
    BY DEF LlmTypeOK
  <1>4. ASSUME NEW x \in Ahead' PROVE x \in Ahead
    BY <1>2, <1>3, <1>4 DEF Ahead, Slots, Callers
  <1> QED BY <1>1, <1>2, <1>3, <1>4

\* The breaker's part of the end of a call.
LEMMA EndedCall ==
  ASSUME ProviderInv, NEW c \in Callers, NEW o \in Outcomes, stage[c] # "out", Ends(c, o)
  PROVE  /\ BreakerInv'
         /\ stage' = [stage EXCEPT ![c] = "out"] /\ tries' = [tries EXCEPT ![c] = 0]
         /\ \A p \in Passes : p \in calling' <=> stage'[p] # "out"
         /\ stage' \in [Callers -> Stages] /\ tries' \in [Callers -> 0..Attempts]
         /\ Ahead' \subseteq Ahead
         /\ \A d \in Callers : stage'[d] = "attempt" => tries'[d] # 0
  <1> USE DEF ProviderInv
  <1>1. BreakerInv
    BY DEF BreakerInv, LlmTypeOK
  <1>2. stage' = [stage EXCEPT ![c] = "out"] /\ tries' = [tries EXCEPT ![c] = 0]
    BY DEF Ends
  <1>3. /\ stage' \in [Callers -> Stages] /\ tries' \in [Callers -> 0..Attempts]
        /\ Ahead' \subseteq Ahead
        /\ \A d \in Callers : stage'[d] = "attempt" => tries'[d] # 0
    BY <1>2, MovedOn DEF Stages
  <1>4. CASE c \in Passes
    <2>1. PassEnds(c, o)
      BY <1>4 DEF Ends
    <2>2. BreakerInv'
      BY <1>1, <1>4, <2>1, InvEnds
    <2>3. \A p \in Passes : p \in calling' <=> stage'[p] # "out"
      BY <1>2, <2>1 DEF PassEnds, LlmTypeOK, Callers
    <2> QED BY <1>2, <1>3, <2>2, <2>3
  <1>5. CASE c \notin Passes
    <2>1. UNCHANGED vars
      BY <1>5 DEF Ends
    <2>2. BreakerInv'
      BY <1>1, <2>1, InvStutters
    <2>3. \A p \in Passes : p \in calling' <=> stage'[p] # "out"
      BY <1>2, <1>5, <2>1 DEF vars, LlmTypeOK, Callers
    <2> QED BY <1>2, <1>3, <2>2, <2>3
  <1> QED BY <1>4, <1>5

\* A step that ends a call.
LEMMA EndsKeeps ==
  ASSUME ProviderInv, NEW c \in Callers, NEW o \in Outcomes, stage[c] # "out", Ends(c, o),
         used' \in Nat, recorded' \in 0..Budget, days' \in 0..MaxDays,
         \/ used' = used
         \/ used' = used + 1 /\ \E x \in Ahead : Ahead' \subseteq Ahead \ {x}
  PROVE  ProviderInv'
  <1>1. /\ BreakerInv'
        /\ \A p \in Passes : p \in calling' <=> stage'[p] # "out"
        /\ stage' \in [Callers -> Stages] /\ tries' \in [Callers -> 0..Attempts]
        /\ Ahead' \subseteq Ahead
        /\ \A d \in Callers : stage'[d] = "attempt" => tries'[d] # 0
    BY EndedCall
  <1>2. Accounted'
    BY <1>1, AccountedStep
  <1> QED BY <1>1, <1>2 DEF ProviderInv, LlmTypeOK, BreakerInv, Callers

\* A step within a call, of which the breaker hears nothing.
LEMMA WithinCallKeeps ==
  ASSUME ProviderInv, UNCHANGED vars,
         stage' \in [Callers -> Stages], tries' \in [Callers -> 0..Attempts],
         \A p \in Passes : stage'[p] # "out" <=> stage[p] # "out",
         \A d \in Callers : stage'[d] = "attempt" => tries'[d] # 0,
         used' \in Nat, recorded' \in 0..Budget, days' \in 0..MaxDays,
         \/ used' = used /\ Ahead' \subseteq Ahead
         \/ used' = used + 1 /\ \E x \in Ahead : Ahead' \subseteq Ahead \ {x}
         \/ used' < Budget
  PROVE  ProviderInv'
  <1>1. BreakerInv'
    BY InvStutters DEF ProviderInv, LlmTypeOK, BreakerInv
  <1>2. Accounted'
    BY AccountedStep
  <1> QED BY <1>1, <1>2 DEF ProviderInv, LlmTypeOK, BreakerInv, Callers, vars
-----------------------------------------------------------------------------
LEMMA EnterKeeps ==
  ASSUME ProviderInv, NEW c \in Callers, Enter(c)
  PROVE  ProviderInv'
  <1> USE DEF ProviderInv
  <1>1. /\ stage[c] = "out" /\ stage' = [stage EXCEPT ![c] = "in"] /\ tries' = tries
        /\ used' = used /\ recorded' = recorded /\ days' = days
    BY DEF Enter, To, usage
  <1>2. /\ stage' \in [Callers -> Stages] /\ tries' \in [Callers -> 0..Attempts]
        /\ Ahead' \subseteq Ahead
        /\ \A d \in Callers : stage'[d] = "attempt" => tries'[d] # 0
    BY <1>1, MovedOn DEF Stages
  <1>3. Accounted'
    BY <1>1, <1>2, AccountedStep DEF LlmTypeOK
  <1>4. BreakerInv' /\ \A p \in Passes : p \in calling' <=> stage'[p] # "out"
    <2>1. CASE c \in Passes
      <3>1. PassAdmitted(c)
        BY <2>1 DEF Enter
      <3>2. BreakerInv'
        BY <2>1, <3>1, InvAdmitted DEF BreakerInv, LlmTypeOK
      <3> QED BY <1>1, <3>1, <3>2 DEF PassAdmitted, LlmTypeOK, Callers
    <2>2. CASE c \notin Passes
      <3>1. UNCHANGED vars
        BY <2>2 DEF Enter
      <3>2. BreakerInv'
        BY <3>1, InvStutters DEF BreakerInv, LlmTypeOK
      <3> QED BY <1>1, <2>2, <3>1, <3>2 DEF vars, LlmTypeOK, Callers
    <2> QED BY <2>1, <2>2
  <1> QED BY <1>1, <1>2, <1>3, <1>4 DEF LlmTypeOK, BreakerInv, Callers

\* Whether or not the failure can be noted, the call ends.
LEMMA FailureEnds ==
  ASSUME NEW c, NEW o \in Outcomes, Fails(c, o)
  PROVE  \E r \in Outcomes : Ends(c, r)
  <1>1. "other" \in Outcomes
    BY DEF Outcomes
  <1> QED BY <1>1, Zenon DEF Fails

LEMMA AskKeeps ==
  ASSUME ProviderInv, NEW c \in Callers, Ask(c)
  PROVE  ProviderInv'
  <1> USE DEF ProviderInv
  <1>1. stage[c] = "in" /\ used' = used /\ recorded' = recorded /\ days' = days
    BY DEF Ask, usage
  <1>2. used' \in Nat /\ recorded' \in 0..Budget /\ days' \in 0..MaxDays
    BY <1>1 DEF LlmTypeOK
  <1>3. CASE OverProcessBudget
    <2>1. Fails(c, "hard") /\ "hard" \in Outcomes
      BY <1>3, Zenon DEF Ask, Outcomes
    <2>2. PICK r \in Outcomes : Ends(c, r)
      BY <2>1, FailureEnds, Zenon
    <2>3. stage[c] # "out"
      BY <1>1
    <2> QED BY <1>1, <1>2, <2>2, <2>3, EndsKeeps
  <1>4. CASE ~OverProcessBudget
    <2>1. stage' = [stage EXCEPT ![c] = "daily"] /\ tries' = tries /\ UNCHANGED vars
      BY <1>4 DEF Ask, To
    <2>2. used' < Budget
      BY <1>1, <1>4, BudgetAssumption DEF OverProcessBudget, LlmTypeOK
    <2>3. /\ stage' \in [Callers -> Stages] /\ tries' \in [Callers -> 0..Attempts]
          /\ \A p \in Passes : stage'[p] # "out" <=> stage[p] # "out"
          /\ \A d \in Callers : stage'[d] = "attempt" => tries'[d] # 0
      BY <1>1, <2>1 DEF LlmTypeOK, Stages, Callers
    <2> QED BY <1>2, <2>1, <2>2, <2>3, WithinCallKeeps
  <1> QED BY <1>3, <1>4

\* An attempt begins that was ahead: the one the caller asked for, or the next.
LEMMA TriedOn ==
  ASSUME ProviderInv, NEW c \in Callers, NEW n \in 1..Attempts, Try(c, n),
         \/ stage[c] = "daily"
         \/ stage[c] = "attempt" /\ tries[c] <= n
  PROVE  /\ stage' \in [Callers -> Stages] /\ tries' \in [Callers -> 0..Attempts]
         /\ \A p \in Passes : stage'[p] # "out" <=> stage[p] # "out"
         /\ \A d \in Callers : stage'[d] = "attempt" => tries'[d] # 0
         /\ Ahead' \subseteq Ahead
         /\ \A k \in 1..Attempts : k < n => << c, k >> \notin Ahead'
  <1> USE DEF ProviderInv, LlmTypeOK
  <1>1. stage' = [stage EXCEPT ![c] = "attempt"] /\ tries' = [tries EXCEPT ![c] = n]
    BY DEF Try
  <1>2. n \in Int /\ n # 0 /\ n \in 0..Attempts
    BY DEF Attempts
  <1>3. \A d \in Callers : d # c => stage'[d] = stage[d] /\ tries'[d] = tries[d]
    BY <1>1
  <1>4. stage'[c] = "attempt" /\ tries'[c] = n
    BY <1>1
  <1>5. /\ stage' \in [Callers -> Stages] /\ tries' \in [Callers -> 0..Attempts]
        /\ \A p \in Passes : stage'[p] # "out" <=> stage[p] # "out"
        /\ \A d \in Callers : stage'[d] = "attempt" => tries'[d] # 0
    BY <1>1, <1>2, <1>3, <1>4 DEF Stages, Callers
  <1>6. ASSUME NEW x \in Ahead' PROVE x \in Ahead
    <2>1. x \in Slots /\ x[1] \in Callers /\ x[2] \in Int
      BY <1>6 DEF Ahead, Slots, Callers, Attempts
    <2>2. CASE x[1] # c
      BY <1>3, <1>6, <2>1, <2>2 DEF Ahead
    <2>3. CASE x[1] = c
      <3>1. x[2] >= n
        BY <1>4, <1>6, <2>3 DEF Ahead
      <3>2. stage[c] = "attempt" => tries[c] \in Int /\ x[2] >= tries[c]
        BY <1>2, <2>1, <3>1 DEF Attempts
      <3> QED BY <2>1, <2>3, <3>2 DEF Ahead
    <2> QED BY <2>2, <2>3
  <1>7. ASSUME NEW k \in 1..Attempts, k < n PROVE << c, k >> \notin Ahead'
    BY <1>2, <1>4, <1>7 DEF Ahead, Attempts
  <1> QED BY <1>5, <1>6, <1>7

LEMMA AskDailyKeeps ==
  ASSUME ProviderInv, NEW c \in Callers, AskDaily(c)
  PROVE  ProviderInv'
  <1>1. stage[c] = "daily" /\ used' = used /\ recorded' = recorded /\ days' = days
    BY DEF AskDaily, usage
  <1>2. used' \in Nat /\ recorded' \in 0..Budget /\ days' \in 0..MaxDays
    BY <1>1 DEF ProviderInv, LlmTypeOK
  <1>3. CASE Fails(c, "hard")
    <2>1. "hard" \in Outcomes
      BY DEF Outcomes
    <2>2. PICK r \in Outcomes : Ends(c, r)
      BY <1>3, <2>1, FailureEnds, Zenon
    <2>3. stage[c] # "out"
      BY <1>1
    <2> QED BY <1>1, <1>2, <2>2, <2>3, EndsKeeps
  <1>4. CASE Try(c, 1) /\ UNCHANGED vars
    <2>1. PICK n \in 1..Attempts : Try(c, n)
      BY <1>4 DEF Attempts
    <2>2. /\ stage' \in [Callers -> Stages] /\ tries' \in [Callers -> 0..Attempts]
          /\ \A p \in Passes : stage'[p] # "out" <=> stage[p] # "out"
          /\ \A d \in Callers : stage'[d] = "attempt" => tries'[d] # 0
          /\ Ahead' \subseteq Ahead
      BY <1>1, <2>1, TriedOn
    <2> QED BY <1>1, <1>2, <1>4, <2>2, WithinCallKeeps
  <1> QED BY <1>3, <1>4, Zenon DEF AskDaily

LEMMA AttemptKeeps ==
  ASSUME ProviderInv, NEW c \in Callers, Attempt(c)
  PROVE  ProviderInv'
  <1> USE DEF ProviderInv
  <1> DEFINE x == << c, tries[c] >>
  <1>1. stage[c] = "attempt" /\ recorded' = recorded /\ days' = days
    BY DEF Attempt
  <1>2. PICK o \in Answers :
          /\ IF o \in Replies THEN Spend ELSE UNCHANGED used
          /\ CASE o = "object" /\ c \in Passes -> To(c, "record") /\ UNCHANGED vars
               [] o = "object" /\ c \in Direct -> Ends(c, "ok")
               [] o = "hard"                   -> Fails(c, "hard")
               [] o \in {"soft", "no object"}  -> Again(c)
    BY Zenon DEF Attempt
  <1>3. used' = used \/ used' = used + 1
    BY <1>2 DEF Spend
  <1>4. used' \in Nat /\ recorded' \in 0..Budget /\ days' \in 0..MaxDays
    BY <1>1, <1>3 DEF LlmTypeOK
  <1>5. tries[c] \in 1..Attempts /\ x \in Ahead
    <2>1. tries[c] \in 0..Attempts /\ tries[c] # 0
      BY <1>1 DEF LlmTypeOK
    <2>2. tries[c] \in 1..Attempts /\ tries[c] >= tries[c]
      BY <2>1 DEF Attempts
    <2> QED BY <1>1, <2>2 DEF Ahead, Slots
  <1>6. ASSUME NEW r \in Outcomes, Ends(c, r) PROVE ProviderInv'
    <2>1. Ahead' \subseteq Ahead /\ stage' = [stage EXCEPT ![c] = "out"]
      BY <1>1, <1>6, EndedCall
    <2>2. x \notin Ahead'
      BY <2>1 DEF Ahead, LlmTypeOK
    <2> HIDE DEF x
    <2>3. \/ used' = used
          \/ used' = used + 1 /\ \E y \in Ahead : Ahead' \subseteq Ahead \ {y}
      BY <1>3, <1>5, <2>1, <2>2
    <2> QED BY <1>1, <1>4, <1>6, <2>3, EndsKeeps
  <1>7. ASSUME To(c, "record"), UNCHANGED vars PROVE ProviderInv'
    <2>1. stage' = [stage EXCEPT ![c] = "record"] /\ tries' = tries
      BY <1>7 DEF To
    <2>2. /\ stage' \in [Callers -> Stages] /\ tries' \in [Callers -> 0..Attempts]
          /\ Ahead' \subseteq Ahead
          /\ \A d \in Callers : stage'[d] = "attempt" => tries'[d] # 0
      BY <2>1, MovedOn DEF Stages
    <2>3. x \notin Ahead'
      BY <2>1 DEF Ahead, LlmTypeOK
    <2>4. \A p \in Passes : stage'[p] # "out" <=> stage[p] # "out"
      BY <1>1, <2>1 DEF LlmTypeOK, Callers
    <2> HIDE DEF x
    <2>5. \/ used' = used /\ Ahead' \subseteq Ahead
          \/ used' = used + 1 /\ \E y \in Ahead : Ahead' \subseteq Ahead \ {y}
      BY <1>3, <1>5, <2>2, <2>3
    <2> QED BY <1>4, <1>7, <2>2, <2>4, <2>5, WithinCallKeeps
  <1>8. ASSUME Again(c) PROVE ProviderInv'
    <2>1. CASE NextAttempt(tries[c]) > Attempts
      <3>1. Fails(c, "transient") /\ "transient" \in Outcomes
        BY <1>8, <2>1, Zenon DEF Again, Outcomes
      <3> QED BY <1>6, <3>1, FailureEnds, Zenon
    <2>2. CASE ~(NextAttempt(tries[c]) > Attempts)
      <3>1. Try(c, NextAttempt(tries[c])) /\ UNCHANGED vars
        BY <1>8, <2>2 DEF Again
      <3>2. /\ NextAttempt(tries[c]) \in 1..Attempts
            /\ tries[c] <= NextAttempt(tries[c]) /\ tries[c] < NextAttempt(tries[c])
        BY <1>5, <2>2 DEF NextAttempt, Attempts
      <3>3. /\ stage' \in [Callers -> Stages] /\ tries' \in [Callers -> 0..Attempts]
            /\ \A p \in Passes : stage'[p] # "out" <=> stage[p] # "out"
            /\ \A d \in Callers : stage'[d] = "attempt" => tries'[d] # 0
            /\ Ahead' \subseteq Ahead
            /\ x \notin Ahead'
        BY <1>1, <1>5, <3>1, <3>2, TriedOn
      <3> HIDE DEF x
      <3>4. \/ used' = used /\ Ahead' \subseteq Ahead
            \/ used' = used + 1 /\ \E y \in Ahead : Ahead' \subseteq Ahead \ {y}
        BY <1>3, <1>5, <3>3
      <3> QED BY <1>4, <3>1, <3>3, <3>4, WithinCallKeeps
    <2> QED BY <2>1, <2>2
  <1>9. CASE o = "object" /\ c \in Passes
    <2>1. c \notin Direct
      BY <1>9, BudgetAssumption
    <2>2. To(c, "record") /\ UNCHANGED vars
      BY <1>2, <1>9, <2>1, Zenon
    <2> QED BY <1>7, <2>2
  <1>10. CASE o = "object" /\ c \notin Passes
    <2>1. c \in Direct /\ Ends(c, "ok")
      BY <1>2, <1>10 DEF Callers
    <2> QED BY <1>6, <2>1 DEF Outcomes
  <1>11. CASE o = "hard"
    <2>1. Fails(c, "hard")
      BY <1>2, <1>11
    <2>2. "hard" \in Outcomes
      BY DEF Outcomes
    <2> QED BY <1>6, <2>1, <2>2, FailureEnds, Zenon
  <1>12. CASE o \in {"soft", "no object"}
    BY <1>2, <1>8, <1>12
  <1> QED BY <1>9, <1>10, <1>11, <1>12 DEF Answers, Replies, Errors

LEMMA RecordKeeps ==
  ASSUME ProviderInv, NEW c \in Callers, Record(c)
  PROVE  ProviderInv'
  <1>1. stage[c] = "record" /\ used' = used /\ days' = days
    BY DEF Record
  <1>2. used' \in Nat /\ days' \in 0..MaxDays /\ recorded' \in 0..Budget
    BY <1>1, BudgetAssumption DEF Record, UpToBudget, ProviderInv, LlmTypeOK
  <1>3. \E o \in Outcomes : Ends(c, o)
    <2>1. {"ok", "invalid", "other"} \subseteq Outcomes
      BY DEF Outcomes
    <2> QED BY <2>1, FailureEnds, Zenon DEF Record
  <1>4. stage[c] # "out"
    BY <1>1
  <1> QED BY <1>1, <1>2, <1>3, <1>4, EndsKeeps

LEMMA SkippedKeeps ==
  ASSUME ProviderInv, NEW p \in Passes, Skipped(p)
  PROVE  ProviderInv'
  BY InvStutters DEF Skipped, PassSkipped, ProviderInv, LlmTypeOK, BreakerInv, vars, usage,
                     Accounted, Ahead, Slots, Callers

LEMMA MinuteKeeps ==
  ASSUME ProviderInv, Minute
  PROVE  ProviderInv'
  <1>1. BreakerInv' /\ calling' = calling
    BY InvTick DEF Minute, Tick, ProviderInv, LlmTypeOK, BreakerInv
  <1> QED BY <1>1 DEF Minute, ProviderInv, LlmTypeOK, BreakerInv, usage, Accounted, Ahead, Slots, Callers

LEMMA NewDayKeeps ==
  ASSUME ProviderInv, NewDay
  PROVE  ProviderInv'
  <1>1. BreakerInv'
    BY InvStutters DEF NewDay, vars, ProviderInv, LlmTypeOK, BreakerInv
  <1>2. days' \in 0..MaxDays /\ recorded' \in 0..Budget
    BY BudgetAssumption DEF NewDay, ProviderInv, LlmTypeOK
  <1> QED BY <1>1, <1>2 DEF NewDay, vars, ProviderInv, LlmTypeOK, BreakerInv, Accounted, Ahead, Slots, Callers

\* Whatever was in progress, a process that starts has consumed nothing.
LEMMA FreshStart ==
  ASSUME stage = [c \in Callers |-> "out"], tries = [c \in Callers |-> 0], used = 0,
         breaker = Closed, calling = {}, cooling = 0, softRun = 0,
         recorded \in 0..Budget, days \in 0..MaxDays
  PROVE  ProviderInv
  <1>1. BreakerInv
    BY InvAtStart
  <1>2. Ahead = {}
    BY DEF Ahead, Slots
  <1>3. Cardinality(Slots) \in Nat
    BY SlotsCount, FS_CardinalityType
  <1>4. Accounted
    BY <1>2, <1>3, FS_EmptySet, BudgetAssumption DEF Accounted
  <1> QED BY <1>1, <1>4 DEF ProviderInv, LlmTypeOK, BreakerInv, Stages, Callers, Attempts

LEMMA RestartKeeps ==
  ASSUME ProviderInv, Restart
  PROVE  ProviderInv'
  <1>1. /\ stage' = [c \in Callers |-> "out"] /\ tries' = [c \in Callers |-> 0] /\ used' = 0
        /\ breaker' = Closed /\ calling' = {} /\ cooling' = 0 /\ softRun' = 0
    BY DEF Restart
  <1>2. recorded' \in 0..Budget /\ days' \in 0..MaxDays
    BY BudgetAssumption DEF Restart, ProviderInv, LlmTypeOK
  <1>3. BreakerInv'
    BY <1>1, BreakerAssumption, MaxStreakAssumption
    DEF BreakerInv, TypeOK, Agreement, Closed, Breakers, Runs
  <1>4. used' < Budget /\ used' \in Nat
    BY <1>1, BudgetAssumption
  <1>5. Accounted'
    BY <1>4, AccountedStep
  <1> QED BY <1>1, <1>2, <1>3, <1>4, <1>5 DEF ProviderInv, LlmTypeOK, BreakerInv, Stages, Callers, Attempts

(***************************************************************************)
(* The invariant that the theorems below rest on: LLMProvider.analyze with *)
(* its callers, its attempts and the breaker of the passes.                *)
(***************************************************************************)
THEOREM ProviderInvariant == LlmSpec => []ProviderInv
  <1>1. LlmInit => ProviderInv
    <2> SUFFICES ASSUME LlmInit PROVE ProviderInv
      OBVIOUS
    <2>1. recorded \in 0..Budget /\ days \in 0..MaxDays
      BY BudgetAssumption DEF LlmInit
    <2> QED BY <2>1, FreshStart DEF LlmInit, Init
  <1>2. ProviderInv /\ [LlmNext]_allVars => ProviderInv'
    <2> SUFFICES ASSUME ProviderInv, [LlmNext]_allVars PROVE ProviderInv'
      OBVIOUS
    <2>1. ASSUME NEW c \in Callers, Enter(c) PROVE ProviderInv'
      BY <2>1, EnterKeeps
    <2>2. ASSUME NEW c \in Callers, Calling(c) PROVE ProviderInv'
      BY <2>2, AskKeeps, AskDailyKeeps, AttemptKeeps, RecordKeeps DEF Calling
    <2>3. ASSUME NEW p \in Passes, Skipped(p) PROVE ProviderInv'
      BY <2>3, SkippedKeeps
    <2>4. CASE Minute
      BY <2>4, MinuteKeeps
    <2>5. CASE NewDay
      BY <2>5, NewDayKeeps
    <2>6. CASE Restart
      BY <2>6, RestartKeeps
    <2>7. CASE UNCHANGED allVars
      BY <2>7, InvStutters DEF allVars, vars, usage, ProviderInv, LlmTypeOK, BreakerInv,
                               Accounted, Ahead, Slots, Callers
    <2> QED BY <2>1, <2>2, <2>3, <2>4, <2>5, <2>6, <2>7 DEF LlmNext
  <1> QED BY <1>1, <1>2, PTL DEF LlmSpec

(***************************************************************************)
(* Every variable keeps its type, and a pass is in a call exactly when the *)
(* breaker counts it among those past the gate.                            *)
(***************************************************************************)
THEOREM LlmTypesAreRespected == LlmSpec => []LlmTypeOK
  <1>1. ProviderInv => LlmTypeOK
    BY DEF ProviderInv
  <1> QED BY <1>1, ProviderInvariant, PTL

(***************************************************************************)
(* The breaker is open exactly when SOFT_THRESHOLD failures were recorded  *)
(* as soft without a reset between them, or a hard one still counts:       *)
(* whatever hard failures are mixed in, and however the calls of the       *)
(* passes overlap.                                                         *)
(***************************************************************************)
THEOREM BreakerCountsStrikes == LlmSpec => []ThreeStrikes
  <1>1. ProviderInv => ThreeStrikes
    BY BreakerAssumption, MaxStreakAssumption
    DEF ProviderInv, LlmTypeOK, TypeOK, Agreement, ThreeStrikes, Breakers, Runs
  <1> QED BY <1>1, ProviderInvariant, PTL

(***************************************************************************)
(* What the process consumes beyond daily_token_budget is at most three    *)
(* attempts for each caller, however their calls overlap: _check_budget is *)
(* asked once, before the attempts of a call.                              *)
(***************************************************************************)
THEOREM OvershootBounded == LlmSpec => []OvershootIsBounded
  <1>1. ProviderInv => OvershootIsBounded
    <2> SUFFICES ASSUME ProviderInv PROVE OvershootIsBounded
      OBVIOUS
    <2>1. IsFiniteSet(Ahead) /\ Cardinality(Ahead) \in Nat
      BY SlotsCount, FS_Subset, FS_CardinalityType DEF Ahead
    <2>2. Cardinality(Callers) \in Nat
      BY BudgetAssumption, FS_CardinalityType DEF Callers
    <2>3. Attempts * Cardinality(Callers) \in Nat
      BY <2>2 DEF Attempts
    <2> QED BY <2>1, <2>3, <2>2, SlotsCount, BudgetAssumption
            DEF ProviderInv, LlmTypeOK, Accounted, OvershootIsBounded
  <1> QED BY <1>1, ProviderInvariant, PTL

\* A step within a call tells the breaker nothing but how the call ended.
LEMMA CallingEndsOrStutters ==
  ASSUME NEW c \in Callers, Calling(c)
  PROVE  (\E o \in Outcomes : Ends(c, o)) \/ UNCHANGED vars
  <1>1. {"ok", "invalid", "hard", "transient", "other"} \subseteq Outcomes
    BY DEF Outcomes
  <1>2. CASE \E o \in Outcomes : Fails(c, o)
    BY <1>2, FailureEnds, Zenon
  <1>3. Again(c) => (\E o \in Outcomes : Fails(c, o)) \/ UNCHANGED vars
    BY <1>1, Zenon DEF Again
  <1>4. CASE Ask(c) \/ AskDaily(c)
    BY <1>1, <1>2, <1>4, Zenon DEF Ask, AskDaily
  <1>5. CASE Attempt(c)
    <2>1. PICK o \in Answers :
            CASE o = "object" /\ c \in Passes -> To(c, "record") /\ UNCHANGED vars
              [] o = "object" /\ c \in Direct -> Ends(c, "ok")
              [] o = "hard"                   -> Fails(c, "hard")
              [] o \in {"soft", "no object"}  -> Again(c)
      BY <1>5, Zenon DEF Attempt
    <2>2. CASE o = "object" /\ c \in Passes
      <3>1. c \notin Direct
        BY <2>2, BudgetAssumption
      <3> QED BY <2>1, <2>2, <3>1, Zenon
    <2>3. CASE o = "object" /\ c \notin Passes
      <3>1. c \in Direct
        BY <2>3 DEF Callers
      <3>2. Ends(c, "ok")
        BY <2>1, <2>3, <3>1
      <3> QED BY <1>1, <3>2, Zenon
    <2>4. CASE o = "hard"
      <3>1. Fails(c, "hard")
        BY <2>1, <2>4
      <3> QED BY <1>1, <1>2, <3>1, Zenon
    <2>5. CASE o \in {"soft", "no object"}
      <3>1. Again(c)
        BY <2>1, <2>5
      <3> QED BY <1>2, <1>3, <3>1, Zenon
    <2> QED BY <2>2, <2>3, <2>4, <2>5 DEF Answers, Replies, Errors
  <1>6. CASE Record(c)
    BY <1>1, <1>2, <1>6, Zenon DEF Record
  <1> QED BY <1>4, <1>5, <1>6, Zenon DEF Calling

(***************************************************************************)
(* No pass reaches the LLM before the cooldown owed to the last opening is *)
(* over, by a clock that is not the breaker's own.                         *)
(***************************************************************************)
THEOREM CooldownIsRespected == LlmSpec => CooldownRespected
  <1>1. ProviderInv /\ [LlmNext]_allVars => [calling' \ calling # {} => cooling = 0]_vars
    <2> SUFFICES ASSUME ProviderInv, [LlmNext]_allVars, calling' \ calling # {} PROVE cooling = 0
      OBVIOUS
    <2>1. ASSUME NEW p \in Passes, PassAdmitted(p) PROVE cooling = 0
      BY <2>1, BreakerAssumption DEF PassAdmitted, IsOpen, Expired, ProviderInv, LlmTypeOK, TypeOK, Agreement, Breakers
    <2>2. ASSUME NEW c \in Callers, NEW o \in Outcomes, Ends(c, o) PROVE FALSE
      BY <2>2 DEF Ends, PassEnds, vars
    <2>3. ASSUME NEW c \in Callers, Calling(c) PROVE FALSE
      <3>1. (\E o \in Outcomes : Ends(c, o)) \/ UNCHANGED vars
        BY <2>3, CallingEndsOrStutters
      <3> QED BY <2>2, <3>1 DEF vars
    <2>4. CASE \E c \in Callers : Enter(c)
      BY <2>1, <2>4 DEF Enter, vars
    <2>5. CASE \E c \in Callers : Calling(c)
      BY <2>3, <2>5
    <2>6. CASE \E p \in Passes : Skipped(p)
      BY <2>6 DEF Skipped, PassSkipped, vars
    <2>7. CASE Minute \/ NewDay \/ Restart \/ UNCHANGED allVars
      BY <2>7 DEF Minute, Tick, NewDay, Restart, allVars, vars
    <2> QED BY <2>4, <2>5, <2>6, <2>7 DEF LlmNext
  <1> QED BY <1>1, ProviderInvariant, PTL DEF LlmSpec, CooldownRespected
=============================================================================
