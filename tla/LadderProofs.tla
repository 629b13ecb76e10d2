----------------------------- MODULE LadderProofs -----------------------------
(***************************************************************************)
(* Theorems about RestartLadder for any delays, window and lateness: the   *)
(* tracker has forgotten only failures that no later window can hold, and  *)
(* of the attempts that one window sees each had a failure of its own.     *)
(***************************************************************************)
EXTENDS RestartLadder, FiniteSetTheorems, WellFoundedInduction, TLAPS

-----------------------------------------------------------------------------
(* Recursion: a set that holds 0 and with each number the next one holds   *)
(* them all, and a first value and its successors are one function.        *)

LEMMA SetInduction ==
  ASSUME NEW S, 0 \in S, \A n \in Nat : n \in S => n + 1 \in S
  PROVE  Nat \subseteq S
<1> DEFINE T == Nat \ S
<1> SUFFICES ASSUME T # {} PROVE FALSE
  OBVIOUS
<1>1. PICK x \in T : \A y \in T : ~(<<y, x>> \in OpToRel(<, Nat))
  <2>1. IsWellFoundedOn(OpToRel(<, Nat), Nat)
    BY NatLessThanWellFounded
  <2>2. T \subseteq Nat
    OBVIOUS
  <2> HIDE DEF T
  <2> QED BY <2>1, <2>2, WFMin
<1>2. x # 0 /\ x - 1 \in Nat /\ x - 1 \notin S
  <2>1. x # 0 /\ x - 1 \in Nat
    OBVIOUS
  <2>2. x - 1 \in S => x - 1 + 1 \in S
    BY <2>1
  <2> QED BY <2>1, <2>2
<1>3. <<x - 1, x>> \in OpToRel(<, Nat)
  BY <1>2 DEF OpToRel
<1> QED BY <1>1, <1>2, <1>3

LEMMA Climb ==
  ASSUME NEW m \in Nat, NEW S, 0 \in S, \A n \in 1 .. m : n - 1 \in S => n \in S
  PROVE  0 .. m \subseteq S
<1> DEFINE T == {k \in Nat : k <= m => k \in S}
<1>1. 0 \in T
  OBVIOUS
<1>2. ASSUME NEW k \in Nat, k \in T PROVE k + 1 \in T
  <2>1. k + 1 <= m => k + 1 \in 1 .. m /\ (k + 1) - 1 = k
    OBVIOUS
  <2> QED BY <1>2, <2>1
<1>3. Nat \subseteq T
  <2> HIDE DEF T
  <2> QED BY <1>1, <1>2, SetInduction
<1> QED BY <1>3

Steps(f, m, a, step) == \A n \in 0 .. m : f[n] = IF n = 0 THEN a ELSE step[n][f[n - 1]]

LEMMA Iteration ==
  ASSUME NEW A, NEW a \in A, NEW m \in Nat, NEW step \in [Nat -> [A -> A]]
  PROVE  \E f \in [0 .. m -> A] : Steps(f, m, a, step)
<1> DEFINE Is(f, k) == \A n \in 0 .. k : f[n] = IF n = 0 THEN a ELSE step[n][f[n - 1]]
           S == {k \in Nat : k <= m => \E f \in [0 .. k -> A] : Is(f, k)}
<1>1. 0 \in S
  <2>1. [n \in 0 .. 0 |-> a] \in [0 .. 0 -> A] /\ Is([n \in 0 .. 0 |-> a], 0)
    OBVIOUS
  <2> QED BY <2>1
<1>2. ASSUME NEW k \in Nat, k \in S PROVE k + 1 \in S
  <2>1. SUFFICES ASSUME k + 1 <= m PROVE \E f \in [0 .. k + 1 -> A] : Is(f, k + 1)
    OBVIOUS
  <2>2. PICK g \in [0 .. k -> A] : Is(g, k)
    BY <1>2, <2>1
  <2>3. step[k + 1][g[k]] \in A
    BY <2>1
  <2>4. PICK f \in [0 .. k + 1 -> A] :
          \A n \in 0 .. k + 1 : f[n] = IF n = k + 1 THEN step[k + 1][g[k]] ELSE g[n]
    <3>1. [n \in 0 .. k + 1 |-> IF n = k + 1 THEN step[k + 1][g[k]] ELSE g[n]] \in [0 .. k + 1 -> A]
      BY <2>3
    <3> QED BY <3>1
  <2>5. ASSUME NEW n \in 0 .. k + 1 PROVE f[n] = IF n = 0 THEN a ELSE step[n][f[n - 1]]
    <3>1. CASE n = k + 1
      BY <2>4, <3>1
    <3>2. CASE n # k + 1
      <4>1. n \in 0 .. k /\ f[n] = g[n]
        BY <2>4, <3>2
      <4>2. n # 0 => f[n - 1] = g[n - 1]
        BY <2>4, <3>2
      <4> QED BY <2>2, <4>1, <4>2
    <3> QED BY <3>1, <3>2
  <2> QED BY <2>5
<1>3. m \in S
  BY <1>1, <1>2, SetInduction
<1> QED BY <1>3 DEF Steps

LEMMA Unique ==
  ASSUME NEW m \in Nat, NEW k \in 0 .. m, NEW a, NEW step, NEW f, NEW g,
         Steps(f, m, a, step), Steps(g, k, a, step)
  PROVE  f[k] = g[k]
<1> DEFINE S == {n \in Nat : n <= k => f[n] = g[n]}
<1>1. 0 \in S
  <2>1. 0 \in 0 .. m /\ 0 \in 0 .. k
    OBVIOUS
  <2> QED BY <2>1 DEF Steps
<1>2. ASSUME NEW n \in Nat, n \in S PROVE n + 1 \in S
  <2> SUFFICES ASSUME n + 1 <= k PROVE f[n + 1] = g[n + 1]
    OBVIOUS
  <2>1. n + 1 \in 0 .. m /\ n + 1 \in 0 .. k /\ n + 1 # 0 /\ (n + 1) - 1 = n /\ n <= k
    OBVIOUS
  <2>2. f[n] = g[n]
    BY <1>2, <2>1
  <2> QED BY <2>1, <2>2 DEF Steps
<1>3. k \in S
  <2> HIDE DEF S
  <2> QED BY <1>1, <1>2, SetInduction
<1> QED BY <1>3

-----------------------------------------------------------------------------
(* The delays. *)

Twice == [n \in Nat |-> [x \in Nat |-> 2 * x]]

LEMMA DoubledSteps ==
  ASSUME NEW m \in Nat
  PROVE  \E f \in [0 .. m -> Nat] : Doubled(m) = f[m] /\ Steps(f, m, BackoffBase, Twice)
<1>1. Twice \in [Nat -> [Nat -> Nat]] /\ BackoffBase \in Nat
  BY LadderAssumption DEF Twice
<1>2. PICK f \in [0 .. m -> Nat] : Steps(f, m, BackoffBase, Twice)
  BY <1>1, Iteration
<1>3. \A n \in 0 .. m : f[n] = IF n = 0 THEN BackoffBase ELSE 2 * f[n - 1]
  <2> SUFFICES ASSUME NEW n \in 0 .. m, n # 0 PROVE Twice[n][f[n - 1]] = 2 * f[n - 1]
    BY <1>2 DEF Steps
  <2>1. n \in Nat /\ n - 1 \in 0 .. m
    OBVIOUS
  <2> QED BY <2>1 DEF Twice
<1>4. PICK g : g = CHOOSE h : h = [n \in 0 .. m |-> IF n = 0 THEN BackoffBase ELSE 2 * h[n - 1]]
  OBVIOUS
<1>5. f = [n \in 0 .. m |-> IF n = 0 THEN BackoffBase ELSE 2 * f[n - 1]]
  BY <1>3
<1>6. g = [n \in 0 .. m |-> IF n = 0 THEN BackoffBase ELSE 2 * g[n - 1]]
  BY <1>4, <1>5
<1>7. Doubled(m) = g[m]
  BY <1>4 DEF Doubled
<1>8. ASSUME NEW n \in Nat PROVE n <= m => g[n] = f[n]
  <2> DEFINE S == {k \in Nat : k <= m => g[k] = f[k]}
  <2>1. 0 \in S
    BY <1>3, <1>6
  <2>2. ASSUME NEW k \in Nat, k \in S PROVE k + 1 \in S
    <3> SUFFICES ASSUME k + 1 <= m PROVE g[k + 1] = f[k + 1]
      OBVIOUS
    <3>1. k + 1 \in 0 .. m /\ k + 1 # 0 /\ (k + 1) - 1 = k /\ g[k] = f[k]
      BY <2>2
    <3>2. g[k + 1] = 2 * g[k]
      BY <1>6, <3>1
    <3>3. f[k + 1] = 2 * f[k]
      BY <1>3, <3>1
    <3> QED BY <3>1, <3>2, <3>3
  <2>3. n \in S
    <3> HIDE DEF S
    <3> QED BY <2>1, <2>2, SetInduction
  <2> QED BY <2>3
<1> QED BY <1>2, <1>7, <1>8

LEMMA DoubledGrows ==
  ASSUME NEW m \in Nat
  PROVE  /\ Doubled(m) \in Nat /\ Doubled(m + 1) \in Nat
         /\ Doubled(m) <= Doubled(m + 1)
<1>1. PICK f \in [0 .. m -> Nat] : Doubled(m) = f[m] /\ Steps(f, m, BackoffBase, Twice)
  BY DoubledSteps
<1>2. PICK g \in [0 .. m + 1 -> Nat] : Doubled(m + 1) = g[m + 1] /\ Steps(g, m + 1, BackoffBase, Twice)
  <2>1. m + 1 \in Nat
    OBVIOUS
  <2> QED BY <2>1, DoubledSteps
<1>3. g[m] = f[m]
  <2>1. m + 1 \in Nat /\ m \in 0 .. m + 1
    OBVIOUS
  <2> QED BY <1>1, <1>2, <2>1, Unique
<1>4. g[m + 1] = 2 * g[m]
  <2>1. m + 1 \in 0 .. m + 1 /\ m + 1 # 0 /\ (m + 1) - 1 = m /\ g[m] \in Nat /\ m + 1 \in Nat
    OBVIOUS
  <2> QED BY <1>2, <2>1 DEF Steps, Twice
<1>5. f[m] \in Nat
  OBVIOUS
<1> QED BY <1>1, <1>2, <1>3, <1>4, <1>5

\* A delay is positive, and no shorter than the one before.
LEMMA DelayFacts ==
  ASSUME NEW m \in Nat
  PROVE  Delay(m) \in Nat \ {0} /\ Delay(m) <= Delay(m + 1)
BY DoubledGrows, LadderAssumption DEF Delay, Min2, Max2

Pause(n) == Delay(n - 1) + Lateness + Quick
Pauses == [n \in Nat |-> [x \in Nat |-> IF n = 0 THEN x ELSE x + Pause(n)]]

LEMMA PauseType ==
  ASSUME NEW n \in Nat, n # 0
  PROVE  Pause(n) \in Nat
<1>1. n - 1 \in Nat
  OBVIOUS
<1>2. Delay(n - 1) \in Nat
  BY <1>1, DelayFacts
<1> QED BY <1>2, LadderAssumption DEF Pause

LEMMA SpanSteps ==
  ASSUME NEW m \in Nat
  PROVE  \E f \in [0 .. m -> Nat] : Span(m) = f[m] /\ Steps(f, m, 0, Pauses)
<1>1. Pauses \in [Nat -> [Nat -> Nat]]
  BY PauseType DEF Pauses
<1>2. PICK f \in [0 .. m -> Nat] : Steps(f, m, 0, Pauses)
  BY <1>1, Iteration
<1>3. \A n \in 0 .. m : f[n] = IF n = 0 THEN 0 ELSE f[n - 1] + Pause(n)
  <2> SUFFICES ASSUME NEW n \in 0 .. m, n # 0 PROVE Pauses[n][f[n - 1]] = f[n - 1] + Pause(n)
    BY <1>2 DEF Steps
  <2>1. n \in Nat /\ n - 1 \in 0 .. m
    OBVIOUS
  <2> QED BY <2>1 DEF Pauses
<1>4. PICK g : g = CHOOSE h : h = [n \in 0 .. m |-> IF n = 0 THEN 0 ELSE h[n - 1] + Pause(n)]
  OBVIOUS
<1>5. f = [n \in 0 .. m |-> IF n = 0 THEN 0 ELSE f[n - 1] + Pause(n)]
  BY <1>3
<1>6. g = [n \in 0 .. m |-> IF n = 0 THEN 0 ELSE g[n - 1] + Pause(n)]
  BY <1>4, <1>5
<1>7. Span(m) = g[m]
  BY <1>4 DEF Span, Pause
<1>8. ASSUME NEW n \in Nat PROVE n <= m => g[n] = f[n]
  <2> DEFINE S == {k \in Nat : k <= m => g[k] = f[k]}
  <2>1. 0 \in S
    BY <1>3, <1>6
  <2>2. ASSUME NEW k \in Nat, k \in S PROVE k + 1 \in S
    <3> SUFFICES ASSUME k + 1 <= m PROVE g[k + 1] = f[k + 1]
      OBVIOUS
    <3>1. k + 1 \in 0 .. m /\ k + 1 # 0 /\ (k + 1) - 1 = k /\ g[k] = f[k]
      BY <2>2
    <3>2. g[k + 1] = g[k] + Pause(k + 1)
      BY <1>6, <3>1
    <3>3. f[k + 1] = f[k] + Pause(k + 1)
      BY <1>3, <3>1
    <3> QED BY <3>1, <3>2, <3>3
  <2>3. n \in S
    <3> HIDE DEF S
    <3> QED BY <2>1, <2>2, SetInduction
  <2> QED BY <2>3
<1> QED BY <1>2, <1>7, <1>8

LEMMA SpanGrows ==
  ASSUME NEW m \in Nat
  PROVE  /\ Span(m) \in Nat /\ Span(m + 1) \in Nat
         /\ Span(m + 1) = Span(m) + Delay(m) + Lateness + Quick
         /\ Span(m) <= Span(m + 1)
<1>1. PICK f \in [0 .. m -> Nat] : Span(m) = f[m] /\ Steps(f, m, 0, Pauses)
  BY SpanSteps
<1>2. PICK g \in [0 .. m + 1 -> Nat] : Span(m + 1) = g[m + 1] /\ Steps(g, m + 1, 0, Pauses)
  <2>1. m + 1 \in Nat
    OBVIOUS
  <2> QED BY <2>1, SpanSteps
<1>3. g[m] = f[m]
  <2>1. m + 1 \in Nat /\ m \in 0 .. m + 1
    OBVIOUS
  <2> QED BY <1>1, <1>2, <2>1, Unique
<1>4. g[m + 1] = g[m] + Pause(m + 1)
  <2>1. m + 1 \in 0 .. m + 1 /\ m + 1 # 0 /\ (m + 1) - 1 = m /\ g[m] \in Nat /\ m + 1 \in Nat
    OBVIOUS
  <2> QED BY <1>2, <2>1 DEF Steps, Pauses
<1>5. f[m] \in Nat /\ Delay(m) \in Nat /\ (m + 1) - 1 = m
  BY DelayFacts
<1>6. Lateness \in Nat /\ Quick \in Nat
  BY LadderAssumption
<1> QED BY <1>1, <1>2, <1>3, <1>4, <1>5, <1>6 DEF Pause

LEMMA SpanClimbs ==
  ASSUME NEW k \in Nat, NEW m \in Nat, k <= m
  PROVE  Span(k) <= Span(m)
<1> DEFINE S == {d \in Nat : Span(k) <= Span(k + d)}
<1>1. 0 \in S
  BY SpanGrows
<1>2. ASSUME NEW d \in Nat, d \in S PROVE d + 1 \in S
  <2>1. k + d \in Nat /\ (k + d) + 1 = k + (d + 1)
    OBVIOUS
  <2>2. Span(k) \in Nat /\ Span(k + d) \in Nat /\ Span(k + d) <= Span((k + d) + 1) /\ Span((k + d) + 1) \in Nat
    BY <2>1, SpanGrows
  <2> QED BY <1>2, <2>1, <2>2
<1>3. m - k \in S
  <2>1. m - k \in Nat
    OBVIOUS
  <2> HIDE DEF S
  <2> QED BY <1>1, <1>2, <2>1, SetInduction
<1> QED BY <1>3

-----------------------------------------------------------------------------
(* What the tracker knows, and what it may have forgotten.                 *)
Memory ==
  /\ now \in Nat /\ stableAt \in Nat
  /\ state \in {"spawning", "running", "backoff", "failed"}
  /\ timestamps \subseteq failures /\ failures \subseteq 0 .. now
  /\ \A f \in failures \ timestamps : now - f >= RestartWindow
  /\ stableAt # Unarmed =>
       state = "running" /\ \A f \in failures : stableAt >= f + StableReset

(* While no agent runs, it knows what the last failure found.              *)
Verdict ==
  state \in {"backoff", "failed"} =>
    /\ \A last \in failures :
         (\A f \in failures : f <= last) => InWindow(failures, last) = timestamps
    /\ state = "failed" <=> Cardinality(timestamps) > MaxRestarts

BudgetInv == Memory /\ Verdict

(* The tracker's record of a failure is what really falls into the window. *)
LEMMA RecordIsTrue ==
  ASSUME Memory
  PROVE  Record = InWindow(failures \cup {now}, now)
<1> USE LadderAssumption DEF Memory, Record, InWindow
<1>1. now - now < RestartWindow
  OBVIOUS
<1>2. ASSUME NEW f \in failures, now - f < RestartWindow
      PROVE  f \in timestamps
  BY <1>2
<1> QED
  BY <1>1, <1>2

LEMMA InitBudget == LadderInit => BudgetInv
BY LadderAssumption DEF LadderInit, BudgetInv, Memory, Verdict, Unarmed

(* A failure: the timestamps that are dropped are out of the window.       *)
LEMMA FailBudget ==
  ASSUME BudgetInv, Fail
  PROVE  BudgetInv'
<1> USE LadderAssumption DEF Fail, ScheduleRestart
<1>1. Record = InWindow(failures \cup {now}, now)
  BY RecordIsTrue DEF BudgetInv
<1>2. Memory'
  BY <1>1 DEF BudgetInv, Memory, InWindow, Unarmed
<1>3. Verdict'
  <2>1. ASSUME NEW last \in failures', \A f \in failures' : f <= last
        PROVE  last = now
    BY <2>1 DEF BudgetInv, Memory
  <2>2. \A last \in failures' :
          (\A f \in failures' : f <= last) => InWindow(failures', last) = timestamps'
    BY <1>1, <2>1
  <2>3. (state = "failed")' <=> Cardinality(timestamps') > MaxRestarts
    OBVIOUS
  <2> QED
    BY <2>2, <2>3 DEF Verdict, InWindow
<1> QED
  BY <1>2, <1>3 DEF BudgetInv

(* The stable timer forgets only what is older than the window, since its  *)
(* time is no shorter.                                                     *)
LEMMA StableBudget ==
  ASSUME BudgetInv, StableFires
  PROVE  BudgetInv'
BY LadderAssumption DEF BudgetInv, Memory, Verdict, StableFires, Unarmed

LEMMA StepBudget == BudgetInv /\ [LadderNext]_ladderVars => BudgetInv'
<1> SUFFICES ASSUME BudgetInv, [LadderNext]_ladderVars PROVE BudgetInv'
  OBVIOUS
<1> USE LadderAssumption
<1>1. CASE Tick
  BY <1>1 DEF BudgetInv, Memory, Verdict, InWindow, Tick, ladder, timers, past
<1>2. CASE Retry
  BY <1>2 DEF BudgetInv, Memory, Verdict, Retry, ladder, timers
<1>3. CASE Succeeds
  BY <1>3 DEF BudgetInv, Memory, Verdict, Succeeds, ladder, past
<1>4. CASE Fail
  BY <1>4, FailBudget
<1>5. CASE StableFires
  BY <1>5, StableBudget
<1>6. CASE Restart
  BY <1>6 DEF BudgetInv, Memory, Verdict, Restart, Unarmed
<1>7. CASE UNCHANGED ladderVars
  BY <1>7 DEF BudgetInv, Memory, Verdict, InWindow, ladderVars, ladder, timers, past
<1> QED
  BY <1>1, <1>2, <1>3, <1>4, <1>5, <1>6, <1>7 DEF LadderNext

(* FR-19: at the last failure the supervisor gave up exactly when more     *)
(* than MaxRestarts failures lay in the window, whatever the tracker had   *)
(* forgotten (scheduleRestart, record, startStableTimer).                  *)
THEOREM BudgetKeptHolds == LadderSpec => []BudgetKept
<1>1. BudgetInv => BudgetKept
  BY DEF BudgetInv, Verdict, BudgetKept
<1> QED
  BY InitBudget, StepBudget, <1>1, PTL DEF LadderSpec

-----------------------------------------------------------------------------
(* The pace of the retries. *)

Last(g) == g \in failures /\ \A f \in failures : f <= g

\* What led to the retry at r.
LedTo(f, r) == f \in failures /\ f < r /\ \A h \in failures : h <= f \/ r <= h

\* The delay of the attempt that is due, or of the next one.
Pace == Delay(IF state = "backoff" THEN restartAttempt - 1 ELSE restartAttempt)

Clock ==
  /\ restartAttempt \in Nat /\ retryAt \in Nat /\ begun \in 0 .. now
  /\ retries \subseteq 0 .. begun /\ looping \in BOOLEAN
  /\ stableAt # Unarmed => stableAt >= begun + StableReset
  /\ state = "backoff" =>
       /\ restartAttempt # 0 /\ now <= retryAt + Lateness
       /\ \E g \in failures : Last(g) /\ retryAt = g + Pace /\ \A r \in retries : r <= g

Paced ==
  /\ \A r \in retries :
       \E f \in failures : LedTo(f, r) /\ (now - r >= RestartWindow \/ r - f <= Lateness + Pace)
  /\ \A r, s \in retries : r < s => \E h \in failures : r <= h /\ h < s

\* An agent that never lasts leaves every failure in the tracker.
Loop ==
  looping /\ state # "failed" =>
    /\ restartAttempt <= MaxRestarts /\ Cardinality(timestamps) = restartAttempt
    /\ IF state = "backoff"
       THEN \A g \in failures : Last(g) => \A f \in timestamps : g - f <= Span(restartAttempt - 1)
       ELSE \A f \in timestamps : f < begun /\ begun - f + Quick <= Span(restartAttempt)

PaceInv == BudgetInv /\ Clock /\ Paced

LEMMA Numbers ==
  /\ BackoffBase \in Nat \ {0} /\ BackoffCap \in Nat \ {0} /\ RestartWindow \in Nat \ {0}
  /\ StableReset \in Nat \ {0} /\ MaxRestarts \in Nat /\ Lateness \in Nat /\ Quick \in Nat
  /\ StableReset >= RestartWindow
BY LadderAssumption

LEMMA InitPace == LadderInit => Clock /\ Paced
BY DEF LadderInit, Clock, Paced, Unarmed

LEMMA TickPace ==
  ASSUME PaceInv, Tick
  PROVE  Clock' /\ Paced'
<1> USE DEF Tick, PaceInv, BudgetInv, Memory, ladder, timers, past
<1>1. now' \in Nat /\ now <= now' /\ Pace' = Pace
  BY DEF Pace
<1>2. Clock'
  BY <1>1, Numbers DEF Clock, Last
<1>3. Paced'
  <2>1. ASSUME NEW r \in retries, NEW f \in failures,
               LedTo(f, r) /\ (now - r >= RestartWindow \/ r - f <= Lateness + Pace)
        PROVE  LedTo(f, r)' /\ (now' - r >= RestartWindow \/ r - f <= Lateness + Pace')
    <3>1. now - r >= RestartWindow => now' - r >= RestartWindow
      BY <1>1, Numbers DEF Clock
    <3> QED BY <1>1, <2>1, <3>1 DEF LedTo
  <2>2. retries' = retries /\ failures' = failures
    OBVIOUS
  <2> QED BY <2>1, <2>2 DEF Paced
<1> QED BY <1>2, <1>3

\* The retry that is due was led to by the last failure.
LEMMA RetryIsLed ==
  ASSUME PaceInv, Retry
  PROVE  \E g \in failures : /\ Last(g) /\ LedTo(g, now) /\ now - g <= Lateness + Pace
                             /\ g = retryAt - Pace /\ Pace \in Nat \ {0}
                             /\ \A r \in retries : r <= g
<1>1. PICK g \in failures : Last(g) /\ retryAt = g + Pace /\ \A r \in retries : r <= g
  BY DEF PaceInv, Clock, Retry
<1>2. Pace \in Nat \ {0}
  <2>1. restartAttempt - 1 \in Nat
    BY DEF PaceInv, Clock, Retry
  <2> QED BY <2>1, DelayFacts DEF Pace, Retry
<1>3. g \in Nat /\ now \in Nat /\ retryAt <= now /\ now <= retryAt + Lateness
  BY DEF PaceInv, BudgetInv, Memory, Clock, Retry
<1>4. g < now /\ now - g <= Lateness + Pace /\ g = retryAt - Pace
  BY <1>1, <1>2, <1>3, Numbers
<1>5. LedTo(g, now)
  BY <1>1, <1>4 DEF LedTo, Last
<1> QED BY <1>1, <1>2, <1>4, <1>5

LEMMA RetryPace ==
  ASSUME PaceInv, Retry
  PROVE  Clock' /\ Paced'
<1>1. PICK g \in failures : /\ Last(g) /\ LedTo(g, now) /\ now - g <= Lateness + Pace
                            /\ g = retryAt - Pace /\ Pace \in Nat \ {0}
                            /\ \A r \in retries : r <= g
  BY RetryIsLed
<1>2. /\ failures' = failures /\ retries' = retries \cup {now} /\ now' = now /\ state' = "spawning"
      /\ begun' = now /\ restartAttempt' = restartAttempt /\ retryAt' = retryAt /\ stableAt' = stableAt
      /\ looping' = looping
  BY DEF Retry, ladder, timers
<1>3. Pace' \in Nat /\ Pace <= Pace'
  <2>1. restartAttempt - 1 \in Nat /\ (restartAttempt - 1) + 1 = restartAttempt /\ restartAttempt \in Nat
    BY DEF PaceInv, Clock, Retry
  <2>2. Pace = Delay(restartAttempt - 1) /\ Pace' = Delay(restartAttempt)
    BY <1>2 DEF Pace, Retry
  <2> QED BY <2>1, <2>2, DelayFacts
<1>4. now \in Nat /\ retries \subseteq Nat /\ failures \subseteq Nat
  BY DEF PaceInv, BudgetInv, Memory, Clock
<1>5. Clock'
  <2>1. stableAt = Unarmed
    BY DEF PaceInv, BudgetInv, Memory, Retry
  <2> QED BY <1>2, <2>1 DEF Clock, PaceInv, BudgetInv, Memory
<1>6. ASSUME NEW r \in retries'
      PROVE  \E f \in failures' :
               LedTo(f, r)' /\ (now' - r >= RestartWindow \/ r - f <= Lateness + Pace')
  <2>1. CASE r = now
    <3>1. LedTo(g, r)'
      BY <1>1, <1>2, <2>1 DEF LedTo
    <3>2. g \in Nat /\ r \in Nat
      BY <1>4, <2>1
    <3>3. r - g <= Lateness + Pace'
      BY <1>1, <1>3, <2>1, <3>2, Numbers
    <3> QED BY <1>2, <3>1, <3>3
  <2>2. CASE r \in retries
    <3>1. PICK f \in failures : LedTo(f, r) /\ (now - r >= RestartWindow \/ r - f <= Lateness + Pace)
      BY <2>2 DEF PaceInv, Paced
    <3>2. r - f <= Lateness + Pace => r - f <= Lateness + Pace'
      <4>1. r \in Nat /\ f \in Nat /\ Pace \in Nat
        BY <1>1, <1>4, <2>2
      <4>2. Lateness \in Nat /\ Pace' \in Nat /\ Pace <= Pace'
        BY <1>3, Numbers
      <4>3. PICK p \in Nat, q \in Nat : p = Pace /\ q = Pace'
        BY <4>1, <4>2
      <4>4. p <= q => (r - f <= Lateness + p => r - f <= Lateness + q)
        BY <4>1, <4>2
      <4> QED BY <4>2, <4>3, <4>4
    <3> QED BY <1>2, <3>1, <3>2 DEF LedTo
  <2> QED BY <1>2, <2>1, <2>2
<1>7. ASSUME NEW r \in retries', NEW s \in retries', r < s
      PROVE  \E h \in failures' : r <= h /\ h < s
  <2>1. CASE r \in retries /\ s \in retries
    BY <1>2, <1>7, <2>1 DEF PaceInv, Paced
  <2>2. CASE r \in retries /\ s = now
    BY <1>1, <1>2, <2>2 DEF LedTo
  <2>3. CASE r = now
    <3>1. s <= now
      BY <1>2, <1>4, <2>3 DEF PaceInv, BudgetInv, Memory, Clock
    <3> QED BY <1>4, <1>7, <2>3, <3>1, <1>2
  <2> QED BY <1>2, <2>1, <2>2, <2>3
<1> QED BY <1>5, <1>6, <1>7 DEF Paced

LEMMA RunningPace ==
  ASSUME PaceInv, Succeeds
  PROVE  Clock' /\ Paced'
<1> USE DEF Succeeds, PaceInv, ladder, past
<1>1. Pace' = Pace
  BY DEF Pace
<1>2. Clock'
  BY Numbers DEF Clock, BudgetInv, Memory
<1>3. Paced'
  BY <1>1 DEF Paced, LedTo
<1> QED BY <1>2, <1>3

LEMMA FailPace ==
  ASSUME PaceInv, Fail
  PROVE  Clock' /\ Paced'
<1>1. /\ failures' = failures \cup {now} /\ retries' = retries /\ now' = now /\ begun' = begun
      /\ restartAttempt' = restartAttempt + 1 /\ stableAt' = Unarmed
      /\ state \in {"spawning", "running"} /\ state' \in {"backoff", "failed"}
      /\ state' = "backoff" => retryAt' = now + Delay(restartAttempt)
      /\ state' = "failed" => retryAt' = retryAt
      /\ looping' = (looping /\ now - begun <= Quick)
  BY DEF Fail, ScheduleRestart
<1>2. /\ restartAttempt \in Nat /\ Delay(restartAttempt) \in Nat /\ Delay(restartAttempt + 1) \in Nat
      /\ Delay(restartAttempt) <= Delay(restartAttempt + 1)
  <2>1. restartAttempt \in Nat
    BY DEF PaceInv, Clock
  <2> QED BY <2>1, DelayFacts
<1>3. Pace = Delay(restartAttempt) /\ Pace' \in Nat /\ Pace <= Pace'
      /\ (state' = "backoff" => Pace' = Delay(restartAttempt))
  <2>1. (restartAttempt + 1) - 1 = restartAttempt
    BY <1>2
  <2>2. Pace = Delay(restartAttempt)
    BY <1>1 DEF Pace
  <2>3. Pace' = Delay(IF state' = "backoff" THEN restartAttempt ELSE restartAttempt + 1)
    BY <1>1, <2>1 DEF Pace
  <2> QED BY <1>2, <2>2, <2>3
<1>4. now \in Nat /\ retries \subseteq 0 .. begun /\ begun \in 0 .. now /\ failures \subseteq 0 .. now
      /\ retryAt \in Nat /\ looping \in BOOLEAN
  BY DEF PaceInv, BudgetInv, Memory, Clock
<1>5. Clock'
  <2>t. PICK t : t = now
    OBVIOUS
  <2>1. Last(t)' /\ \A r \in retries' : r <= t
    BY <1>1, <1>4, <2>t DEF Last
  <2>2. state' = "backoff" => retryAt' = now + Pace' /\ now' <= retryAt' + Lateness
    BY <1>1, <1>2, <1>3, <1>4, Numbers
  <2>3. restartAttempt' \in Nat \ {0} /\ retryAt' \in Nat
    BY <1>1, <1>2, <1>4
  <2>4. t \in failures'
    BY <1>1, <2>t
  <2>5. state' = "backoff" =>
          \E g \in failures' : Last(g)' /\ retryAt' = g + Pace' /\ \A r \in retries' : r <= g
    <3> SUFFICES ASSUME state' = "backoff" PROVE retryAt' = t + Pace'
      BY <2>1, <2>4
    <3> QED BY <2>2, <2>t
  <2>6. begun' \in 0 .. now' /\ retries' \subseteq 0 .. begun' /\ looping' \in BOOLEAN
    BY <1>1, <1>4
  <2> QED BY <1>1, <2>2, <2>3, <2>5, <2>6 DEF Clock
<1>6. Paced'
  <2>1. ASSUME NEW r \in retries
        PROVE  \E f \in failures' :
                 LedTo(f, r)' /\ (now' - r >= RestartWindow \/ r - f <= Lateness + Pace')
    <3>1. PICK f \in failures : LedTo(f, r) /\ (now - r >= RestartWindow \/ r - f <= Lateness + Pace)
      BY DEF PaceInv, Paced
    <3>2. r <= now
      BY <1>4
    <3>3. LedTo(f, r)'
      BY <1>1, <3>1, <3>2 DEF LedTo
    <3>4. r - f <= Lateness + Pace => r - f <= Lateness + Pace'
      <4>1. r \in Nat /\ f \in Nat /\ Pace \in Nat
        BY <1>2, <1>3, <1>4
      <4>2. Lateness \in Nat /\ Pace' \in Nat /\ Pace <= Pace'
        BY <1>3, Numbers
      <4>3. PICK p \in Nat, q \in Nat : p = Pace /\ q = Pace'
        BY <4>1, <4>2
      <4>4. p <= q => (r - f <= Lateness + p => r - f <= Lateness + q)
        BY <4>1, <4>2
      <4> QED BY <4>2, <4>3, <4>4
    <3> QED BY <1>1, <3>1, <3>3, <3>4
  <2>2. \A r, s \in retries' : r < s => \E h \in failures' : r <= h /\ h < s
    BY <1>1 DEF PaceInv, Paced
  <2> QED BY <1>1, <2>1, <2>2 DEF Paced
<1> QED BY <1>5, <1>6

\* When the ladder is reset, the retries so far are older than the window.
LEMMA StablePace ==
  ASSUME PaceInv, StableFires
  PROVE  Clock' /\ Paced'
<1>1. /\ failures' = failures /\ retries' = retries /\ now' = now /\ begun' = begun /\ state' = state
      /\ restartAttempt' = 0 /\ stableAt' = Unarmed /\ retryAt' = retryAt /\ looping' = TRUE
  BY DEF StableFires
<1>2. state = "running" /\ stableAt >= begun + StableReset /\ now >= stableAt
  BY DEF StableFires, PaceInv, BudgetInv, Memory, Clock
<1>3. now \in Nat /\ stableAt \in Nat /\ begun \in 0 .. now /\ retries \subseteq 0 .. begun
  BY DEF PaceInv, BudgetInv, Memory, Clock
<1>4. \A r \in retries : now - r >= RestartWindow
  BY <1>2, <1>3, Numbers
<1>5. Clock'
  BY <1>1, <1>2 DEF Clock, PaceInv
<1>6. Paced'
  BY <1>1, <1>4 DEF Paced, LedTo, PaceInv
<1> QED BY <1>5, <1>6

LEMMA RestartPace ==
  ASSUME PaceInv, Restart
  PROVE  Clock' /\ Paced'
BY DEF PaceInv, BudgetInv, Memory, Restart, Clock, Paced

LEMMA PaceStays == PaceInv /\ [LadderNext]_ladderVars => PaceInv'
<1> SUFFICES ASSUME PaceInv, [LadderNext]_ladderVars PROVE PaceInv'
  OBVIOUS
<1>1. BudgetInv'
  BY StepBudget DEF PaceInv
<1>2. CASE UNCHANGED ladderVars
  BY <1>1, <1>2 DEF PaceInv, Clock, Paced, Last, LedTo, Pace, ladderVars, ladder, timers, past
<1>3. CASE LadderNext
  BY <1>1, <1>3, TickPace, RetryPace, RunningPace, FailPace, StablePace, RestartPace DEF LadderNext, PaceInv
<1> QED BY <1>2, <1>3

LEMMA PaceHolds == LadderSpec => []PaceInv
<1>1. LadderInit => PaceInv
  BY InitBudget, InitPace DEF PaceInv
<1> QED BY <1>1, PaceStays, PTL DEF LadderSpec

-----------------------------------------------------------------------------
(* Attempts in a window. *)

Near(times, r) == {s \in times : r <= s /\ s - r < RestartWindow - Lateness}

\* Each retry that is near the one at r had a failure of its own lead to it,
\* and the tracker has all of these.
LEMMA NearAreFew ==
  ASSUME PaceInv, Retry, NEW r \in retries', now \in Near(retries', r)
  PROVE  Cardinality(Near(retries', r)) <= MaxRestarts
<1>1. PICK g \in failures : /\ Last(g) /\ LedTo(g, now) /\ now - g <= Lateness + Pace
                            /\ g = retryAt - Pace /\ Pace \in Nat \ {0}
                            /\ \A s \in retries : s <= g
  BY RetryIsLed
<1>2. PaceInv'
  BY RetryPace, StepBudget DEF PaceInv, LadderNext
<1>3. failures' = failures /\ now' = now /\ retries' = retries \cup {now} /\ now >= retryAt
  BY DEF Retry
<1>4. now \in Nat /\ retryAt \in Nat /\ failures \subseteq Nat /\ retries' \subseteq Nat
  BY <1>3 DEF PaceInv, BudgetInv, Memory, Clock
<1>5. PICK S : S = Near(retries', r)
  OBVIOUS
<1>6. \A s \in S : s \in retries' /\ s \in Nat /\ r <= s
  BY <1>4, <1>5 DEF Near
<1>7. \A s \in S : \E f \in failures : LedTo(f, s)
  BY <1>2, <1>3, <1>6 DEF PaceInv, Paced, LedTo
<1>8. PICK c : c = [s \in S |-> CHOOSE f \in failures : LedTo(f, s)]
  OBVIOUS
<1>9. \A s \in S : c[s] \in failures /\ LedTo(c[s], s) /\ c[s] \in Nat
  BY <1>4, <1>7, <1>8
<1>10. \E f \in failures : LedTo(f, r) /\ g - f < RestartWindow
  <2>1. now - r < RestartWindow - Lateness /\ r \in Nat
    BY <1>4 DEF Near
  <2>2. CASE r = now
    <3>1. g - g < RestartWindow
      BY <1>4, Numbers
    <3> QED BY <1>1, <2>2, <3>1
  <2>3. CASE r \in retries
    <3>1. PICK f \in failures : LedTo(f, r) /\ (now - r >= RestartWindow \/ r - f <= Lateness + Pace)
      BY <2>3 DEF PaceInv, Paced
    <3>2. PICK p \in Nat : p = Pace
      BY <1>1
    <3>3. r - f <= Lateness + p
      BY <1>4, <2>1, <3>1, <3>2, Numbers
    <3>4. g = retryAt - p /\ f \in Nat
      BY <1>1, <1>4, <3>2
    <3>5. g - f < RestartWindow
      BY <1>3, <1>4, <2>1, <3>3, <3>4, Numbers
    <3> QED BY <3>1, <3>5
  <2> QED BY <1>3, <2>2, <2>3
<1>11. PICK f0 \in failures : LedTo(f0, r) /\ g - f0 < RestartWindow
  BY <1>10
<1>12. \A s \in S : c[s] \in InWindow(failures, g)
  <2> SUFFICES ASSUME NEW s \in S PROVE g - c[s] < RestartWindow
    BY <1>9 DEF InWindow
  <2>1. f0 < r /\ r <= s /\ (f0 <= c[s] \/ s <= f0)
    BY <1>6, <1>9, <1>11 DEF LedTo
  <2>2. f0 \in Nat /\ g \in Nat /\ r \in Nat /\ s \in Nat /\ c[s] \in Nat
    BY <1>4, <1>6, <1>9
  <2> QED BY <1>11, <2>1, <2>2, Numbers
<1>13. \A s, t \in S : s < t => c[s] < c[t]
  <2> SUFFICES ASSUME NEW s \in S, NEW t \in S, s < t PROVE c[s] < c[t]
    OBVIOUS
  <2>1. PICK h \in failures' : s <= h /\ h < t
    BY <1>2, <1>6 DEF PaceInv, Paced
  <2>2. c[s] < s /\ (h <= c[t] \/ t <= h)
    BY <1>3, <1>9 DEF LedTo
  <2>3. h \in Nat /\ s \in Nat /\ t \in Nat /\ c[s] \in Nat /\ c[t] \in Nat
    BY <1>3, <1>4, <1>6, <1>9
  <2> QED BY <2>1, <2>2, <2>3
<1>14. c \in Injection(S, timestamps)
  <2>1. InWindow(failures, g) = timestamps
    BY <1>1 DEF PaceInv, BudgetInv, Verdict, Last, Retry
  <2>2. c \in [S -> timestamps]
    BY <1>8, <1>12, <2>1
  <2>3. \A s, t \in S : c[s] = c[t] => s = t
    <3> SUFFICES ASSUME NEW s \in S, NEW t \in S, c[s] = c[t] PROVE s = t
      OBVIOUS
    <3>1. s \in Nat /\ t \in Nat /\ c[s] \in Nat /\ c[t] \in Nat
      BY <1>6, <1>9
    <3>2. ~(c[s] < c[t]) /\ ~(c[t] < c[s])
      BY <3>1
    <3> QED BY <1>13, <3>1, <3>2
  <2> QED BY <2>2, <2>3 DEF Injection, IsInjective
<1>15. IsFiniteSet(timestamps)
  <2>1. timestamps \subseteq 0 .. now /\ 0 \in Int /\ now \in Int
    BY <1>4 DEF PaceInv, BudgetInv, Memory
  <2> QED BY <2>1, FS_Interval, FS_Subset
<1>16. Cardinality(S) <= Cardinality(timestamps) /\ IsFiniteSet(S)
  BY <1>14, <1>15, FS_Injection
<1>17. Cardinality(timestamps) <= MaxRestarts
  <2>1. ~(Cardinality(timestamps) > MaxRestarts)
    BY DEF PaceInv, BudgetInv, Verdict, Retry
  <2>2. Cardinality(timestamps) \in Nat
    BY <1>15, FS_CardinalityType
  <2> QED BY <2>1, <2>2, Numbers
<1>18. Cardinality(S) \in Nat /\ Cardinality(timestamps) \in Nat
  BY <1>15, <1>16, FS_CardinalityType
<1> QED BY <1>5, <1>16, <1>17, <1>18, Numbers

LEMMA RateStays ==
  ASSUME PaceInv, RateBound, [LadderNext]_ladderVars
  PROVE  RateBound'
<1>0. RateBound <=> \A r \in retries : Cardinality(Near(retries, r)) <= MaxRestarts
  BY DEF RateBound, Near
<1>1. CASE retries' = retries
  BY <1>1 DEF RateBound
<1>2. CASE retries' = {}
  BY <1>2 DEF RateBound
<1>3. CASE Retry
  <2>1. \A r \in retries' : Cardinality(Near(retries', r)) <= MaxRestarts
    <3> SUFFICES ASSUME NEW r \in retries', now \notin Near(retries', r)
                 PROVE  Cardinality(Near(retries', r)) <= MaxRestarts
      BY <1>3, NearAreFew
    <3>1. retries' = retries \cup {now} /\ now \in Nat /\ retries \subseteq 0 .. now
      BY <1>3 DEF Retry, PaceInv, BudgetInv, Memory, Clock
    <3>2. CASE r \in retries
      <4>1. Near(retries', r) = Near(retries, r)
        BY <3>1 DEF Near
      <4> QED BY <1>0, <3>2, <4>1
    <3>3. CASE r = now /\ r \notin retries
      <4>1. ASSUME NEW s \in Near(retries', r) PROVE FALSE
        <5>1. s \in retries' /\ now <= s
          BY <3>3 DEF Near
        <5>2. s = now
          BY <3>1, <5>1
        <5> QED BY <5>2
      <4> QED BY <4>1, FS_EmptySet, Numbers
    <3> QED BY <3>1, <3>2, <3>3
  <2> QED BY <2>1 DEF RateBound, Near
<1> QED
  BY <1>1, <1>2, <1>3
  DEF LadderNext, Tick, Succeeds, Fail, ScheduleRestart, StableFires, Restart, ladderVars, past

LEMMA RateHolds == LadderSpec => []RateBound
<1>1. LadderInit => RateBound
  BY DEF LadderInit, RateBound
<1>2. PaceInv /\ RateBound /\ [LadderNext]_ladderVars => RateBound'
  BY RateStays
<1> QED BY <1>1, <1>2, PaceHolds, PTL DEF LadderSpec

-----------------------------------------------------------------------------
(* A crash loop. *)

LEMMA InitLoop == LadderInit => Loop
<1> SUFFICES ASSUME LadderInit PROVE Loop
  OBVIOUS
<1>1. restartAttempt = 0 /\ timestamps = {} /\ state = "spawning"
  BY DEF LadderInit
<1>2. Cardinality(timestamps) = 0
  BY <1>1, FS_EmptySet
<1> QED BY <1>1, <1>2, Numbers DEF Loop

\* The delay, and the lateness of the timer, are in the next span.
LEMMA RetryLoops ==
  ASSUME PaceInv, Loop, Retry
  PROVE  Loop'
<1> SUFFICES ASSUME looping PROVE Loop'
  BY DEF Loop, Retry
<1>1. PICK g \in failures : /\ Last(g) /\ LedTo(g, now) /\ now - g <= Lateness + Pace
                            /\ g = retryAt - Pace /\ Pace \in Nat \ {0}
                            /\ \A s \in retries : s <= g
  BY RetryIsLed
<1>2. PICK a \in Nat : a + 1 = restartAttempt /\ a = restartAttempt - 1
  <2>1. restartAttempt - 1 \in Nat /\ (restartAttempt - 1) + 1 = restartAttempt
    BY DEF PaceInv, Clock, Retry
  <2> QED BY <2>1
<1>3. PICK p \in Nat, u \in Nat, v \in Nat : p = Delay(a) /\ u = Span(a) /\ v = Span(a + 1)
  BY DelayFacts, SpanGrows
<1>4. v = u + p + Lateness + Quick /\ Pace = p
  <2>1. Pace = p
    BY <1>2, <1>3 DEF Pace, Retry
  <2>2. v = u + p + Lateness + Quick
    BY <1>3, SpanGrows
  <2> QED BY <2>1, <2>2
<1>5. ASSUME NEW f \in timestamps PROVE f < now /\ now - f + Quick <= v
  <2>1. g - f <= u /\ f <= g /\ g < now
    BY <1>1, <1>2, <1>3 DEF Loop, Retry, Last, LedTo, PaceInv, BudgetInv, Memory
  <2>2. f \in Nat /\ g \in Nat /\ now \in Nat
    BY DEF PaceInv, BudgetInv, Memory
  <2>3. now - g <= Lateness + p
    BY <1>1, <1>4
  <2> QED BY <1>4, <2>1, <2>2, <2>3, Numbers
<1>6. /\ timestamps' = timestamps /\ restartAttempt' = restartAttempt /\ begun' = now /\ state' = "spawning"
      /\ looping' = looping /\ state = "backoff"
  BY DEF Retry, ladder
<1> QED BY <1>2, <1>3, <1>5, <1>6 DEF Loop

\* What the window lets the tracker drop is no failure of the loop.
LEMMA FailLoops ==
  ASSUME PaceInv, Loop, Fail, LoopFits
  PROVE  Loop'
<1> SUFFICES ASSUME looping, now - begun <= Quick, state' = "backoff" PROVE Loop'
  BY DEF Loop, Fail, ScheduleRestart
<1>1. /\ failures' = failures \cup {now} /\ restartAttempt' = restartAttempt + 1 /\ timestamps' = Record
      /\ state \in {"spawning", "running"} /\ ~(Cardinality(Record) > MaxRestarts)
  BY DEF Fail, ScheduleRestart
<1>2. /\ restartAttempt <= MaxRestarts /\ Cardinality(timestamps) = restartAttempt
      /\ \A f \in timestamps : f < begun /\ begun - f + Quick <= Span(restartAttempt)
  BY <1>1 DEF Loop
<1>3. /\ restartAttempt \in Nat /\ now \in Nat /\ begun \in 0 .. now
      /\ failures \subseteq 0 .. now /\ timestamps \subseteq failures
  BY DEF PaceInv, BudgetInv, Memory, Clock
<1>4. PICK u \in Nat, w \in Nat : u = Span(restartAttempt) /\ w = Span(MaxRestarts) /\ u <= w /\ w < RestartWindow
  <2>1. Span(restartAttempt) \in Nat /\ Span(MaxRestarts) \in Nat
    BY <1>3, Numbers, SpanGrows
  <2>2. Span(restartAttempt) <= Span(MaxRestarts)
    BY <1>2, <1>3, Numbers, SpanClimbs
  <2> QED BY <2>1, <2>2 DEF LoopFits
<1>5. ASSUME NEW f \in timestamps PROVE f < now /\ now - f <= u /\ now - f < RestartWindow
  <2>1. f \in Nat /\ begun \in Nat /\ begun <= now
    BY <1>3
  <2>2. f < begun /\ begun - f + Quick <= u
    BY <1>2, <1>4
  <2> QED BY <1>3, <1>4, <2>1, <2>2, Numbers
<1>6. Record = timestamps \cup {now} /\ now \notin timestamps
  <2>1. now - now < RestartWindow /\ \A f \in timestamps : f # now
    BY <1>3, <1>5, Numbers
  <2>2. InWindow(timestamps, now) = timestamps
    BY <1>5 DEF InWindow
  <2> QED BY <2>1, <2>2 DEF Record
<1>7. IsFiniteSet(timestamps)
  <2>1. timestamps \subseteq 0 .. now /\ 0 \in Int /\ now \in Int
    BY <1>3
  <2> QED BY <2>1, FS_Interval, FS_Subset
<1>8. Cardinality(Record) = restartAttempt + 1
  BY <1>2, <1>6, <1>7, FS_AddElement
<1>9. restartAttempt' <= MaxRestarts /\ Cardinality(timestamps') = restartAttempt'
  BY <1>1, <1>3, <1>8, Numbers
<1>10. ASSUME NEW g \in failures', Last(g)', NEW f \in timestamps'
       PROVE  g - f <= Span(restartAttempt' - 1)
  <2>1. g = now
    <3>1. now <= g
      BY <1>1, <1>10 DEF Last
    <3>2. g \in 0 .. now
      BY <1>1, <1>3
    <3> QED BY <1>3, <3>1, <3>2
  <2>2. restartAttempt' - 1 = restartAttempt
    BY <1>1, <1>3
  <2>3. CASE f \in timestamps
    BY <1>4, <1>5, <2>1, <2>2, <2>3
  <2>4. CASE f = now
    BY <1>3, <1>4, <2>1, <2>2, <2>4
  <2> QED BY <1>1, <1>6, <2>3, <2>4
<1> QED BY <1>9, <1>10 DEF Loop

\* A reset leaves no failure.
LEMMA ResetLoops ==
  ASSUME timestamps' = {}, restartAttempt' = 0, state' \in {"spawning", "running"}
  PROVE  Loop'
<1>1. Cardinality(timestamps') = 0
  BY FS_EmptySet
<1> QED BY <1>1, Numbers DEF Loop

LEMMA LoopStays ==
  ASSUME PaceInv, Loop, [LadderNext]_ladderVars, LoopFits
  PROVE  Loop'
<1>1. CASE Tick \/ Succeeds \/ UNCHANGED ladderVars
  BY <1>1 DEF Loop, Last, Tick, Succeeds, ladderVars, ladder, timers, past
<1>2. CASE StableFires
  <2>1. state' \in {"spawning", "running"}
    BY <1>2 DEF StableFires, PaceInv, BudgetInv, Memory
  <2> QED BY <1>2, <2>1, ResetLoops DEF StableFires
<1>3. CASE Restart
  BY <1>3, ResetLoops DEF Restart
<1> QED BY <1>1, <1>2, <1>3, RetryLoops, FailLoops DEF LadderNext

-----------------------------------------------------------------------------
(* The supervisor's ladder. *)

(* Every variable has its type, the tracker holds only failures there were *)
(* (record), and the stable timer is armed only while an agent runs        *)
(* (startStableTimer, clearStableTimer).                                   *)
THEOREM TypeCorrect == LadderSpec => []LadderTypeOK
<1>1. LadderInit => now <= MaxTime
  BY LadderAssumption DEF LadderInit
<1>2. now <= MaxTime /\ PaceInv /\ [LadderNext]_ladderVars => (now <= MaxTime)'
  <2> SUFFICES ASSUME now <= MaxTime, PaceInv, [LadderNext]_ladderVars PROVE now' <= MaxTime
    OBVIOUS
  <2>1. CASE Tick
    BY <2>1, LadderAssumption DEF Tick, PaceInv, BudgetInv, Memory
  <2>2. CASE now' = now
    BY <2>2
  <2> QED BY <2>1, <2>2 DEF LadderNext, Retry, Succeeds, Fail, StableFires, Restart, ladderVars
<1>3. now <= MaxTime /\ PaceInv => LadderTypeOK
  BY LadderAssumption DEF PaceInv, BudgetInv, Memory, Clock, LadderTypeOK
<1> QED BY <1>1, <1>2, <1>3, PaceHolds, PTL DEF LadderSpec

(* No time shorter than the window, less the lateness of timers, sees more *)
(* than MaxRestarts automatic attempts, whatever the delays were and       *)
(* whenever the ladder was reset (scheduleRestart, startStableTimer); and  *)
(* when a crash loop fits into the window it is given up after MaxRestarts *)
(* attempts (computeBackoffDelay, record).                                 *)
THEOREM RetriesAreBounded ==
  ASSUME LoopFits
  PROVE  LadderSpec => []RetriesBounded
<1>1. PaceInv /\ Loop /\ [LadderNext]_ladderVars => Loop'
  BY LoopStays
<1>2. RateBound /\ PaceInv /\ Loop => RetriesBounded
  BY DEF Loop, CrashLoopEnds, RetriesBounded
<1> QED BY <1>1, <1>2, InitLoop, PaceHolds, RateHolds, PTL DEF LadderSpec
=============================================================================
