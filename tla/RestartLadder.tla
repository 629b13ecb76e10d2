----------------------------- MODULE RestartLadder -----------------------------
(***************************************************************************)
(* When the supervisor tries again, and when it gives up: the delays of    *)
(* computeBackoffDelay, the rolling window of RestartTracker, and the      *)
(* timer that forgets both once an agent has been stable.  Supervisor has  *)
(* the calls and the processes without time; here is one agent after the   *)
(* other, with time.                                                       *)
(*                                                                         *)
(* Time is a number of BackoffBase's unit.  A timer never fires before it  *)
(* is due; the one of a backoff fires at most Lateness after.              *)
(***************************************************************************)
EXTENDS Integers, FiniteSets

CONSTANTS
  BackoffBase, BackoffCap,     \* backoffBaseMs, backoffCapMs
  MaxRestarts, RestartWindow,  \* of RestartTracker
  StableReset,                 \* stableResetMs
  Lateness,                    \* of the backoff timer
  Quick,                       \* how long an agent of a crash loop lasts
  MaxTime                      \* bound on the time

(* DEFAULT_STABLE_RESET_MS and DEFAULT_RESTART_WINDOW_MS are the same.     *)
ASSUME LadderAssumption ==
  /\ {BackoffBase, BackoffCap, RestartWindow, StableReset} \subseteq Nat \ {0}
  /\ {MaxRestarts, Lateness, Quick, MaxTime} \subseteq Nat
  /\ StableReset >= RestartWindow

VARIABLES
  now,
  state,           \* "spawning", "running", "backoff" or "failed"
  timestamps,      \* of RestartTracker; no two failures are at one time
  restartAttempt,
  retryAt,         \* nextRetryAtMs, when the backoff timer is due
  stableAt,        \* when the stable timer is due, or Unarmed
  begun,           \* when the agent that runs was spawned
  failures,        \* history: times of failures since the last manual restart
  retries,         \* history: times of automatic attempts since then
  looping          \* history: no agent lasted since the ladder was reset

ladder == <<timestamps, restartAttempt>>
timers == <<retryAt, stableAt>>
past == <<failures, retries, looping>>
ladderVars == <<now, state, ladder, timers, begun, past>>

Unarmed == 0
Min2(a, b) == IF a < b THEN a ELSE b
Max2(a, b) == IF a > b THEN a ELSE b
InWindow(times, t) == {s \in times : t - s < RestartWindow}

(* BackoffBase, doubled with each attempt. *)
Doubled(attempt) ==
  LET doubled[n \in 0 .. attempt] == IF n = 0 THEN BackoffBase ELSE 2 * doubled[n - 1]
  IN doubled[attempt]

\* Mutant of Delay: counts the attempts from one.
Delay_FromOne(attempt) == Min2(BackoffCap, Max2(BackoffBase, Doubled(attempt + 1)))

(* computeBackoffDelay *)
Delay(attempt) == Min2(BackoffCap, Max2(BackoffBase, Doubled(attempt)))

LadderInit ==
  /\ now = 0 /\ state = "spawning" /\ timestamps = {} /\ restartAttempt = 0
  /\ retryAt = 0 /\ stableAt = Unarmed /\ begun = 0
  /\ failures = {} /\ retries = {} /\ looping = TRUE

Tick ==
  /\ now < MaxTime /\ now' = now + 1
  /\ state = "backoff" => now < retryAt + Lateness
  /\ UNCHANGED <<state, ladder, timers, begun, past>>

(* attempt(): its start() has begun, or has succeeded. *)
Retry ==
  /\ state = "backoff" /\ now >= retryAt
  /\ state' = "spawning" /\ begun' = now /\ retries' = retries \cup {now}
  /\ UNCHANGED <<now, ladder, timers, failures, looping>>

Succeeds ==
  /\ state = "spawning" /\ state' = "running" /\ stableAt' = now + StableReset
  /\ UNCHANGED <<now, ladder, retryAt, begun, past>>

\* Mutant of Record: a restart that is just as old as the window counts.
Record_TooLong == {t \in timestamps : now - t <= RestartWindow} \cup {now}

(* RestartTracker.record *)
Record == InWindow(timestamps, now) \cup {now}

\* Mutant of ScheduleRestart: the stable timer is left to fire.
ScheduleRestart_KeepsStable ==
  /\ timestamps' = Record /\ restartAttempt' = restartAttempt + 1
  /\ IF Cardinality(Record) > MaxRestarts
     THEN state' = "failed" /\ UNCHANGED retryAt
     ELSE state' = "backoff" /\ retryAt' = now + Delay(restartAttempt)
  /\ UNCHANGED stableAt

(* One more restart, or one too many. *)
ScheduleRestart ==
  /\ stableAt' = Unarmed
  /\ timestamps' = Record /\ restartAttempt' = restartAttempt + 1
  /\ IF Cardinality(Record) > MaxRestarts
     THEN state' = "failed" /\ UNCHANGED retryAt
     ELSE state' = "backoff" /\ retryAt' = now + Delay(restartAttempt)

(* start() rejects, or the agent exits unexpectedly. *)
Fail ==
  /\ state \in {"spawning", "running"} /\ ScheduleRestart
  /\ failures' = failures \cup {now} /\ looping' = (looping /\ now - begun <= Quick)
  /\ UNCHANGED <<now, begun, retries>>

StableFires ==
  /\ stableAt # Unarmed /\ now >= stableAt
  /\ stableAt' = Unarmed /\ timestamps' = {} /\ restartAttempt' = 0 /\ looping' = TRUE
  /\ UNCHANGED <<now, state, retryAt, begun, failures, retries>>

(* restart(), without an agent: Supervisor has the other cases. *)
Restart ==
  /\ state \in {"failed", "backoff"} /\ state' = "spawning" /\ begun' = now
  /\ stableAt' = Unarmed /\ timestamps' = {} /\ restartAttempt' = 0
  /\ failures' = {} /\ retries' = {} /\ looping' = TRUE
  /\ UNCHANGED <<now, retryAt>>

LadderNext == Tick \/ Retry \/ Succeeds \/ Fail \/ StableFires \/ Restart

LadderSpec == LadderInit /\ [][LadderNext]_ladderVars

-----------------------------------------------------------------------------

LadderTypeOK ==
  /\ now \in 0 .. MaxTime /\ state \in {"spawning", "running", "backoff", "failed"}
  /\ {retryAt, stableAt, begun, restartAttempt} \subseteq Nat
  /\ timestamps \subseteq failures /\ failures \cup retries \subseteq 0 .. now
  /\ looping \in BOOLEAN
  /\ stableAt # Unarmed => state = "running"

(* FR-19, as it is judged at the last failure: the supervisor goes on as   *)
(* long as no more than MaxRestarts failures fall into the window, and     *)
(* gives up as soon as more do.  What the stable timer makes the tracker   *)
(* forget is never a failure that would still count.                       *)
BudgetKept ==
  \A last \in failures :
    (\A f \in failures : f <= last) =>
      LET many == Cardinality(InWindow(failures, last)) > MaxRestarts
      IN /\ state = "backoff" => ~many
         /\ state = "failed" => many

(* No time shorter than the window sees more than MaxRestarts automatic    *)
(* attempts, whatever the delays between them were and whether the ladder  *)
(* was reset among them; late timers shorten that time by what they may be *)
(* late.                                                                   *)
RateBound ==
  \A r \in retries :
    Cardinality({s \in retries : r <= s /\ s - r < RestartWindow - Lateness}) <= MaxRestarts

(* Agents that never last are given up after MaxRestarts attempts: the     *)
(* delays between them do not let the first failures out of the window.    *)
CrashLoopEnds == state = "backoff" /\ looping => restartAttempt <= MaxRestarts

(* The longest time from a first failure to the one that follows so many   *)
(* attempts of a crash loop; whether a loop fits into the window.          *)
Span(attempts) ==
  LET span[n \in 0 .. attempts] ==
        IF n = 0 THEN 0 ELSE span[n - 1] + (Delay(n - 1) + Lateness + Quick)
  IN span[attempts]
LoopFits == Span(MaxRestarts) < RestartWindow

(* However long agents last, the ladder bounds what is tried.              *)
RetriesBounded == RateBound /\ CrashLoopEnds

=============================================================================
