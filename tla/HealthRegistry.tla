---------------------------- MODULE HealthRegistry ----------------------------
(***************************************************************************)
(* The agent's service monitors: the registry of monitors with a scheduler *)
(* each (HealthRegistry), the probes they have in flight, and the state    *)
(* machine that turns results into alerts (MonitorStateMachine).           *)
(*                                                                         *)
(* The agent is one JavaScript thread.  A step is one request of the CRUD  *)
(* API, one timer callback, or the continuation of one probe; the service  *)
(* that is probed goes up and down between any two of them.                *)
(***************************************************************************)
EXTENDS Integers, Sequences, FiniteSets

CONSTANTS
  Ids,            \* identities of monitors (fresh UUIDs in the code)
  Thresholds,     \* pairs [failure, recovery] a request may ask for
  MaxMonitors,    \* LIMITS.maxMonitors
  ResultHistory,  \* RESULT_HISTORY
  MaxUpdates      \* bound on the PATCH requests of a behaviour

ASSUME HealthAssumption ==
  /\ MaxMonitors \in Nat /\ MaxUpdates \in Nat
  /\ ResultHistory \in Nat \ {0}
  /\ Thresholds \subseteq [failure : 1 .. ResultHistory, recovery : 1 .. ResultHistory]

VARIABLES
  registered,  \* keys of this.monitors
  enabled,     \* config.enabled
  asked,       \* config.failureThreshold and config.recoveryThreshold
  thresholds,  \* the thresholds the state machine was built with
  state,       \* stateValue, and config.state, its copy
  failures,    \* consecutiveFailures, counted up to ResultHistory
  oks,         \* consecutiveOks, counted up to ResultHistory
  results,     \* config.recentResults: ok, and old if of a spec since replaced
  timer,       \* "none", "jitter" (jitterTimer) or "interval" (intervalTimer)
  inFlight,    \* the flag of the runtime
  probes,      \* probes awaiting their answer, of the current or an old spec
  service,     \* the monitored service: "up" or "down"
  updates,     \* PATCH requests so far
  forgotten    \* history: times inFlight was cleared with a probe in flight

machine == <<thresholds, state, failures, oks>>
scheduler == <<timer, inFlight>>
vars == <<registered, enabled, asked, machine, results, scheduler, probes,
          service, updates, forgotten>>

Kinds == {"current", "old"}
Outstanding(m) == probes[m]["current"] + probes[m]["old"]
UpTo(n, bound) == IF n < bound THEN n ELSE bound

TypeOK ==
  /\ registered \in SUBSET Ids /\ Cardinality(registered) <= MaxMonitors
  /\ enabled \in [Ids -> BOOLEAN]
  /\ asked \in [Ids -> Thresholds] /\ thresholds \in [Ids -> Thresholds]
  /\ state \in [Ids -> {"unknown", "healthy", "unhealthy"}]
  /\ failures \in [Ids -> 0 .. ResultHistory] /\ oks \in [Ids -> 0 .. ResultHistory]
  /\ results \in [Ids -> Seq([ok : BOOLEAN, old : BOOLEAN])]
  /\ timer \in [Ids -> {"none", "jitter", "interval"}]
  /\ inFlight \in [Ids -> BOOLEAN]
  /\ probes \in [Ids -> [Kinds -> Nat]]
  /\ service \in [Ids -> {"up", "down"}]
  /\ updates \in 0 .. MaxUpdates
  /\ forgotten \in [Ids -> Nat]

Init ==
  /\ registered = {} /\ updates = 0
  /\ enabled = [m \in Ids |-> FALSE]
  /\ \E t \in Thresholds : asked = [m \in Ids |-> t] /\ thresholds = [m \in Ids |-> t]
  /\ state = [m \in Ids |-> "unknown"]
  /\ failures = [m \in Ids |-> 0] /\ oks = [m \in Ids |-> 0]
  /\ results = [m \in Ids |-> <<>>]
  /\ timer = [m \in Ids |-> "none"]
  /\ inFlight = [m \in Ids |-> FALSE]
  /\ probes = [m \in Ids |-> [k \in Kinds |-> 0]]
  /\ service = [m \in Ids |-> "up"]
  /\ forgotten = [m \in Ids |-> 0]

-----------------------------------------------------------------------------
(* The CRUD requests. *)

\* Mutant of Add: the limit is not tested.
Add_NoLimit(m, t, on) ==
  /\ m \notin registered /\ Outstanding(m) = 0
  /\ registered' = registered \cup {m}
  /\ enabled' = [enabled EXCEPT ![m] = on]
  /\ timer' = [timer EXCEPT ![m] = IF on THEN "jitter" ELSE "none"]
  /\ inFlight' = [inFlight EXCEPT ![m] = FALSE]
  /\ forgotten' = [forgotten EXCEPT ![m] = 0]
  /\ UNCHANGED <<asked, machine, results, probes, service, updates>>

\* add(): below the limit, under a new identity.
Add(m, t, on) ==
  /\ m \notin registered /\ Outstanding(m) = 0
  /\ Cardinality(registered) < MaxMonitors
  /\ registered' = registered \cup {m}
  /\ enabled' = [enabled EXCEPT ![m] = on]
  /\ asked' = [asked EXCEPT ![m] = t] /\ thresholds' = [thresholds EXCEPT ![m] = t]
  /\ state' = [state EXCEPT ![m] = "unknown"]
  /\ failures' = [failures EXCEPT ![m] = 0] /\ oks' = [oks EXCEPT ![m] = 0]
  /\ results' = [results EXCEPT ![m] = <<>>]
  /\ timer' = [timer EXCEPT ![m] = IF on THEN "jitter" ELSE "none"]
  /\ inFlight' = [inFlight EXCEPT ![m] = FALSE]
  /\ forgotten' = [forgotten EXCEPT ![m] = 0]
  /\ UNCHANGED <<probes, service, updates>>

\* Mutant of Reset: the counters of the machine survive.
Reset_KeepsCounts(m) ==
  /\ state' = [state EXCEPT ![m] = "unknown"]
  /\ results' = [results EXCEPT ![m] = <<>>]
  /\ probes' = [probes EXCEPT ![m] =
       [k \in Kinds |-> IF k = "old" THEN Outstanding(m) ELSE 0]]
  /\ UNCHANGED <<failures, oks>>

\* MonitorStateMachine.reset() and the cleared copies of update(), when the url,
\* the method or the expected status changes; a probe in flight goes on.
Reset(m) ==
  /\ state' = [state EXCEPT ![m] = "unknown"]
  /\ failures' = [failures EXCEPT ![m] = 0] /\ oks' = [oks EXCEPT ![m] = 0]
  /\ results' = [results EXCEPT ![m] = <<>>]
  /\ probes' = [probes EXCEPT ![m] =
       [k \in Kinds |-> IF k = "old" THEN Outstanding(m) ELSE 0]]

\* Mutant of Update: the timer is armed only when the monitor is switched on.
Update_KeepsUnscheduled(m, t, on, resets) ==
  /\ m \in registered /\ updates < MaxUpdates
  /\ updates' = updates + 1
  /\ asked' = [asked EXCEPT ![m] = t]
  /\ enabled' = [enabled EXCEPT ![m] = on]
  /\ IF resets THEN Reset(m) ELSE UNCHANGED <<state, failures, oks, results, probes>>
  /\ timer' = [timer EXCEPT ![m] = IF on /\ ~enabled[m] THEN "jitter" ELSE "none"]
  /\ UNCHANGED <<registered, thresholds, inFlight, forgotten, service>>

\* update(): the machine keeps the thresholds it has; the timer is armed anew; a
\* monitor that is switched off forgets that a probe is in flight.
Update(m, t, on, resets) ==
  /\ m \in registered /\ updates < MaxUpdates
  /\ updates' = updates + 1
  /\ asked' = [asked EXCEPT ![m] = t]
  /\ enabled' = [enabled EXCEPT ![m] = on]
  /\ IF resets THEN Reset(m) ELSE UNCHANGED <<state, failures, oks, results, probes>>
  /\ timer' = [timer EXCEPT ![m] = IF on THEN "jitter" ELSE "none"]
  /\ IF ~on /\ enabled[m]
     THEN /\ inFlight' = [inFlight EXCEPT ![m] = FALSE]
          /\ forgotten' = [forgotten EXCEPT ![m] = IF inFlight[m] THEN @ + 1 ELSE @]
     ELSE UNCHANGED <<inFlight, forgotten>>
  /\ UNCHANGED <<registered, thresholds, service>>

\* remove() and closeAll(): only their probes still refer to the runtimes, and
\* ask whether they are registered; the fields a late probe cannot show are blank.
Remove(ms) ==
  /\ ms # {} /\ ms \subseteq registered
  /\ registered' = registered \ ms
  /\ timer' = [m \in Ids |-> IF m \in ms THEN "none" ELSE timer[m]]
  /\ state' = [m \in Ids |-> IF m \in ms THEN "unknown" ELSE state[m]]
  /\ failures' = [m \in Ids |-> IF m \in ms THEN 0 ELSE failures[m]]
  /\ oks' = [m \in Ids |-> IF m \in ms THEN 0 ELSE oks[m]]
  /\ results' = [m \in Ids |-> IF m \in ms THEN <<>> ELSE results[m]]
  /\ UNCHANGED <<enabled, asked, thresholds, inFlight, probes,
                 service, updates, forgotten>>

-----------------------------------------------------------------------------
(* The scheduler and the probes. *)

\* Mutant of Tick: the flag is not tested.
Tick_NoFlag(m) ==
  /\ inFlight' = [inFlight EXCEPT ![m] = TRUE]
  /\ probes' = [probes EXCEPT ![m]["current"] = UpTo(@ + 1, 3)]
  /\ UNCHANGED <<registered, enabled, asked, machine, results, service, updates, forgotten>>

\* tick(): one probe at a time, as far as the flag tells.  The count of skipped
\* ticks and its warning are left out.
Tick(m) ==
  /\ IF inFlight[m]
     THEN UNCHANGED <<inFlight, probes>>
     ELSE /\ inFlight' = [inFlight EXCEPT ![m] = TRUE]
          /\ probes' = [probes EXCEPT ![m]["current"] = @ + 1]
  /\ UNCHANGED <<registered, enabled, asked, machine, results, service, updates, forgotten>>

\* The jitter timer of schedule(): the first tick, then the interval.
JitterFires(m) ==
  /\ timer[m] = "jitter"
  /\ timer' = [timer EXCEPT ![m] = "interval"]
  /\ Tick(m)

IntervalFires(m) ==
  /\ timer[m] = "interval"
  /\ Tick(m)
  /\ UNCHANGED timer

\* Mutant of Record: one result too late.
Record_OffByOne(m, ok) ==
  LET f == IF ok THEN 0 ELSE UpTo(failures[m] + 1, ResultHistory)
      o == IF ok THEN UpTo(oks[m] + 1, ResultHistory) ELSE 0
  IN /\ failures' = [failures EXCEPT ![m] = f]
     /\ oks' = [oks EXCEPT ![m] = o]
     /\ state' = [state EXCEPT ![m] =
          CASE @ # "unhealthy" /\ ~ok /\ f > thresholds[m].failure -> "unhealthy"
            [] @ = "unknown" /\ ok -> "healthy"
            [] @ = "unhealthy" /\ ok /\ o > thresholds[m].recovery -> "healthy"
            [] OTHER -> @]

\* MonitorStateMachine.record().
Record(m, ok) ==
  LET f == IF ok THEN 0 ELSE UpTo(failures[m] + 1, ResultHistory)
      o == IF ok THEN UpTo(oks[m] + 1, ResultHistory) ELSE 0
  IN /\ failures' = [failures EXCEPT ![m] = f]
     /\ oks' = [oks EXCEPT ![m] = o]
     /\ state' = [state EXCEPT ![m] =
          CASE @ # "unhealthy" /\ ~ok /\ f >= thresholds[m].failure -> "unhealthy"
            [] @ = "unknown" /\ ok -> "healthy"
            [] @ = "unhealthy" /\ ok /\ o >= thresholds[m].recovery -> "healthy"
            [] OTHER -> @]

\* recentResults.push() and, beyond the history, shift().
Push(m, result) ==
  results' = [results EXCEPT ![m] =
    LET longer == Append(@, result)
    IN IF Len(longer) > ResultHistory THEN Tail(longer) ELSE longer]

\* runProbe() after its await.  A probe of the current spec finds the service as
\* it is; what an old one found may be anything.
ProbeEnds(m, k, ok) ==
  /\ probes[m][k] > 0
  /\ k = "current" => ok = (service[m] = "up")
  /\ probes' = [probes EXCEPT ![m][k] = @ - 1]
  /\ inFlight' = [inFlight EXCEPT ![m] = FALSE]
  /\ IF m \in registered /\ enabled[m]
     THEN Record(m, ok) /\ Push(m, [ok |-> ok, old |-> k = "old"])
     ELSE UNCHANGED <<state, failures, oks, results>>
  /\ UNCHANGED <<registered, enabled, asked, thresholds, timer, service,
                 updates, forgotten>>

\* The service crashes or comes back.
ServiceChanges(m) ==
  /\ m \in registered
  /\ service' = [service EXCEPT ![m] = IF @ = "up" THEN "down" ELSE "up"]
  /\ UNCHANGED <<registered, enabled, asked, machine, results, scheduler, probes,
                 updates, forgotten>>

Next ==
  \/ \E m \in Ids :
       \/ \E t \in Thresholds, on \in BOOLEAN : Add(m, t, on)
       \/ \E t \in Thresholds, on, resets \in BOOLEAN : Update(m, t, on, resets)
       \/ JitterFires(m) \/ IntervalFires(m) \/ ServiceChanges(m)
       \/ \E k \in Kinds, ok \in BOOLEAN : ProbeEnds(m, k, ok)
  \/ \E ms \in SUBSET Ids : Remove(ms)

\* Timers fire, and a probe ends: its request is aborted after timeoutMs.
Fairness ==
  \A m \in Ids :
    /\ WF_vars(JitterFires(m)) /\ WF_vars(IntervalFires(m))
    /\ \A k \in Kinds : WF_vars(\E ok \in BOOLEAN : ProbeEnds(m, k, ok))

SafeSpec == Init /\ [][Next]_vars
Spec == SafeSpec /\ Fairness

-----------------------------------------------------------------------------
(* Safety. *)

\* The last n results of a history are all of the given outcome.
EndsIn(seq, n, ok) ==
  LET len == Len(seq)
  IN len >= n /\ \A i \in len - n + 1 .. len : seq[i].ok = ok

LastAre(m, n, ok) == EndsIn(results[m], n, ok)

\* What the user sees agrees with the results the user sees: a full run of
\* failures means unhealthy, a full run of successes healthy, and unknown that
\* neither a success nor a full run of failures was seen since the last reset.
StateMatchesResults ==
  \A m \in Ids :
    /\ LastAre(m, thresholds[m].failure, FALSE) => state[m] = "unhealthy"
    /\ LastAre(m, thresholds[m].recovery, TRUE) => state[m] = "healthy"
    /\ state[m] = "unknown" =>
         \A i \in 1 .. Len(results[m]) : ~results[m][i].ok

\* An alert is earned: unhealthy is entered only with a full run of failures on
\* record, and left, but for a reset, only with a full run of successes, however
\* probes, edits and switches interleave (record, runProbe).
AlertsAreEarned ==
  [][\A m \in registered :
       /\ state[m] # "unhealthy" /\ state'[m] = "unhealthy" =>
            LastAre(m, thresholds[m].failure, FALSE)'
       /\ state[m] = "unhealthy" /\ state'[m] = "healthy" =>
            LastAre(m, thresholds[m].recovery, TRUE)']_vars

\* A result that comes in when its monitor is removed or off changes nothing that
\* is shown (the test after the await in runProbe).
LateResultsDropped ==
  [][\A m \in Ids :
       (m \notin registered \/ ~enabled[m]) /\ results'[m] # results[m] => results'[m] = <<>>]_vars

\* No monitor has two probes in flight, as the comment above HealthRegistry and
\* PDD 547 say.  A monitor switched off and on again in mid-probe has.
AtMostOneProbe == \A m \in Ids : Outstanding(m) <= 1

\* What holds of the flag that tick() tests, over all edits, removals and late
\* ends: a probe beside another is owed to a switch-off in mid-probe of its own.
OverlapsAreCounted ==
  \A m \in Ids :
    Outstanding(m) <= forgotten[m] + (IF inFlight[m] THEN 1 ELSE 0)

-----------------------------------------------------------------------------
(* Liveness. *)

Watched(m) == m \in registered /\ enabled[m]

\* An outage that lasts is reported, and so is a service that stays up.
OutagesAreSeen ==
  \A m \in Ids :
    /\ <>[](Watched(m) /\ service[m] = "down") => <>[](state[m] = "unhealthy")
    /\ <>[](Watched(m) /\ service[m] = "up") => <>[](state[m] = "healthy")

\* A result of a replaced spec may slip in after the reset, but not for ever.
OldResultsGoAway ==
  \A m \in Ids :
    <>[]Watched(m) => <>[](\A i \in 1 .. Len(results[m]) : ~results[m][i].old)

\* A probe that outlives what it was started for does no lasting harm: nothing
\* shows of it when its monitor is removed or off, and not for ever when its
\* target was replaced (the test after the await in runProbe, reset).
LateResultsFade == LateResultsDropped /\ OldResultsGoAway

\* Whatever edits, switches and overlapping probes came before, a monitor comes to
\* show its service as it is, and nothing else.
ShownIsCurrent == OutagesAreSeen /\ LateResultsFade
=============================================================================
