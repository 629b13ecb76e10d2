----------------------------- MODULE HealthProofs -----------------------------
(***************************************************************************)
(* Theorems about HealthRegistry, for any set of monitors, any thresholds  *)
(* within the history and any number of edits.  The invariant ties the     *)
(* counters of the state machine to the runs at the end of the history.    *)
(***************************************************************************)
EXTENDS HealthRegistry, FiniteSetTheorems, TLAPS

Result == [ok : BOOLEAN, old : BOOLEAN]

\* The counters count the run of equal outcomes the history ends in.
Counted(m) ==
  \A n \in 1 .. ResultHistory :
    /\ failures[m] >= n <=> EndsIn(results[m], n, FALSE)
    /\ oks[m] >= n <=> EndsIn(results[m], n, TRUE)

\* The state follows from the counters and the thresholds of the machine.
Judged(m) ==
  /\ failures[m] >= thresholds[m].failure => state[m] = "unhealthy"
  /\ oks[m] >= thresholds[m].recovery => state[m] = "healthy"
  /\ state[m] = "unknown" => \A i \in 1 .. Len(results[m]) : ~results[m][i].ok

Sound(m) == Len(results[m]) <= ResultHistory /\ Counted(m) /\ Judged(m)

IInv ==
  /\ TypeOK
  /\ IsFiniteSet(registered)
  /\ OverlapsAreCounted
  /\ \A m \in Ids : Sound(m)

-----------------------------------------------------------------------------
(* Histories. *)

\* The history after a result has been pushed and the oldest one shifted out.
Pushed(seq, result) ==
  LET longer == Append(seq, result)
  IN IF Len(longer) > ResultHistory THEN Tail(longer) ELSE longer

LEMMA PushedElements ==
  ASSUME NEW seq \in Seq(Result), NEW result \in Result, Len(seq) <= ResultHistory
  PROVE  /\ Pushed(seq, result) \in Seq(Result)
         /\ Len(Pushed(seq, result)) \in 1 .. ResultHistory
         /\ \A k \in 0 .. Len(Pushed(seq, result)) - 1 :
              Pushed(seq, result)[Len(Pushed(seq, result)) - k] =
                IF k = 0 THEN result ELSE seq[Len(seq) - k + 1]
         /\ Len(Pushed(seq, result)) = IF Len(seq) < ResultHistory THEN Len(seq) + 1
                                       ELSE ResultHistory
<1> USE HealthAssumption
<1> DEFINE longer == Append(seq, result)
<1>1. /\ longer \in Seq(Result) /\ Len(longer) = Len(seq) + 1
      /\ longer[Len(seq) + 1] = result
      /\ \A i \in 1 .. Len(seq) : longer[i] = seq[i]
  OBVIOUS
<1>2. CASE Len(seq) < ResultHistory
  <2>1. Pushed(seq, result) = longer
    BY <1>1, <1>2 DEF Pushed
  <2> QED BY <1>1, <1>2, <2>1
<1>3. CASE Len(seq) = ResultHistory
  <2>1. Pushed(seq, result) = Tail(longer)
    BY <1>1, <1>3 DEF Pushed
  <2>2. /\ Tail(longer) \in Seq(Result) /\ Len(Tail(longer)) = Len(seq)
        /\ \A i \in 1 .. Len(seq) : Tail(longer)[i] = longer[i + 1]
    BY <1>1
  <2> HIDE DEF longer
  <2> QED BY <1>1, <1>3, <2>1, <2>2
<1> QED BY <1>2, <1>3

\* A run at the end grows with the result pushed, or is cut by it.
LEMMA PushedRuns ==
  ASSUME NEW seq \in Seq(Result), NEW result \in Result, Len(seq) <= ResultHistory,
         NEW n \in 1 .. ResultHistory, NEW ok \in BOOLEAN
  PROVE  EndsIn(Pushed(seq, result), n, ok) <=>
           result.ok = ok /\ (n = 1 \/ EndsIn(seq, n - 1, ok))
<1> USE HealthAssumption
<1> DEFINE new == Pushed(seq, result)
           len == Len(new)
<1>1. /\ len \in 1 .. ResultHistory
      /\ \A k \in 0 .. len - 1 : new[len - k] = IF k = 0 THEN result ELSE seq[Len(seq) - k + 1]
      /\ len = IF Len(seq) < ResultHistory THEN Len(seq) + 1 ELSE ResultHistory
  BY PushedElements
<1> HIDE DEF new
<1>2. EndsIn(new, n, ok) <=> len >= n /\ \A k \in 0 .. n - 1 : new[len - k].ok = ok
  <2>1. ASSUME len >= n, \A i \in len - n + 1 .. len : new[i].ok = ok,
               NEW k \in 0 .. n - 1
        PROVE  new[len - k].ok = ok
    <3>1. len - k \in len - n + 1 .. len
      BY <1>1
    <3> QED BY <2>1, <3>1
  <2>2. ASSUME len >= n, \A k \in 0 .. n - 1 : new[len - k].ok = ok,
               NEW i \in len - n + 1 .. len
        PROVE  new[i].ok = ok
    <3>1. len - i \in 0 .. n - 1 /\ len - (len - i) = i
      BY <1>1
    <3> QED BY <2>2, <3>1
  <2> QED BY <2>1, <2>2 DEF EndsIn
<1>3. EndsIn(seq, n - 1, ok) <=>
        Len(seq) >= n - 1 /\ \A k \in 1 .. n - 1 : seq[Len(seq) - k + 1].ok = ok
  <2>1. ASSUME Len(seq) >= n - 1, \A i \in Len(seq) - (n - 1) + 1 .. Len(seq) : seq[i].ok = ok,
               NEW k \in 1 .. n - 1
        PROVE  seq[Len(seq) - k + 1].ok = ok
    <3>1. Len(seq) - k + 1 \in Len(seq) - (n - 1) + 1 .. Len(seq)
      OBVIOUS
    <3> QED BY <2>1, <3>1
  <2>2. ASSUME Len(seq) >= n - 1, \A k \in 1 .. n - 1 : seq[Len(seq) - k + 1].ok = ok,
               NEW i \in Len(seq) - (n - 1) + 1 .. Len(seq)
        PROVE  seq[i].ok = ok
    <3>1. Len(seq) - i + 1 \in 1 .. n - 1 /\ Len(seq) - (Len(seq) - i + 1) + 1 = i
      OBVIOUS
    <3> QED BY <2>2, <3>1
  <2> QED BY <2>1, <2>2 DEF EndsIn
<1>4. len >= n <=> Len(seq) >= n - 1
  BY <1>1
<1>5. len >= n => ((\A k \in 0 .. n - 1 : new[len - k].ok = ok) <=>
                   result.ok = ok /\ \A k \in 1 .. n - 1 : seq[Len(seq) - k + 1].ok = ok)
  <2> SUFFICES ASSUME len >= n
               PROVE  (\A k \in 0 .. n - 1 : new[len - k].ok = ok) <=>
                      result.ok = ok /\ \A k \in 1 .. n - 1 : seq[Len(seq) - k + 1].ok = ok
    OBVIOUS
  <2>0. len \in Nat /\ len - 0 = len /\ 0 \in 0 .. len - 1 /\ 0 \in 0 .. n - 1
    BY <1>1
  <2>1. new[len - 0] = result
    BY <1>1, <2>0
  <2>2. ASSUME NEW k \in 1 .. n - 1 PROVE new[len - k] = seq[Len(seq) - k + 1] /\ k \in 0 .. n - 1
    <3>1. k \in 0 .. len - 1 /\ k # 0 /\ k \in 0 .. n - 1
      BY <2>0
    <3> QED BY <1>1, <3>1
  <2>3. \A k \in 0 .. n - 1 : k = 0 \/ k \in 1 .. n - 1
    OBVIOUS
  <2> HIDE DEF len
  <2> QED BY <2>0, <2>1, <2>2, <2>3
<1>6. n = 1 => (\A k \in 1 .. n - 1 : seq[Len(seq) - k + 1].ok = ok)
  OBVIOUS
<1>7. Len(seq) >= n - 1 \/ n > 1
  OBVIOUS
<1>8. EndsIn(new, n, ok) <=> result.ok = ok /\ (n = 1 \/ EndsIn(seq, n - 1, ok))
  BY <1>2, <1>3, <1>4, <1>5, <1>6, <1>7
<1> QED BY <1>8 DEF new

-----------------------------------------------------------------------------
(* The invariant, one lemma per action. *)

\* A blank monitor: nothing counted, nothing on record.
LEMMA BlankIsSound ==
  ASSUME NEW m \in Ids, thresholds'[m] \in Thresholds,
         state'[m] = "unknown", failures'[m] = 0, oks'[m] = 0, results'[m] = <<>>
  PROVE  Sound(m)'
<1> USE HealthAssumption
<1>1. thresholds'[m].failure \in 1 .. ResultHistory /\ thresholds'[m].recovery \in 1 .. ResultHistory
  OBVIOUS
<1>2. Len(results'[m]) = 0
  OBVIOUS
<1>3. Counted(m)'
  BY <1>2 DEF Counted, EndsIn
<1>4. Judged(m)'
  BY <1>1, <1>2 DEF Judged
<1> QED BY <1>2, <1>3, <1>4 DEF Sound

\* A monitor whose machine and history are left alone.
LEMMA UntouchedIsSound ==
  ASSUME NEW m \in Ids, Sound(m), thresholds'[m] = thresholds[m], state'[m] = state[m],
         failures'[m] = failures[m], oks'[m] = oks[m], results'[m] = results[m]
  PROVE  Sound(m)'
BY DEF Sound, Counted, Judged, EndsIn

\* The number of probes in flight after one of the kinds has changed by d.
LEMMA OutstandingFacts ==
  ASSUME TypeOK, NEW m \in Ids, NEW k \in Kinds, NEW d \in Int, probes[m][k] + d \in Nat,
         probes' = [probes EXCEPT ![m] = [probes[m] EXCEPT ![k] = probes[m][k] + d]]
  PROVE  /\ probes' \in [Ids -> [Kinds -> Nat]]
         /\ \A e \in Ids : Outstanding(e) \in Nat
         /\ \A e \in Ids : Outstanding(e)' = IF e = m THEN Outstanding(e) + d ELSE Outstanding(e)
<1>1. \A e \in Ids : probes[e] \in [Kinds -> Nat]
  BY DEF TypeOK
<1>3. [probes[m] EXCEPT ![k] = probes[m][k] + d] \in [Kinds -> Nat]
  BY <1>1
<1>4. probes' \in [Ids -> [Kinds -> Nat]]
  BY <1>3 DEF TypeOK
<1>5. probes'[m] = [probes[m] EXCEPT ![k] = probes[m][k] + d]
  BY DEF TypeOK
<1>6. Outstanding(m)' = Outstanding(m) + d
  BY <1>1, <1>5 DEF Outstanding, Kinds
<1>7. \A e \in Ids : e # m => probes'[e] = probes[e]
  BY DEF TypeOK
<1>8. \A e \in Ids : e # m => Outstanding(e)' = Outstanding(e)
  BY <1>7 DEF Outstanding
<1>9. \A e \in Ids : Outstanding(e) \in Nat
  BY <1>1 DEF Outstanding, Kinds
<1> QED BY <1>4, <1>6, <1>8, <1>9

LEMMA OutstandingType == ASSUME TypeOK, NEW m \in Ids PROVE Outstanding(m) \in Nat
<1>1. probes[m] \in [Kinds -> Nat]
  BY DEF TypeOK
<1> QED BY <1>1 DEF Outstanding, Kinds

LEMMA InitIInv == Init => IInv
<1> USE HealthAssumption
<1> SUFFICES ASSUME Init PROVE IInv
  OBVIOUS
<1>1. IsFiniteSet(registered) /\ Cardinality(registered) = 0
  BY FS_EmptySet DEF Init
<1>2. ASSUME NEW m \in Ids PROVE Sound(m)
  <2>1. thresholds[m] \in Thresholds
    BY DEF Init
  <2>2. thresholds[m].failure \in 1 .. ResultHistory /\ thresholds[m].recovery \in 1 .. ResultHistory
    BY <2>1
  <2>3. Len(results[m]) = 0
    BY DEF Init
  <2>4. Counted(m)
    BY <2>3 DEF Init, Counted, EndsIn
  <2>5. Judged(m)
    BY <2>2, <2>3 DEF Init, Judged
  <2> QED BY <2>3, <2>4, <2>5 DEF Sound
<1>3. TypeOK
  <2>1. <<>> \in Seq(Result)
    OBVIOUS
  <2>2. results \in [Ids -> Seq([ok : BOOLEAN, old : BOOLEAN])]
    BY <2>1 DEF Init, Result
  <2>3. /\ asked \in [Ids -> Thresholds] /\ thresholds \in [Ids -> Thresholds]
        /\ failures \in [Ids -> 0 .. ResultHistory] /\ oks \in [Ids -> 0 .. ResultHistory]
    BY DEF Init
  <2>4. /\ probes \in [Ids -> [Kinds -> Nat]] /\ forgotten \in [Ids -> Nat]
        /\ service \in [Ids -> {"up", "down"}]
    BY DEF Init
  <2>5. registered \in SUBSET Ids /\ Cardinality(registered) <= MaxMonitors /\ updates \in 0 .. MaxUpdates
    BY <1>1 DEF Init
  <2> QED BY <2>2, <2>3, <2>4, <2>5 DEF Init, TypeOK
<1>4. OverlapsAreCounted
  BY DEF Init, OverlapsAreCounted, Outstanding, Kinds
<1> QED BY <1>1, <1>2, <1>3, <1>4 DEF IInv

LEMMA AddIInv ==
  ASSUME IInv, NEW m \in Ids, NEW t \in Thresholds, NEW on \in BOOLEAN, Add(m, t, on)
  PROVE  IInv'
<1> USE HealthAssumption DEF IInv
<1>1. IsFiniteSet(registered') /\ Cardinality(registered') = Cardinality(registered) + 1
  BY FS_AddElement DEF Add
<1>2. ASSUME NEW d \in Ids PROVE Sound(d)'
  <2>1. CASE d = m
    BY <2>1, BlankIsSound DEF Add, TypeOK
  <2>2. CASE d # m
    BY <2>2, UntouchedIsSound DEF Add, TypeOK
  <2> QED BY <2>1, <2>2
<1>3. TypeOK'
  <2>1. Cardinality(registered) \in Nat /\ Cardinality(registered') <= MaxMonitors
    BY <1>1, FS_CardinalityType DEF Add
  <2>2. results' \in [Ids -> Seq([ok : BOOLEAN, old : BOOLEAN])]
    <3>1. <<>> \in Seq([ok : BOOLEAN, old : BOOLEAN])
      OBVIOUS
    <3> QED BY <3>1 DEF Add, TypeOK
  <2> QED BY <2>1, <2>2 DEF Add, TypeOK
<1>4. ASSUME NEW d \in Ids
      PROVE  Outstanding(d)' <= forgotten'[d] + (IF inFlight'[d] THEN 1 ELSE 0)
  <2>1. Outstanding(d)' = Outstanding(d)
    BY DEF Add, Outstanding
  <2>2. CASE d = m
    BY <2>1, <2>2 DEF Add, TypeOK
  <2>3. CASE d # m
    BY <2>1, <2>3 DEF Add, OverlapsAreCounted, TypeOK
  <2> QED BY <2>2, <2>3
<1> QED BY <1>1, <1>2, <1>3, <1>4 DEF OverlapsAreCounted

LEMMA UpdateIInv ==
  ASSUME IInv, NEW m \in Ids, NEW t \in Thresholds, NEW on \in BOOLEAN, NEW resets \in BOOLEAN,
         Update(m, t, on, resets)
  PROVE  IInv'
<1> USE HealthAssumption DEF IInv
<1>1. /\ resets => Reset(m)
      /\ ~resets => UNCHANGED <<state, failures, oks, results, probes>>
      /\ UNCHANGED <<registered, thresholds, service>>
  BY DEF Update
<1>2. ASSUME NEW d \in Ids PROVE Sound(d)'
  <2>1. CASE d = m /\ resets
    BY <1>1, <2>1, BlankIsSound DEF Reset, TypeOK
  <2>2. CASE d # m /\ resets
    BY <1>1, <2>2, UntouchedIsSound DEF Reset, TypeOK
  <2>3. CASE ~resets
    BY <1>1, <2>3, UntouchedIsSound
  <2> QED BY <2>1, <2>2, <2>3
<1>3. /\ probes' \in [Ids -> [Kinds -> Nat]]
      /\ \A d \in Ids : Outstanding(d)' = Outstanding(d)
  <2>1. CASE resets
    <3>1. [k \in Kinds |-> IF k = "old" THEN Outstanding(m) ELSE 0] \in [Kinds -> Nat]
      BY OutstandingType
    <3>2. probes' \in [Ids -> [Kinds -> Nat]]
      BY <1>1, <2>1, <3>1 DEF Reset, TypeOK
    <3>3. Outstanding(m)' = Outstanding(m)
      BY <1>1, <2>1, OutstandingType DEF Reset, TypeOK, Outstanding, Kinds
    <3>4. \A d \in Ids : d # m => Outstanding(d)' = Outstanding(d)
      BY <1>1, <2>1 DEF Reset, TypeOK, Outstanding
    <3> QED BY <3>2, <3>3, <3>4
  <2>2. CASE ~resets
    BY <1>1, <2>2 DEF TypeOK, Outstanding
  <2> QED BY <2>1, <2>2
<1>4. /\ results' \in [Ids -> Seq([ok : BOOLEAN, old : BOOLEAN])]
      /\ state' \in [Ids -> {"unknown", "healthy", "unhealthy"}]
      /\ failures' \in [Ids -> 0 .. ResultHistory] /\ oks' \in [Ids -> 0 .. ResultHistory]
  <2>1. CASE resets
    <3>1. <<>> \in Seq([ok : BOOLEAN, old : BOOLEAN])
      OBVIOUS
    <3>2. results' \in [Ids -> Seq([ok : BOOLEAN, old : BOOLEAN])]
      BY <1>1, <2>1, <3>1 DEF Reset, TypeOK
    <3>3. state' \in [Ids -> {"unknown", "healthy", "unhealthy"}]
      <4>1. state \in [Ids -> {"unknown", "healthy", "unhealthy"}]
        BY DEF TypeOK
      <4>2. state' = [state EXCEPT ![m] = "unknown"]
        BY <1>1, <2>1 DEF Reset
      <4> QED BY <4>1, <4>2
    <3>4. failures' \in [Ids -> 0 .. ResultHistory]
      <4>1. failures \in [Ids -> 0 .. ResultHistory] /\ 0 \in 0 .. ResultHistory
        BY DEF TypeOK
      <4>2. failures' = [failures EXCEPT ![m] = 0]
        BY <1>1, <2>1 DEF Reset
      <4> QED BY <4>1, <4>2
    <3>5. oks' \in [Ids -> 0 .. ResultHistory]
      <4>1. oks \in [Ids -> 0 .. ResultHistory] /\ 0 \in 0 .. ResultHistory
        BY DEF TypeOK
      <4>2. oks' = [oks EXCEPT ![m] = 0]
        BY <1>1, <2>1 DEF Reset
      <4> QED BY <4>1, <4>2
    <3> QED BY <3>2, <3>3, <3>4, <3>5
  <2>2. CASE ~resets
    BY <1>1, <2>2 DEF TypeOK
  <2> QED BY <2>1, <2>2
<1>5. \/ UNCHANGED <<inFlight, forgotten>>
      \/ /\ inFlight' = [inFlight EXCEPT ![m] = FALSE]
         /\ forgotten' = [forgotten EXCEPT ![m] = IF inFlight[m] THEN @ + 1 ELSE @]
  BY DEF Update
<1>6. forgotten' \in [Ids -> Nat] /\ inFlight' \in [Ids -> BOOLEAN]
  <2>1. forgotten \in [Ids -> Nat] /\ inFlight \in [Ids -> BOOLEAN]
    BY DEF TypeOK
  <2>2. (IF inFlight[m] THEN forgotten[m] + 1 ELSE forgotten[m]) \in Nat
    BY <2>1
  <2> QED BY <1>5, <2>1, <2>2
<1>7. /\ updates' \in 0 .. MaxUpdates /\ enabled' \in [Ids -> BOOLEAN]
      /\ asked' \in [Ids -> Thresholds]
      /\ timer' \in [Ids -> {"none", "jitter", "interval"}]
  BY DEF Update, TypeOK
<1>8. TypeOK' /\ IsFiniteSet(registered')
  BY <1>1, <1>3, <1>4, <1>6, <1>7 DEF TypeOK
<1>9. ASSUME NEW d \in Ids
      PROVE  Outstanding(d)' <= forgotten'[d] + (IF inFlight'[d] THEN 1 ELSE 0)
  <2>1. Outstanding(d) <= forgotten[d] + (IF inFlight[d] THEN 1 ELSE 0)
    BY DEF OverlapsAreCounted
  <2>2. forgotten[d] \in Nat /\ inFlight[d] \in BOOLEAN /\ Outstanding(d) \in Nat
    BY OutstandingType DEF TypeOK
  <2>3. \/ inFlight'[d] = inFlight[d] /\ forgotten'[d] = forgotten[d]
        \/ ~inFlight'[d] /\ forgotten'[d] = IF inFlight[d] THEN forgotten[d] + 1 ELSE forgotten[d]
    <3>1. forgotten \in [Ids -> Nat] /\ inFlight \in [Ids -> BOOLEAN]
      BY DEF TypeOK
    <3>2. CASE d = m
      BY <1>5, <3>1, <3>2
    <3>3. CASE d # m
      BY <1>5, <3>1, <3>3
    <3> QED BY <3>2, <3>3
  <2> QED BY <1>3, <2>1, <2>2, <2>3
<1> QED BY <1>2, <1>8, <1>9 DEF OverlapsAreCounted

LEMMA RemoveIInv ==
  ASSUME IInv, NEW ms \in SUBSET Ids, Remove(ms) PROVE IInv'
<1> USE HealthAssumption DEF IInv
<1>1. /\ IsFiniteSet(registered') /\ Cardinality(registered') <= Cardinality(registered)
      /\ Cardinality(registered) \in Nat /\ Cardinality(registered') \in Nat
  BY FS_Subset, FS_CardinalityType DEF Remove
<1>2. ASSUME NEW d \in Ids PROVE Sound(d)'
  <2>1. CASE d \in ms
    BY <2>1, BlankIsSound DEF Remove, TypeOK
  <2>2. CASE d \notin ms
    BY <2>2, UntouchedIsSound DEF Remove, TypeOK
  <2> QED BY <2>1, <2>2
<1>3. TypeOK'
  <2>1. results' \in [Ids -> Seq([ok : BOOLEAN, old : BOOLEAN])]
    <3>1. <<>> \in Seq([ok : BOOLEAN, old : BOOLEAN])
      OBVIOUS
    <3> QED BY <3>1 DEF Remove, TypeOK
  <2>2. Cardinality(registered') <= MaxMonitors
    BY <1>1 DEF TypeOK
  <2> QED BY <2>1, <2>2 DEF Remove, TypeOK
<1>4. OverlapsAreCounted'
  BY DEF Remove, OverlapsAreCounted, Outstanding
<1> QED BY <1>1, <1>2, <1>3, <1>4

LEMMA TickIInv ==
  ASSUME IInv, NEW m \in Ids, JitterFires(m) \/ IntervalFires(m) PROVE IInv'
<1> USE HealthAssumption DEF IInv
<1>1. Tick(m) /\ timer' \in [Ids -> {"none", "jitter", "interval"}]
  BY DEF JitterFires, IntervalFires, TypeOK
<1>2. ASSUME NEW d \in Ids PROVE Sound(d)'
  BY <1>1, UntouchedIsSound DEF Tick, machine
<1>3. \/ UNCHANGED <<inFlight, probes>>
      \/ /\ inFlight' = [inFlight EXCEPT ![m] = TRUE] /\ ~inFlight[m]
         /\ probes' = [probes EXCEPT ![m]["current"] = @ + 1]
  BY <1>1 DEF Tick
<1>4. CASE UNCHANGED <<inFlight, probes>>
  <2>1. TypeOK' /\ IsFiniteSet(registered')
    BY <1>1, <1>4 DEF Tick, TypeOK, machine
  <2>2. OverlapsAreCounted'
    BY <1>1, <1>4 DEF Tick, OverlapsAreCounted, Outstanding
  <2> QED BY <1>2, <2>1, <2>2
<1>5. CASE /\ inFlight' = [inFlight EXCEPT ![m] = TRUE] /\ ~inFlight[m]
           /\ probes' = [probes EXCEPT ![m]["current"] = @ + 1]
  <2>1. "current" \in Kinds /\ probes[m]["current"] + 1 \in Nat /\ 1 \in Int
    BY DEF TypeOK, Kinds
  <2>0. probes' = [probes EXCEPT ![m] =
                     [probes[m] EXCEPT !["current"] = probes[m]["current"] + 1]]
    BY <1>5 DEF TypeOK
  <2>2. /\ probes' \in [Ids -> [Kinds -> Nat]]
        /\ \A e \in Ids : Outstanding(e) \in Nat
        /\ \A e \in Ids : Outstanding(e)' = IF e = m THEN Outstanding(e) + 1 ELSE Outstanding(e)
    BY <2>0, <2>1, OutstandingFacts
  <2>3. TypeOK' /\ IsFiniteSet(registered')
    BY <1>1, <1>5, <2>2 DEF Tick, TypeOK, machine
  <2>4. ASSUME NEW d \in Ids
        PROVE  Outstanding(d)' <= forgotten'[d] + (IF inFlight'[d] THEN 1 ELSE 0)
    <3>1. /\ Outstanding(d) <= forgotten[d] + (IF inFlight[d] THEN 1 ELSE 0)
          /\ forgotten[d] \in Nat /\ forgotten' = forgotten
      BY <1>1 DEF OverlapsAreCounted, TypeOK, Tick
    <3>2. inFlight'[d] = IF d = m THEN TRUE ELSE inFlight[d]
      BY <1>5 DEF TypeOK
    <3>3. CASE d = m
      <4>1. ~inFlight[d] /\ inFlight'[d]
        BY <1>5, <3>2, <3>3
      <4>2. Outstanding(d)' = Outstanding(d) + 1 /\ Outstanding(d) \in Nat
        BY <2>2, <3>3
      <4>3. Outstanding(d) <= forgotten[d] /\ forgotten'[d] = forgotten[d]
        BY <3>1, <4>1
      <4> QED BY <3>1, <4>1, <4>2, <4>3
    <3>4. CASE d # m
      BY <2>2, <3>1, <3>2, <3>4 DEF TypeOK
    <3> QED BY <3>3, <3>4
  <2> QED BY <1>2, <2>3, <2>4 DEF OverlapsAreCounted
<1> QED BY <1>3, <1>4, <1>5

LEMMA ProbeEndsIInv ==
  ASSUME IInv, NEW m \in Ids, NEW k \in Kinds, NEW ok \in BOOLEAN, ProbeEnds(m, k, ok)
  PROVE  IInv'
<1> USE HealthAssumption DEF IInv
<1> DEFINE result == [ok |-> ok, old |-> k = "old"]
           shown == m \in registered /\ enabled[m]
<1>1. /\ probes[m][k] > 0
      /\ probes' = [probes EXCEPT ![m] = [probes[m] EXCEPT ![k] = probes[m][k] + (-1)]]
      /\ inFlight' = [inFlight EXCEPT ![m] = FALSE]
      /\ shown => Record(m, ok) /\ Push(m, result)
      /\ ~shown => UNCHANGED <<state, failures, oks, results>>
      /\ UNCHANGED <<registered, enabled, asked, thresholds, timer, service, updates,
                      forgotten>>
  BY DEF ProbeEnds, TypeOK
<1>2. /\ probes' \in [Ids -> [Kinds -> Nat]]
      /\ \A e \in Ids : Outstanding(e) \in Nat
      /\ \A e \in Ids : Outstanding(e)' = IF e = m THEN Outstanding(e) + (-1) ELSE Outstanding(e)
  <2>1. probes[m][k] \in Nat
    BY DEF TypeOK
  <2>2. -1 \in Int /\ probes[m][k] + (-1) \in Nat
    BY <1>1, <2>1
  <2> QED BY <1>1, <2>2, OutstandingFacts
<1>3. ASSUME NEW d \in Ids
      PROVE  Outstanding(d)' <= forgotten'[d] + (IF inFlight'[d] THEN 1 ELSE 0)
  <2>1. /\ Outstanding(d) <= forgotten[d] + (IF inFlight[d] THEN 1 ELSE 0)
        /\ forgotten[d] \in Nat /\ inFlight \in [Ids -> BOOLEAN]
        /\ forgotten' = forgotten
    BY <1>1 DEF OverlapsAreCounted, TypeOK
  <2>2. CASE d = m
    <3>1. ~inFlight'[d]
      BY <1>1, <2>1, <2>2
    <3>2. Outstanding(d)' = Outstanding(d) + (-1) /\ Outstanding(d) \in Nat
      BY <1>2, <2>2
    <3> QED BY <2>1, <3>1, <3>2
  <2>3. CASE d # m
    BY <1>1, <1>2, <2>1, <2>3
  <2> QED BY <2>2, <2>3
<1>4. result \in Result
  BY DEF Result
<1>5. /\ failures[m] \in 0 .. ResultHistory /\ oks[m] \in 0 .. ResultHistory
      /\ thresholds[m].failure \in 1 .. ResultHistory
      /\ thresholds[m].recovery \in 1 .. ResultHistory
      /\ results[m] \in Seq(Result) /\ Len(results[m]) <= ResultHistory
      /\ state[m] \in {"unknown", "healthy", "unhealthy"}
      /\ Sound(m)
  BY DEF TypeOK, Sound, Result
<1> DEFINE f == IF ok THEN 0 ELSE UpTo(failures[m] + 1, ResultHistory)
           o == IF ok THEN UpTo(oks[m] + 1, ResultHistory) ELSE 0
<1>6. f \in 0 .. ResultHistory /\ o \in 0 .. ResultHistory
  BY <1>5 DEF UpTo
<1>7. ASSUME shown
      PROVE  /\ failures' = [failures EXCEPT ![m] = f]
             /\ oks' = [oks EXCEPT ![m] = o]
             /\ results' = [results EXCEPT ![m] = Pushed(results[m], result)]
             /\ state' = [state EXCEPT ![m] =
                  CASE state[m] # "unhealthy" /\ ~ok /\ f >= thresholds[m].failure -> "unhealthy"
                    [] state[m] = "unknown" /\ ok -> "healthy"
                    [] state[m] = "unhealthy" /\ ok /\ o >= thresholds[m].recovery -> "healthy"
                    [] OTHER -> state[m]]
  BY <1>1, <1>7 DEF Record, Push, Pushed
<1> HIDE DEF result
<1>8. ASSUME shown PROVE Sound(m)'
  <2>1. /\ failures'[m] = f /\ oks'[m] = o /\ thresholds'[m] = thresholds[m]
        /\ results'[m] = Pushed(results[m], result)
    BY <1>1, <1>7, <1>8 DEF TypeOK
  <2>2. /\ Len(results'[m]) \in 1 .. ResultHistory
        /\ Len(results'[m]) = IF Len(results[m]) < ResultHistory THEN Len(results[m]) + 1
                                ELSE ResultHistory
        /\ \A i \in 0 .. Len(results'[m]) - 1 :
             results'[m][Len(results'[m]) - i] =
               IF i = 0 THEN result ELSE results[m][Len(results[m]) - i + 1]
    <3>1. /\ Len(Pushed(results[m], result)) \in 1 .. ResultHistory
          /\ Len(Pushed(results[m], result)) =
               IF Len(results[m]) < ResultHistory THEN Len(results[m]) + 1 ELSE ResultHistory
          /\ \A i \in 0 .. Len(Pushed(results[m], result)) - 1 :
               Pushed(results[m], result)[Len(Pushed(results[m], result)) - i] =
                 IF i = 0 THEN result ELSE results[m][Len(results[m]) - i + 1]
      BY ONLY <1>4, <1>5, PushedElements
    <3> QED BY <2>1, <3>1
  <2>3. \A n \in 1 .. ResultHistory, w \in BOOLEAN :
          EndsIn(results'[m], n, w) <=> ok = w /\ (n = 1 \/ EndsIn(results[m], n - 1, w))
    <3>1. result.ok = ok
      BY DEF result
    <3> QED BY <1>4, <1>5, <2>1, <3>1, PushedRuns
  <2>4. Counted(m)'
    <3> SUFFICES ASSUME NEW n \in 1 .. ResultHistory
                 PROVE  /\ failures'[m] >= n <=> EndsIn(results'[m], n, FALSE)
                        /\ oks'[m] >= n <=> EndsIn(results'[m], n, TRUE)
      BY DEF Counted
    <3>1. CASE n = 1
      <4>1. f >= 1 <=> ~ok
        BY <1>5 DEF UpTo
      <4>2. o >= 1 <=> ok
        BY <1>5 DEF UpTo
      <4>3. \A w \in BOOLEAN : EndsIn(results'[m], n, w) <=> ok = w
        BY <2>3, <3>1
      <4>4. (failures'[m] >= n <=> ~ok) /\ (oks'[m] >= n <=> ok)
        BY <2>1, <3>1, <4>1, <4>2
      <4> QED BY <4>3, <4>4
    <3>2. CASE n # 1
      <4>1. n - 1 \in 1 .. ResultHistory
        BY <3>2
      <4>2. /\ failures[m] >= n - 1 <=> EndsIn(results[m], n - 1, FALSE)
            /\ oks[m] >= n - 1 <=> EndsIn(results[m], n - 1, TRUE)
        BY <1>5, <4>1 DEF Sound, Counted
      <4>3. (f >= n <=> ~ok /\ failures[m] >= n - 1) /\ (o >= n <=> ok /\ oks[m] >= n - 1)
        BY <1>5, <3>2 DEF UpTo
      <4> QED BY <2>1, <2>3, <3>2, <4>2, <4>3
    <3> QED BY <3>1, <3>2
  <2>5. Judged(m)'
    <3>1. state'[m] =
            CASE state[m] # "unhealthy" /\ ~ok /\ f >= thresholds[m].failure -> "unhealthy"
              [] state[m] = "unknown" /\ ok -> "healthy"
              [] state[m] = "unhealthy" /\ ok /\ o >= thresholds[m].recovery -> "healthy"
              [] OTHER -> state[m]
      BY <1>7, <1>8 DEF TypeOK
    <3>2. f >= thresholds[m].failure => state'[m] = "unhealthy"
      BY <1>5, <3>1
    <3>3. o >= thresholds[m].recovery => state'[m] = "healthy"
      BY <1>5, <3>1
    <3>4. ASSUME state'[m] = "unknown"
          PROVE  \A i \in 1 .. Len(results'[m]) : ~results'[m][i].ok
      <4>1. state[m] = "unknown" /\ ~ok
        BY <1>5, <3>1, <3>4
      <4>2. \A i \in 1 .. Len(results[m]) : ~results[m][i].ok
        BY <1>5, <4>1 DEF Sound, Judged
      <4> SUFFICES ASSUME NEW i \in 1 .. Len(results'[m])
                   PROVE  ~results'[m][i].ok
        OBVIOUS
      <4> DEFINE i0 == Len(results'[m]) - i
      <4>3. i0 \in 0 .. Len(results'[m]) - 1 /\ Len(results'[m]) - i0 = i
        BY <2>2
      <4>4. results'[m][i] = IF i0 = 0 THEN result ELSE results[m][Len(results[m]) - i0 + 1]
        BY <2>2, <4>3
      <4>5. i0 # 0 => Len(results[m]) - i0 + 1 \in 1 .. Len(results[m])
        <5> DEFINE new == Len(results'[m])
                   old == Len(results[m])
        <5>1. new \in Nat /\ old \in Nat /\ (new = old + 1 \/ (new = ResultHistory /\ old = ResultHistory))
          BY <1>5, <2>2
        <5>2. i \in 1 .. new
          OBVIOUS
        <5> HIDE DEF new, old
        <5>3. new - i # 0 => old - (new - i) + 1 \in 1 .. old
          BY <5>1, <5>2
        <5> QED BY <5>3 DEF new, old
      <4>6. ~result.ok
        BY <4>1 DEF result
      <4> QED BY <4>2, <4>4, <4>5, <4>6
    <3> QED BY <2>1, <3>2, <3>3, <3>4 DEF Judged
  <2> QED BY <2>2, <2>4, <2>5 DEF Sound
<1>9. ASSUME NEW d \in Ids PROVE Sound(d)'
  <2>1. CASE d = m /\ shown
    BY <1>8, <2>1
  <2>2. CASE d # m \/ ~shown
    <3>1. /\ thresholds'[d] = thresholds[d] /\ state'[d] = state[d] /\ failures'[d] = failures[d]
          /\ oks'[d] = oks[d] /\ results'[d] = results[d]
      BY <1>1, <1>7, <2>2 DEF TypeOK
    <3> QED BY <3>1, UntouchedIsSound
  <2> QED BY <2>1, <2>2
<1>10. TypeOK' /\ IsFiniteSet(registered')
  <2>1. /\ failures' \in [Ids -> 0 .. ResultHistory] /\ oks' \in [Ids -> 0 .. ResultHistory]
    <3>1. CASE shown
      <4>1. failures' = [failures EXCEPT ![m] = f] /\ failures \in [Ids -> 0 .. ResultHistory]
        BY <1>7, <3>1 DEF TypeOK
      <4>2. oks' = [oks EXCEPT ![m] = o] /\ oks \in [Ids -> 0 .. ResultHistory]
        BY <1>7, <3>1 DEF TypeOK
      <4> HIDE DEF f, o
      <4> QED BY <1>6, <4>1, <4>2
    <3>2. CASE ~shown
      BY <1>1, <3>2 DEF TypeOK
    <3> QED BY <3>1, <3>2
  <2>2. results' \in [Ids -> Seq(Result)]
    <3>1. results \in [Ids -> Seq(Result)]
      BY DEF TypeOK, Result
    <3>2. Pushed(results[m], result) \in Seq(Result)
      BY <1>4, <1>5, PushedElements
    <3> QED BY <1>1, <1>7, <3>1, <3>2
  <2>3. state' \in [Ids -> {"unknown", "healthy", "unhealthy"}]
    <3>1. CASE shown
      <4>1. PICK s \in {"unknown", "healthy", "unhealthy"} : state' = [state EXCEPT ![m] = s]
        BY <1>5, <1>7, <3>1
      <4>2. state \in [Ids -> {"unknown", "healthy", "unhealthy"}]
        BY DEF TypeOK
      <4> QED BY <4>1, <4>2
    <3>2. CASE ~shown
      BY <1>1, <3>2 DEF TypeOK
    <3> QED BY <3>1, <3>2
  <2>4. inFlight' \in [Ids -> BOOLEAN]
    BY <1>1 DEF TypeOK
  <2> QED BY <1>1, <1>2, <2>1, <2>2, <2>3, <2>4 DEF TypeOK, Result
<1> QED BY <1>3, <1>9, <1>10 DEF OverlapsAreCounted

LEMMA NextIInv == IInv /\ [Next]_vars => IInv'
<1> SUFFICES ASSUME IInv, [Next]_vars PROVE IInv'
  OBVIOUS
<1>1. ASSUME NEW m \in Ids, ServiceChanges(m) PROVE IInv'
  <2>1. \A d \in Ids : Sound(d)'
    BY <1>1, UntouchedIsSound DEF ServiceChanges, IInv, machine
  <2>2. TypeOK'
    BY <1>1 DEF ServiceChanges, IInv, TypeOK, machine, scheduler
  <2>3. OverlapsAreCounted'
    BY <1>1 DEF ServiceChanges, IInv, OverlapsAreCounted, Outstanding, scheduler
  <2> QED BY <1>1, <2>1, <2>2, <2>3 DEF ServiceChanges, IInv
<1>2. CASE UNCHANGED vars
  <2>1. \A d \in Ids : Sound(d)'
    BY <1>2, UntouchedIsSound DEF IInv, vars, machine
  <2>2. TypeOK'
    BY <1>2 DEF IInv, TypeOK, vars, machine, scheduler
  <2>3. OverlapsAreCounted'
    BY <1>2 DEF IInv, OverlapsAreCounted, Outstanding, vars, scheduler
  <2> QED BY <1>2, <2>1, <2>2, <2>3 DEF IInv, vars
<1> QED
  BY <1>1, <1>2, AddIInv, UpdateIInv, RemoveIInv, TickIInv, ProbeEndsIInv DEF Next

LEMMA Invariance == SafeSpec => []IInv
<1>1. Init => IInv
  BY InitIInv
<1>2. IInv /\ [Next]_vars => IInv'
  BY NextIInv
<1> QED BY <1>1, <1>2, PTL DEF SafeSpec

-----------------------------------------------------------------------------
(* The theorems. *)

\* Type correctness, with the limit on the number of monitors: add() tests it in
\* the same turn in which it registers the monitor.
THEOREM TypeCorrect == SafeSpec => []TypeOK
<1>1. IInv => TypeOK
  BY DEF IInv
<1> QED BY <1>1, Invariance, PTL

\* What is shown of a monitor follows from the results shown with it.
THEOREM StateMatchesResultsHolds == SafeSpec => []StateMatchesResults
<1>1. IInv => StateMatchesResults
  <2> SUFFICES ASSUME IInv, NEW m \in Ids
               PROVE  /\ LastAre(m, thresholds[m].failure, FALSE) => state[m] = "unhealthy"
                      /\ LastAre(m, thresholds[m].recovery, TRUE) => state[m] = "healthy"
                      /\ state[m] = "unknown" =>
                           \A i \in 1 .. Len(results[m]) : ~results[m][i].ok
    BY DEF StateMatchesResults
  <2>1. /\ thresholds[m].failure \in 1 .. ResultHistory
        /\ thresholds[m].recovery \in 1 .. ResultHistory
    BY HealthAssumption DEF IInv, TypeOK
  <2> QED BY <2>1 DEF IInv, Sound, Counted, Judged, LastAre
<1> QED BY <1>1, Invariance, PTL

\* However often monitors are switched off and on, each overlap of two probes is
\* owed to one time the flag was cleared under a probe (tick, update).
THEOREM OverlapsAreCountedHolds == SafeSpec => []OverlapsAreCounted
<1>1. IInv => OverlapsAreCounted
  BY DEF IInv
<1> QED BY <1>1, Invariance, PTL

\* A monitor that is removed or switched off shows no result it did not show
\* before, whatever its probes still bring in (runProbe).
THEOREM LateResultsDroppedHolds == SafeSpec => LateResultsDropped
<1>1. IInv /\ [Next]_vars =>
        \A m \in Ids :
          (m \notin registered \/ ~enabled[m]) /\ results'[m] # results[m] => results'[m] = <<>>
  <2> SUFFICES ASSUME IInv, [Next]_vars, NEW m \in Ids,
                      m \notin registered \/ ~enabled[m], results'[m] # results[m]
               PROVE  results'[m] = <<>>
    OBVIOUS
  <2>0. m \in DOMAIN results
    BY DEF IInv, TypeOK
  <2>1. ASSUME NEW d \in Ids, NEW t \in Thresholds, NEW on \in BOOLEAN, Add(d, t, on)
        PROVE  results'[m] = <<>>
    BY <2>0, <2>1 DEF Add
  <2>2. ASSUME NEW d \in Ids, NEW t \in Thresholds, NEW on \in BOOLEAN, NEW resets \in BOOLEAN,
               Update(d, t, on, resets)
        PROVE  results'[m] = <<>>
    BY <2>0, <2>2 DEF Update, Reset
  <2>3. ASSUME NEW d \in Ids, NEW k \in Kinds, NEW ok \in BOOLEAN, ProbeEnds(d, k, ok)
        PROVE  results'[m] = <<>>
    <3>1. d # m \/ UNCHANGED results
      BY <2>3 DEF ProbeEnds
    <3>2. results'[m] = results[m]
      BY <2>0, <2>3, <3>1 DEF ProbeEnds, Push
    <3> QED BY <3>2
  <2>4. ASSUME NEW ms \in SUBSET Ids, Remove(ms) PROVE results'[m] = <<>>
    BY <2>4 DEF Remove
  <2>5. ASSUME NEW d \in Ids, JitterFires(d) \/ IntervalFires(d) \/ ServiceChanges(d)
        PROVE  UNCHANGED results
    BY <2>5 DEF JitterFires, IntervalFires, ServiceChanges, Tick
  <2>6. UNCHANGED vars => UNCHANGED results
    BY DEF vars
  <2> QED BY <2>1, <2>2, <2>3, <2>4, <2>5, <2>6 DEF Next
<1>2. IInv /\ [Next]_vars =>
        [\A m \in Ids :
          (m \notin registered \/ ~enabled[m]) /\ results'[m] # results[m] => results'[m] = <<>>]_vars
  BY <1>1
<1> QED BY <1>2, Invariance, PTL DEF SafeSpec, LateResultsDropped

\* An alert is backed by a full run of results on record, and so is a recovery.
THEOREM AlertsAreEarnedHolds == SafeSpec => AlertsAreEarned
<1> DEFINE Earned(m) ==
      /\ state[m] # "unhealthy" /\ state'[m] = "unhealthy" =>
           LastAre(m, thresholds[m].failure, FALSE)'
      /\ state[m] = "unhealthy" /\ state'[m] = "healthy" =>
           LastAre(m, thresholds[m].recovery, TRUE)'
<1>1. IInv /\ IInv' /\ [Next]_vars => \A m \in registered : Earned(m)
  <2> SUFFICES ASSUME IInv, IInv', [Next]_vars, NEW m \in registered PROVE Earned(m)
    OBVIOUS
  <2>0. m \in Ids /\ m \in DOMAIN state /\ m \in DOMAIN failures /\ m \in DOMAIN oks
    BY DEF IInv, TypeOK
  <2>1. ASSUME state'[m] = state[m] \/ state'[m] = "unknown" PROVE Earned(m)
    BY <2>1
  <2>2. ASSUME NEW d \in Ids, NEW t \in Thresholds, NEW on \in BOOLEAN, Add(d, t, on)
        PROVE  state'[m] = state[m]
    BY <2>0, <2>2 DEF Add
  <2>3. ASSUME NEW d \in Ids, NEW t \in Thresholds, NEW on \in BOOLEAN, NEW resets \in BOOLEAN,
               Update(d, t, on, resets)
        PROVE  state'[m] = state[m] \/ state'[m] = "unknown"
    BY <2>0, <2>3 DEF Update, Reset
  <2>4. ASSUME NEW ms \in SUBSET Ids, Remove(ms)
        PROVE  state'[m] = state[m] \/ state'[m] = "unknown"
    BY <2>0, <2>4 DEF Remove
  <2>5. ASSUME NEW d \in Ids, JitterFires(d) \/ IntervalFires(d) \/ ServiceChanges(d)
        PROVE  state'[m] = state[m]
    BY <2>5 DEF JitterFires, IntervalFires, ServiceChanges, Tick, machine
  <2>6. ASSUME NEW d \in Ids, NEW k \in Kinds, NEW ok \in BOOLEAN, ProbeEnds(d, k, ok)
        PROVE  Earned(m)
    <3>1. CASE d # m \/ UNCHANGED state
      <4>1. state'[m] = state[m]
        BY <2>0, <2>6, <3>1 DEF ProbeEnds, Record
      <4> QED BY <2>1, <4>1
    <3>2. CASE d = m /\ Record(m, ok)
      <4> DEFINE f == IF ok THEN 0 ELSE UpTo(failures[m] + 1, ResultHistory)
                 o == IF ok THEN UpTo(oks[m] + 1, ResultHistory) ELSE 0
      <4>1. /\ failures'[m] = f /\ oks'[m] = o
            /\ state'[m] =
                 CASE state[m] # "unhealthy" /\ ~ok /\ f >= thresholds[m].failure -> "unhealthy"
                   [] state[m] = "unknown" /\ ok -> "healthy"
                   [] state[m] = "unhealthy" /\ ok /\ o >= thresholds[m].recovery -> "healthy"
                   [] OTHER -> state[m]
        BY <2>0, <3>2 DEF Record
      <4> HIDE DEF f, o
      <4>2. thresholds'[m] = thresholds[m]
        BY <2>6 DEF ProbeEnds
      <4>3. /\ state[m] # "unhealthy" /\ state'[m] = "unhealthy" =>
                 failures'[m] >= thresholds'[m].failure
            /\ state[m] = "unhealthy" /\ state'[m] = "healthy" =>
                 oks'[m] >= thresholds'[m].recovery
        BY <4>1, <4>2
      <4>4. /\ thresholds'[m].failure \in 1 .. ResultHistory
            /\ thresholds'[m].recovery \in 1 .. ResultHistory
        <5>1. thresholds'[m] \in Thresholds
          BY <2>0, <4>2 DEF IInv, TypeOK
        <5> QED BY <5>1, HealthAssumption
      <4>5. Counted(m)'
        BY <2>0 DEF IInv, Sound
      <4> QED BY <4>3, <4>4, <4>5 DEF Counted, LastAre
    <3> QED BY <2>6, <3>1, <3>2 DEF ProbeEnds
  <2>7. UNCHANGED vars => state'[m] = state[m]
    BY DEF vars, machine
  <2> QED BY <2>1, <2>2, <2>3, <2>4, <2>5, <2>6, <2>7 DEF Next
<1>2. IInv /\ IInv' /\ [Next]_vars => [\A m \in registered : Earned(m)]_vars
  BY <1>1
<1> QED BY <1>2, Invariance, PTL DEF SafeSpec, AlertsAreEarned

=============================================================================
