-------------------------- MODULE EventStreamProofs --------------------------
(***************************************************************************)
(* Theorems about EventStream for any number of slots, any ring, cap and   *)
(* thresholds, and any number of events and troubles: its types and calls, *)
(* then the order and completeness of what it hands on.                    *)
(***************************************************************************)
EXTENDS EventStream, FiniteSetTheorems, TLAPS

Conns == {"none", "asked", "served", "ended"}

USE DEF Kinds

-----------------------------------------------------------------------------
(* The helpers of the actions. *)

LEMMA SlotIsFree == Free # {} => Slot \in Chains /\ conn[Slot] = "none"
  BY DEF Free, Slot

LEMMA FrameType ==
  ASSUME NEW r \in Nat, NEW i \in Nat, NEW kind \in Kinds \cup {"reset"}
  PROVE  [run |-> r, id |-> i, kind |-> kind] \in Frames
  BY DEF Frames

\* Deliver keeps the types and opens no connection.
LEMMA DeliverTypes ==
  ASSUME TypeOK, NEW c \in [Chains -> Conns], NEW p \in [Chains -> Seq(Frames)],
         NEW kind \in Kinds, Deliver(c, p, kind)
  PROVE  /\ published' \in Seq(Kinds)
         /\ conn' \in [Chains -> Conns] /\ pipe' \in [Chains -> Seq(Frames)]
         /\ Served' \subseteq {k \in Chains : c[k] = "served"}
<1>1. published \in Seq(Kinds) /\ run \in Nat
  BY DEF TypeOK
<1>2. published' \in Seq(Kinds)
  BY <1>1 DEF Deliver
<1>3. conn' \in [Chains -> Conns] /\ Served' \subseteq {k \in Chains : c[k] = "served"}
  BY DEF Deliver, Conns, Served
<1>4. pipe' \in [Chains -> Seq(Frames)]
  <2> DEFINE new == [run |-> run, id |-> Len(published) + 1, kind |-> kind]
  <2>1. Len(published) + 1 \in Nat
    BY <1>1
  <2>2. new \in Frames
    BY <1>1, <2>1, FrameType
  <2> HIDE DEF new
  <2>3. \A k \in Chains : Append(p[k], new) \in Seq(Frames)
    BY <2>2
  <2> QED BY <2>3 DEF Deliver, new
<1> QED BY <1>2, <1>3, <1>4

LEMMA BacklogType ==
  ASSUME TypeOK, NEW last \in Nat
  PROVE  Backlog(last) \in Seq(Frames)
<1> DEFINE n == Len(published)
<1>1. n \in Nat /\ run \in Nat /\ published \in Seq(Kinds)
  BY DEF TypeOK
<1>2. CASE last <= n
  <2>1. \A i \in 1 .. n - last : FrameOf(last + i) \in Frames
    <3> TAKE i \in 1 .. n - last
    <3>1. last + i \in 1 .. n
      BY <1>1, <1>2
    <3>2. published[last + i] \in Kinds
      BY <1>1, <3>1
    <3>3. last + i \in Nat
      BY <1>1
    <3> QED BY <1>1, <3>2, <3>3 DEF FrameOf, Frames
  <2>2. n - last \in Nat
    BY <1>1, <1>2
  <2>3. [i \in 1 .. n - last |-> FrameOf(last + i)] \in Seq(Frames)
    BY <2>1, <2>2
  <2>4. <<[run |-> run, id |-> n, kind |-> "reset"]>> \in Seq(Frames)
    BY <1>1 DEF Frames
  <2> QED BY <2>3, <2>4 DEF Backlog
<1>3. CASE last > n
  <2>1. <<[run |-> run, id |-> n, kind |-> "reset"]>> \in Seq(Frames)
    BY <1>1 DEF Frames
  <2> QED BY <1>3, <2>1 DEF Backlog
<1> QED BY <1>1, <1>2, <1>3

LEMMA MoveTypes ==
  ASSUME TypeOK, NEW drop \in SUBSET Chains, NEW open \in SUBSET Chains,
         NEW last \in Nat \cup {None}, Move(drop, open, last)
  PROVE  /\ conn' \in [Chains -> Conns] /\ pipe' \in [Chains -> Seq(Frames)]
         /\ asked' \in [Chains -> Nat \cup {None}]
         /\ mute' \in SUBSET Chains /\ held' \in SUBSET Chains
         /\ Served' \subseteq Served
<1>1. <<>> \in Seq(Frames)
  OBVIOUS
<1> QED BY <1>1 DEF TypeOK, Move, Conns, Served

\* The number of served connections grows only where Accept says so.
LEMMA CapKept ==
  ASSUME TypeOK, Served' \subseteq Served
  PROVE  Cardinality(Served') <= MaxConnections
<1>1. IsFiniteSet(Served)
  BY FS_Subset, StreamAssumption DEF Served
<1>2. Cardinality(Served') <= Cardinality(Served) /\ IsFiniteSet(Served')
  BY <1>1, FS_Subset
<1>3. Cardinality(Served) \in Nat /\ Cardinality(Served') \in Nat
  BY <1>1, <1>2, FS_CardinalityType
<1> QED BY <1>2, <1>3, StreamAssumption DEF TypeOK

-----------------------------------------------------------------------------
(* Types. *)

LEMMA InitTypes == Init => TypeOK
<1> SUFFICES ASSUME Init PROVE TypeOK
  OBVIOUS
<1>1. Served = {}
  BY DEF Init, Served
<1>2. Cardinality(Served) = 0
  BY <1>1, FS_EmptySet
<1>3. <<>> \in Seq(Kinds) /\ <<>> \in Seq(Frames)
  OBVIOUS
<1>4. 0 \in 0 .. MaxTroubles /\ 0 <= MaxConnections
  BY StreamAssumption
<1>5. /\ pipe \in [Chains -> Seq(Frames)] /\ published \in Seq(Kinds)
      /\ conn \in [Chains -> Conns] /\ asked \in [Chains -> Nat \cup {None}]
  BY <1>3 DEF Init, Conns
<1> QED BY <1>2, <1>4, <1>5 DEF Init, TypeOK, Conns

LEMMA AcceptTypes ==
  ASSUME TypeOK, NEW k \in Chains, Accept(k)
  PROVE  TypeOK'
<1>1. CASE Cardinality(Served) >= MaxConnections
  <2>1. conn' \in [Chains -> Conns] /\ Served' \subseteq Served
    BY <1>1 DEF Accept, TypeOK, Conns, Served
  <2>2. Cardinality(Served') <= MaxConnections
    BY <2>1, CapKept
  <2> QED BY <1>1, <2>1, <2>2 DEF Accept, TypeOK, Conns, consumer
<1>2. CASE ~(Cardinality(Served) >= MaxConnections)
  <2> DEFINE c == [conn EXCEPT ![k] = "served"]
             p == [pipe EXCEPT ![k] = IF asked[k] = None \/ k \notin held
                                      THEN <<>> ELSE Backlog(asked[k])]
  <2>1. c \in [Chains -> Conns]
    BY DEF TypeOK, Conns
  <2>2. p \in [Chains -> Seq(Frames)]
    <3>1. asked[k] = None \/ Backlog(asked[k]) \in Seq(Frames)
      BY BacklogType DEF TypeOK
    <3>2. <<>> \in Seq(Frames)
      OBVIOUS
    <3> QED BY <3>1, <3>2 DEF TypeOK
  <2>3. Deliver(c, p, "event")
    BY <1>2 DEF Accept
  <2>4. {j \in Chains : c[j] = "served"} = Served \cup {k}
    BY DEF TypeOK, Served
  <2> HIDE DEF c, p
  <2>5. /\ published' \in Seq(Kinds)
        /\ conn' \in [Chains -> Conns] /\ pipe' \in [Chains -> Seq(Frames)]
        /\ Served' \subseteq Served \cup {k}
    BY <2>1, <2>2, <2>3, <2>4, DeliverTypes
  <2>6. Cardinality(Served') <= MaxConnections
    <3>1. IsFiniteSet(Served)
      BY FS_Subset, StreamAssumption DEF Served
    <3>2. IsFiniteSet(Served \cup {k}) /\ Cardinality(Served \cup {k}) <= Cardinality(Served) + 1
      <4>1. Cardinality(Served) \in Nat
        BY <3>1, FS_CardinalityType
      <4>2. /\ IsFiniteSet(Served \cup {k})
            /\ Cardinality(Served \cup {k}) =
                 IF k \in Served THEN Cardinality(Served) ELSE Cardinality(Served) + 1
        BY ONLY <3>1, FS_AddElement
      <4> QED BY <4>1, <4>2
    <3>3. Cardinality(Served') <= Cardinality(Served \cup {k}) /\ IsFiniteSet(Served')
      BY <2>5, <3>2, FS_Subset
    <3>4. /\ Cardinality(Served) \in Nat /\ Cardinality(Served') \in Nat
          /\ Cardinality(Served \cup {k}) \in Nat
      BY <3>1, <3>2, <3>3, FS_CardinalityType
    <3> QED BY <1>2, <3>2, <3>3, <3>4, StreamAssumption
  <2>7. asked' \in [Chains -> Nat \cup {None}]
    BY DEF Accept, TypeOK
  <2> QED BY <2>5, <2>6, <2>7 DEF Accept, TypeOK, Conns, consumer
<1> QED BY <1>1, <1>2

\* A call of connect() that returns.
LEMMA ReturnsTypes ==
  ASSUME TypeOK, NEW k \in Chains, Returns(k), up' = up, run' = run, published' = published,
         sink' = sink, overlaps' = overlaps, troubles' \in 0 .. MaxTroubles
  PROVE  TypeOK'
<1>1. Move({k}, {}, None)
  BY DEF Returns
<1>2. /\ conn' \in [Chains -> Conns] /\ pipe' \in [Chains -> Seq(Frames)]
      /\ asked' \in [Chains -> Nat \cup {None}]
      /\ mute' \in SUBSET Chains /\ held' \in SUBSET Chains
      /\ Served' \subseteq Served
  BY <1>1, MoveTypes
<1>3. Cardinality(Served') <= MaxConnections
  BY <1>2, CapKept
<1>4. current' \in Chains \cup {None} /\ timer' \in BOOLEAN
  BY DEF Returns, TypeOK
<1> QED BY <1>2, <1>3, <1>4 DEF TypeOK, Returns, Conns

LEMMA RestartTypes ==
  ASSUME TypeOK, NEW open \in SUBSET Chains, open = {} \/ Slot \in Chains, Restart(open),
         up' \in BOOLEAN, run' \in Nat, published' \in Seq(Kinds), sink' = sink,
         troubles' \in 0 .. MaxTroubles
  PROVE  TypeOK'
<1>1. Owned \in SUBSET Chains
  BY DEF Owned, TypeOK
<1>2. /\ conn' \in [Chains -> Conns] /\ pipe' \in [Chains -> Seq(Frames)]
      /\ asked' \in [Chains -> Nat \cup {None}]
      /\ mute' \in SUBSET Chains /\ held' \in SUBSET Chains
      /\ Served' \subseteq Served
  BY <1>1, MoveTypes DEF Restart
<1>3. Cardinality(Served') <= MaxConnections
  BY <1>2, CapKept
<1>4. current' \in Chains \cup {None} /\ timer' \in BOOLEAN /\ overlaps' \in Nat
  BY DEF Restart, TypeOK
<1> QED BY <1>2, <1>3, <1>4 DEF TypeOK, Restart, Conns

LEMMA NextTypes == TypeOK /\ [Next]_vars => TypeOK'
<1> SUFFICES ASSUME TypeOK, [Next]_vars PROVE TypeOK'
  OBVIOUS
<1>t. Trouble => troubles' \in 0 .. MaxTroubles
  BY StreamAssumption DEF Trouble, TypeOK
<1>1. ASSUME NEW kind \in Kinds, Publish(kind) PROVE TypeOK'
  <2>1. conn \in [Chains -> Conns] /\ pipe \in [Chains -> Seq(Frames)]
    BY DEF TypeOK, Conns
  <2>2. /\ published' \in Seq(Kinds)
        /\ conn' \in [Chains -> Conns] /\ pipe' \in [Chains -> Seq(Frames)]
        /\ Served' \subseteq Served
    BY <1>1, <2>1, DeliverTypes DEF Publish, Served
  <2>3. Cardinality(Served') <= MaxConnections
    BY <2>2, CapKept
  <2> QED BY <1>1, <2>2, <2>3 DEF Publish, TypeOK, Conns, consumer
<1>2. ASSUME NEW k \in Chains, Accept(k) PROVE TypeOK'
  BY <1>2, AcceptTypes
<1>3. ASSUME NEW k \in Chains, Reap(k) PROVE TypeOK'
  <2>1. conn' \in [Chains -> Conns] /\ Served' \subseteq Served
    BY <1>3 DEF Reap, TypeOK, Conns, Served
  <2>2. Cardinality(Served') <= MaxConnections
    BY <2>1, CapKept
  <2> QED BY <1>3, <2>1, <2>2 DEF Reap, TypeOK, Conns, agent, consumer
<1>4. ASSUME NEW k \in Chains, Stall(k) PROVE TypeOK'
  <2>1. Cardinality(Served') <= MaxConnections
    BY <1>4 DEF Stall, Served, TypeOK
  <2> QED BY <1>4, <1>t, <2>1 DEF Stall, TypeOK, agent, consumer
<1>5. ASSUME NEW k \in Chains, Read(k) PROVE TypeOK'
  <2>1. Head(pipe[k]) \in Frames /\ Tail(pipe[k]) \in Seq(Frames)
    BY <1>5 DEF Read, TypeOK
  <2>2. Head(pipe[k]).id \in Nat
    BY <2>1 DEF Frames
  <2>3. Cardinality(Served') <= MaxConnections
    BY <1>5 DEF Read, Served, TypeOK
  <2>4. pipe' \in [Chains -> Seq(Frames)]
    BY <1>5, <2>1 DEF Read, TypeOK
  <2>5. lastId' \in Nat \cup {None} /\ sink' \in Frames \cup {None}
    BY <1>5, <2>1, <2>2 DEF Read
  <2> QED BY <1>5, <2>3, <2>4, <2>5 DEF Read, TypeOK, agent
<1>6. ASSUME NEW k \in Chains, End(k) PROVE TypeOK'
  <2>1. troubles' \in 0 .. MaxTroubles
    BY <1>6 DEF End, TypeOK
  <2> QED BY <1>6, <2>1, ReturnsTypes DEF End, agent
<1>7. ASSUME NEW k \in Chains, Break(k) PROVE TypeOK'
  BY <1>7, <1>t, ReturnsTypes DEF Break, agent
<1>8. ASSUME Die PROVE TypeOK'
  <2>1. conn' \in [Chains -> Conns] /\ Served' \subseteq Served
    BY <1>8 DEF Die, Conns, Served
  <2>2. Cardinality(Served') <= MaxConnections
    BY <2>1, CapKept
  <2>3. pipe' \in [Chains -> Seq(Frames)]
    <3>1. PICK n \in [held -> 0 .. CloseAt + RingSize + 1] :
            /\ \A k \in held : n[k] <= Len(pipe[k])
            /\ pipe' = [k \in Chains |->
                          IF k \in held THEN SubSeq(pipe[k], 1, n[k]) ELSE <<>>]
      BY <1>8 DEF Die
    <3>2. \A k \in held : SubSeq(pipe[k], 1, n[k]) \in Seq(Frames)
      <4> TAKE k \in held
      <4>1. n[k] \in 0 .. Len(pipe[k]) /\ pipe[k] \in Seq(Frames)
        BY <3>1, StreamAssumption DEF TypeOK
      <4> QED BY <4>1
    <3>3. <<>> \in Seq(Frames)
      OBVIOUS
    <3> QED BY <3>1, <3>2, <3>3
  <2>4. asked' \in [Chains -> Nat \cup {None}] /\ mute' \in SUBSET Chains
    BY <1>8 DEF Die
  <2> QED BY <1>8, <1>t, <2>1, <2>2, <2>3, <2>4 DEF Die, TypeOK, Conns, consumer
<1>9. ASSUME Stale PROVE TypeOK'
  <2>1. current \in Chains /\ troubles' \in 0 .. MaxTroubles
    BY <1>9 DEF Stale, TypeOK
  <2> QED BY <1>9, <2>1, ReturnsTypes DEF Stale, agent
<1>10. ASSUME TimerFires PROVE TypeOK'
  <2>1. Slot \in Chains
    BY <1>10, SlotIsFree DEF TimerFires
  <2>2. /\ conn' \in [Chains -> Conns] /\ pipe' \in [Chains -> Seq(Frames)]
        /\ asked' \in [Chains -> Nat \cup {None}]
        /\ mute' \in SUBSET Chains /\ held' \in SUBSET Chains
        /\ Served' \subseteq Served
    <3>1. lastId \in Nat \cup {None} /\ {Slot} \in SUBSET Chains /\ {} \in SUBSET Chains
      BY <2>1 DEF TypeOK
    <3> QED BY <1>10, <3>1, MoveTypes DEF TimerFires
  <2>3. Cardinality(Served') <= MaxConnections
    BY <2>2, CapKept
  <2> QED BY <1>10, <2>1, <2>2, <2>3 DEF TimerFires, TypeOK, Conns, agent
<1>11. ASSUME Resume PROVE TypeOK'
  <2> DEFINE open == IF up THEN {Slot} ELSE {}
  <2>1. open \in SUBSET Chains /\ (open = {} \/ Slot \in Chains)
    BY <1>11, SlotIsFree DEF Resume
  <2>2. up' \in BOOLEAN /\ run' \in Nat /\ published' \in Seq(Kinds)
    BY <1>11 DEF Resume, agent, TypeOK
  <2>3. Restart(open) /\ sink' = sink
    BY <1>11 DEF Resume
  <2>4. troubles' \in 0 .. MaxTroubles
    BY <1>11, <1>t DEF Resume
  <2> HIDE DEF open
  <2> QED BY <2>1, <2>2, <2>3, <2>4, RestartTypes
<1>12. ASSUME NewRun PROVE TypeOK'
  <2>1. {Slot} \in SUBSET Chains /\ Slot \in Chains
    BY <1>12, SlotIsFree DEF NewRun
  <2>2. up' \in BOOLEAN /\ run' \in Nat /\ published' \in Seq(Kinds)
    BY <1>12 DEF NewRun, TypeOK
  <2>3. Restart({Slot}) /\ sink' = sink /\ troubles' \in 0 .. MaxTroubles
    BY <1>12 DEF NewRun, TypeOK
  <2> QED BY <2>1, <2>2, <2>3, RestartTypes
<1>13. ASSUME Quit PROVE TypeOK'
  <2>1. Owned \in SUBSET Chains
    BY DEF Owned, TypeOK
  <2>2. /\ conn' \in [Chains -> Conns] /\ pipe' \in [Chains -> Seq(Frames)]
        /\ asked' \in [Chains -> Nat \cup {None}]
        /\ mute' \in SUBSET Chains /\ held' \in SUBSET Chains
        /\ Served' \subseteq Served
    BY <1>13, <2>1, MoveTypes DEF Quit
  <2>3. Cardinality(Served') <= MaxConnections
    BY <2>2, CapKept
  <2> QED BY <1>13, <2>2, <2>3 DEF Quit, TypeOK, Conns, agent
<1>14. ASSUME UNCHANGED vars PROVE TypeOK'
  BY <1>14 DEF vars, agent, sockets, consumer, TypeOK, Served
<1> QED BY <1>1, <1>2, <1>3, <1>4, <1>5, <1>6, <1>7, <1>8, <1>9, <1>10, <1>11, <1>12,
           <1>13, <1>14 DEF Next

\* The state stays well-typed, and the agent within its cap of connections.
THEOREM TypeCorrect == Spec => []TypeOK
<1>1. SafeSpec => []TypeOK
  BY InitTypes, NextTypes, PTL DEF SafeSpec
<1> QED BY <1>1, PTL DEF Spec
-----------------------------------------------------------------------------
(* The control of the consumer. *)

control == <<held, current, running, timer, overlaps>>

\* A call that has not returned has a slot of its own.
HeldIsOpen == \A k \in held : conn[k] # "none"

Control == NeverStuck /\ OneStream /\ HeldIsOpen

\* The steps that move the control of the consumer.
LEMMA ControlSteps ==
  ASSUME TypeOK, NeverStuck, [Next]_vars
  PROVE  \/ UNCHANGED control
         \/ \E k \in held : Returns(k) /\ UNCHANGED <<running, overlaps>>
         \/ TimerFires
         \/ \E open \in {{}, {Slot}} : Restart(open) /\ (open = {} \/ Free # {})
         \/ Quit
<1>1. ASSUME NEW kind \in Kinds, Publish(kind) PROVE UNCHANGED control
  BY <1>1 DEF Publish, control, consumer
<1>2. ASSUME NEW k \in Chains, Accept(k) PROVE UNCHANGED control
  BY <1>2 DEF Accept, control, consumer
<1>3. ASSUME NEW k \in Chains, Reap(k) PROVE UNCHANGED control
  BY <1>3 DEF Reap, control, consumer
<1>4. ASSUME NEW k \in Chains, Stall(k) PROVE UNCHANGED control
  BY <1>4 DEF Stall, control, consumer
<1>5. ASSUME NEW k \in Chains, Read(k) PROVE UNCHANGED control
  BY <1>5 DEF Read, control
<1>6. ASSUME NEW k \in Chains, End(k)
      PROVE  k \in held /\ Returns(k) /\ UNCHANGED <<running, overlaps>>
  BY <1>6 DEF End, Returns
<1>7. ASSUME NEW k \in Chains, Break(k)
      PROVE  k \in held /\ Returns(k) /\ UNCHANGED <<running, overlaps>>
  BY <1>7 DEF Break, Returns
<1>8. ASSUME Die PROVE UNCHANGED control
  BY <1>8 DEF Die, control, consumer
<1>9. ASSUME Stale
      PROVE  current \in held /\ Returns(current) /\ UNCHANGED <<running, overlaps>>
  BY <1>9 DEF Stale, Returns, NeverStuck
<1>10. ASSUME Resume
       PROVE  \E open \in {{}, {Slot}} : Restart(open) /\ (open = {} \/ Free # {})
  BY <1>10 DEF Resume
<1>11. ASSUME NewRun
       PROVE  \E open \in {{}, {Slot}} : Restart(open) /\ (open = {} \/ Free # {})
  BY <1>11 DEF NewRun
<1>12. ASSUME UNCHANGED vars PROVE UNCHANGED control
  BY <1>12 DEF vars, control, consumer
<1> QED BY <1>1, <1>2, <1>3, <1>4, <1>5, <1>6, <1>7, <1>8, <1>9, <1>10, <1>11, <1>12
        DEF Next

LEMMA HeldStaysOpen ==
  ASSUME TypeOK, NeverStuck, HeldIsOpen, [Next]_vars
  PROVE  HeldIsOpen'
<1> USE DEF HeldIsOpen
<1>1. ASSUME NEW c \in [Chains -> Conns], NEW p, NEW kind, Deliver(c, p, kind),
             held' = held, \A k \in held : c[k] # "none"
      PROVE  HeldIsOpen'
  BY <1>1 DEF Deliver, TypeOK
<1>2. ASSUME NEW drop, NEW open \in SUBSET Chains, NEW last, Move(drop, open, last)
      PROVE  HeldIsOpen'
  BY <1>2 DEF Move, TypeOK
<1>3. ASSUME NEW kind \in Kinds, Publish(kind) PROVE HeldIsOpen'
  BY <1>1, <1>3 DEF Publish, consumer, TypeOK, Conns
<1>4. ASSUME NEW k \in Chains, Accept(k) PROVE HeldIsOpen'
  <2>1. CASE Cardinality(Served) >= MaxConnections
    BY <1>4, <2>1 DEF Accept, consumer, TypeOK
  <2>2. CASE ~(Cardinality(Served) >= MaxConnections)
    <3> DEFINE c == [conn EXCEPT ![k] = "served"]
               p == [pipe EXCEPT ![k] = IF asked[k] = None \/ k \notin held
                                        THEN <<>> ELSE Backlog(asked[k])]
    <3>1. c \in [Chains -> Conns] /\ \A j \in held : c[j] # "none"
      BY DEF TypeOK, Conns
    <3>2. Deliver(c, p, "event") /\ held' = held
      BY <1>4, <2>2 DEF Accept, consumer
    <3> HIDE DEF c, p
    <3> QED BY <1>1, <3>1, <3>2
  <2> QED BY <2>1, <2>2
<1>5. ASSUME NEW k \in Chains, Reap(k) PROVE HeldIsOpen'
  BY <1>5 DEF Reap, consumer, TypeOK
<1>6. ASSUME NEW k \in Chains, Stall(k) PROVE HeldIsOpen'
  BY <1>6 DEF Stall, consumer
<1>7. ASSUME NEW k \in Chains, Read(k) PROVE HeldIsOpen'
  BY <1>7 DEF Read
<1>8. ASSUME Die PROVE HeldIsOpen'
  BY <1>8 DEF Die, consumer, TypeOK
<1>9. ASSUME NEW k, Returns(k) PROVE HeldIsOpen'
  BY <1>2, <1>9 DEF Returns
<1>10. ASSUME NEW open \in SUBSET Chains, Restart(open) PROVE HeldIsOpen'
  BY <1>2, <1>10 DEF Restart
<1>11. CASE UNCHANGED vars
  BY <1>11 DEF vars, sockets, consumer
<1>12. Resume \/ NewRun \/ TimerFires \/ Quit => HeldIsOpen'
  BY <1>2, <1>10, SlotIsFree DEF Resume, NewRun, TimerFires, Quit
<1> QED BY <1>3, <1>4, <1>5, <1>6, <1>7, <1>8, <1>9, <1>11, <1>12
        DEF Next, End, Break, Stale

\* What letting go of one call and opening another does to their number.
LEMMA CountHeld ==
  ASSUME TypeOK, NEW x
  PROVE  /\ Cardinality(held) \in Nat
         /\ x \in held => Cardinality(held \ {x}) = Cardinality(held) - 1
         /\ x \notin held => Cardinality(held \cup {x}) = Cardinality(held) + 1
         /\ \A y \in held : x \notin held =>
              Cardinality((held \ {y}) \cup {x}) = Cardinality(held)
<1>1. IsFiniteSet(held)
  BY FS_Subset, StreamAssumption DEF TypeOK
<1>2. Cardinality(held) \in Nat
  BY <1>1, FS_CardinalityType
<1>3. ASSUME NEW y \in held
      PROVE  IsFiniteSet(held \ {y}) /\ Cardinality(held \ {y}) = Cardinality(held) - 1
  BY ONLY <1>1, <1>3, FS_RemoveElement
<1>4. ASSUME NEW S, IsFiniteSet(S), x \notin S
      PROVE  Cardinality(S \cup {x}) = Cardinality(S) + 1
  BY ONLY <1>4, FS_AddElement
<1>5. ASSUME NEW y \in held, x \notin held
      PROVE  Cardinality((held \ {y}) \cup {x}) = Cardinality(held)
  <2>1. x \notin held \ {y}
    BY <1>5
  <2>2. Cardinality((held \ {y}) \cup {x}) = (Cardinality(held) - 1) + 1
    BY <1>3, <1>4, <2>1
  <2> QED BY <1>2, <2>2
<1> QED BY <1>1, <1>2, <1>3, <1>4, <1>5

LEMMA ControlNext ==
  ASSUME TypeOK, Control, [Next]_vars
  PROVE  Control'
<1> USE DEF Control
<1>1. HeldIsOpen'
  BY HeldStaysOpen
<1>2. /\ running \in BOOLEAN /\ timer \in BOOLEAN /\ overlaps \in Nat
      /\ current \in Chains \cup {None} /\ None \notin Chains
  BY StreamAssumption DEF TypeOK
<1>3. Cardinality(held) \in Nat
  BY CountHeld
<1>4. CASE UNCHANGED control
  BY <1>1, <1>4 DEF control, NeverStuck, OneStream
<1>5. ASSUME NEW k \in held, Returns(k), UNCHANGED <<running, overlaps>> PROVE Control'
  <2>1. held' = held \ {k} /\ timer' = (timer \/ running)
    BY <1>5 DEF Returns, Move
  <2>2. NeverStuck'
    BY <1>2, <1>5, <2>1 DEF NeverStuck, Returns
  <2>3. Cardinality(held') = Cardinality(held) - 1
    BY <2>1, CountHeld
  <2>4. OneStream'
    BY <1>2, <1>3, <1>5, <2>1, <2>3 DEF OneStream, NeverStuck
  <2> QED BY <1>1, <2>2, <2>4
<1>6. CASE TimerFires
  <2>1. Slot \in Chains /\ Slot \notin held
    BY <1>6, SlotIsFree DEF TimerFires, HeldIsOpen
  <2>2. /\ held' = held \cup {Slot} /\ current' = Slot /\ timer /\ ~timer'
        /\ UNCHANGED <<running, overlaps>>
    BY <1>6 DEF TimerFires, Move
  <2>3. NeverStuck'
    BY <1>2, <2>1, <2>2 DEF NeverStuck
  <2>4. Cardinality(held') = Cardinality(held) + 1
    BY <2>1, <2>2, CountHeld
  <2>5. OneStream'
    BY <1>2, <1>3, <2>2, <2>4 DEF OneStream
  <2> QED BY <1>1, <2>3, <2>5
<1>7. ASSUME NEW open \in {{}, {Slot}}, Restart(open), open = {} \/ Free # {} PROVE Control'
  <2>1. /\ held' = (held \ Owned) \cup open /\ running' = TRUE
        /\ current' = IF open = {} THEN None ELSE Slot
        /\ timer' = (open = {} \/ current # None)
        /\ overlaps' = IF current # None THEN overlaps + 1 ELSE overlaps
    BY <1>7 DEF Restart, Move
  <2>2. open # {} => open = {Slot} /\ Slot \in Chains /\ Slot \notin held
    BY <1>7, SlotIsFree DEF HeldIsOpen
  <2>3. NeverStuck'
    BY <1>2, <2>1, <2>2 DEF NeverStuck
  <2>4. CASE current = None
    <3>1. /\ open = {} => held' = held
          /\ open # {} => held' = held \cup {Slot}
      BY <2>1, <2>2, <2>4 DEF Owned
    <3>2. Cardinality(held') = IF open = {} THEN Cardinality(held) ELSE Cardinality(held) + 1
      BY <1>3, <2>2, <3>1, CountHeld
    <3>3. /\ running => Cardinality(held) <= overlaps
          /\ ~running => Cardinality(held) <= overlaps
      BY <1>2, <1>3, <2>4 DEF OneStream, NeverStuck
    <3>4. running' /\ overlaps' = overlaps /\ (timer' <=> open = {})
      BY <2>1, <2>4
    <3>5. OneStream'
      BY <1>2, <1>3, <3>2, <3>3, <3>4 DEF OneStream
    <3> QED BY <1>1, <2>3, <3>5
  <2>5. CASE current # None
    <3>1. current \in held /\ running
      BY <2>5 DEF NeverStuck
    <3>2. /\ open = {} => held' = held \ {current}
          /\ open # {} => held' = (held \ {current}) \cup {Slot}
      BY <2>1, <2>2, <2>5 DEF Owned
    <3>3. Cardinality(held') \in Int /\ Cardinality(held') <= Cardinality(held)
      <4>1. CASE open = {}
        <5>1. Cardinality(held') = Cardinality(held) - 1
          BY <3>1, <3>2, <4>1, CountHeld
        <5> QED BY <1>3, <5>1
      <4>2. CASE open # {}
        <5>1. Cardinality(held') = Cardinality(held)
          BY <2>2, <3>1, <3>2, <4>2, CountHeld
        <5> QED BY <1>3, <5>1
      <4> QED BY <4>1, <4>2
    <3>4. OneStream'
      BY <1>2, <1>3, <2>1, <2>5, <3>1, <3>3 DEF OneStream
    <3> QED BY <1>1, <2>3, <3>4
  <2> QED BY <2>4, <2>5
<1>8. CASE Quit
  <2>1. /\ held' = held \ Owned /\ current' = None /\ running /\ ~running' /\ ~timer'
        /\ overlaps' = overlaps
    BY <1>8 DEF Quit, Move
  <2>2. NeverStuck'
    BY <2>1 DEF NeverStuck
  <2>3. CASE current = None
    <3>1. held' = held /\ timer
      BY <2>1, <2>3 DEF Owned, NeverStuck
    <3>2. OneStream'
      BY <1>2, <1>3, <2>1, <3>1 DEF OneStream
    <3> QED BY <1>1, <2>2, <3>2
  <2>4. CASE current # None
    <3>1. held' = held \ {current} /\ current \in held
      BY <2>1, <2>4 DEF Owned, NeverStuck
    <3>2. Cardinality(held') = Cardinality(held) - 1
      BY <3>1, CountHeld
    <3>3. OneStream'
      BY <1>2, <1>3, <2>1, <3>2 DEF OneStream
    <3> QED BY <1>1, <2>2, <3>3
  <2> QED BY <2>3, <2>4
<1> QED BY <1>4, <1>5, <1>6, <1>7, <1>8, ControlSteps

LEMMA ControlInit == Init => Control
<1>1. Cardinality({}) = 0
  BY FS_EmptySet
<1> QED BY <1>1 DEF Init, Control, NeverStuck, OneStream, HeldIsOpen

LEMMA ControlInvariant == SafeSpec => [](TypeOK /\ Control)
<1>1. Init => TypeOK /\ Control
  BY InitTypes, ControlInit
<1>2. (TypeOK /\ Control) /\ [Next]_vars => (TypeOK /\ Control)'
  BY NextTypes, ControlNext
<1> QED BY <1>1, <1>2, PTL DEF SafeSpec

\* A running consumer always owns a connection or waits for its timer, whatever
\* connect(), aborts, stops and starts do to each other.
THEOREM NeverStuckHolds == Spec => []NeverStuck
<1>1. Control => NeverStuck
  BY DEF Control
<1> QED BY <1>1, ControlInvariant, PTL DEF Spec

\* Parallel streams are owed, one each, to a start() over an aborted connection.
THEOREM OneStreamHolds == Spec => []OneStream
<1>1. Control => OneStream
  BY DEF Control
<1> QED BY <1>1, ControlInvariant, PTL DEF Spec

\* One connection or one timer drives the consumer, for any number of slots.
THEOREM OneDriverHolds == Spec => []OneDriver
<1>1. NeverStuck /\ OneStream => OneDriver
  BY DEF OneDriver
<1> QED BY <1>1, NeverStuckHolds, OneStreamHolds, PTL

\* A call of connect() beside the one that is owned needs an overlap.
LEMMA OnlyOneHeld ==
  ASSUME TypeOK, Control, overlaps = 0
  PROVE  held = Owned
<1>1. IsFiniteSet(held) /\ Cardinality(held) \in Nat
  BY FS_Subset, FS_CardinalityType, StreamAssumption DEF TypeOK
<1>2. running \in BOOLEAN /\ timer \in BOOLEAN
  BY DEF TypeOK
<1>3. CASE current = None
  <2>1. Cardinality(held) = 0
    BY <1>1, <1>2, <1>3 DEF Control, OneStream, NeverStuck
  <2> QED BY <1>1, <1>3, <2>1, FS_EmptySet DEF Owned
<1>4. CASE current # None
  <2>1. current \in held /\ Cardinality(held) <= 1
    BY <1>1, <1>2, <1>4 DEF Control, OneStream, NeverStuck
  <2>2. Cardinality(held) # 0
    BY <1>1, <2>1, FS_EmptySet
  <2>3. \E x : held = {x}
    BY <1>1, <2>1, <2>2, FS_Singleton
  <2> QED BY <1>4, <2>1, <2>3 DEF Owned
<1> QED BY <1>3, <1>4

\* A stopped consumer hands on nothing: no call of connect() is left to read.
THEOREM QuietWhenStoppedHolds == Spec => QuietWhenStopped
<1>1. TypeOK /\ Control /\ [Next]_vars => [overlaps = 0 /\ ~running => sink' = sink]_vars
  <2> SUFFICES ASSUME TypeOK, Control, Next, overlaps = 0, ~running PROVE sink' = sink
    BY DEF vars
  <2>1. held = {}
    BY OnlyOneHeld DEF Control, NeverStuck, Owned
  <2> QED BY <2>1 DEF Next, Publish, Accept, Reap, Die, Stall, Read, End, Break, Stale,
               TimerFires, Resume, NewRun, Quit
<1> QED BY <1>1, ControlInvariant, PTL DEF Spec, SafeSpec, QuietWhenStopped

-----------------------------------------------------------------------------
(***************************************************************************)
(* Theorems about the order and completeness of the events of EventStream. *)
(* The invariant says what waits in a connection: frames that follow each  *)
(* other without a gap, the first after the last id read, the last level   *)
(* with the bus.                                                           *)
(***************************************************************************)

HIDE DEF Kinds

Logs(pub, from, to) == \A i \in from .. to : pub[i] = "log"

\* The frame comes next after the id, but for shed logs.
Follows(pub, a, f) == f.id > a /\ f.kind # "reset" /\ Logs(pub, a + 1, f.id - 1)

Within(pub, p) == \A i \in 1 .. Len(p) : p[i].id <= Len(pub)
Gapless(pub, p) == \A i \in 1 .. Len(p) - 1 : Follows(pub, p[i].id, p[i + 1])
From(pub, a, p) == a # None /\ p # <<>> /\ p[1].kind # "reset" => Follows(pub, a, p[1])
LastOf(a, p) == IF p = <<>> THEN a ELSE p[Len(p)].id
Level(pub, a, p) ==
  LastOf(a, p) # None => LastOf(a, p) <= Len(pub) /\ Logs(pub, LastOf(a, p) + 1, Len(pub))
Complete(pub, p) ==
  p # <<>> => \A i \in p[1].id + 1 .. Len(pub) :
                pub[i] = "event" => \E j \in 1 .. Len(p) : p[j].id = i

\* What a connection that the agent serves has waiting, for a client at id a.
Waiting(pub, a, p) == Within(pub, p) /\ Gapless(pub, p) /\ Level(pub, a, p) /\ Complete(pub, p)

ServedWaits ==
  \A k \in held : conn[k] = "served" => up /\ Waiting(published, None, pipe[k])

\* The one connection of a consumer without overlaps.
InStep(k) ==
  /\ \A i \in 1 .. Len(pipe[k]) : pipe[k][i].run = run
  /\ Within(published, pipe[k]) /\ Gapless(published, pipe[k])
  /\ From(published, lastId, pipe[k])
  /\ conn[k] = "asked" => pipe[k] = <<>> /\ asked[k] = lastId
  /\ conn[k] = "served" => Level(published, lastId, pipe[k])

Feed ==
  /\ ServedWaits
  /\ overlaps = 0 =>
       /\ lastId # None => lastId <= Len(published) /\ sink.run = run
       /\ \A k \in held : InStep(k)

-----------------------------------------------------------------------------
(* Sequences of frames. *)

Ids == Nat \cup {None}

LEMMA EmptyFrames == \A p \in Seq(Frames) : p = <<>> <=> Len(p) = 0
  OBVIOUS

LEMMA FrameFields ==
  ASSUME NEW p \in Seq(Frames), NEW i \in 1 .. Len(p)
  PROVE  p[i] \in Frames /\ p[i].id \in Nat
<1>1. p[i] \in Frames
  OBVIOUS
<1> QED BY <1>1 DEF Frames

\* An event more on the bus leaves the frames before it as they were.
LEMMA BusGrows ==
  ASSUME NEW pub \in Seq(Kinds), NEW kind \in Kinds, NEW p \in Seq(Frames), NEW a \in Ids,
         Within(pub, p)
  PROVE  LET pub2 == Append(pub, kind)
         IN /\ Within(pub2, p)
            /\ Gapless(pub, p) => Gapless(pub2, p)
            /\ From(pub, a, p) => From(pub2, a, p)
            /\ kind = "log" /\ Level(pub, a, p) => Level(pub2, a, p)
            /\ kind = "log" /\ Complete(pub, p) => Complete(pub2, p)
<1> DEFINE pub2 == Append(pub, kind)
<1>1. /\ Len(pub) \in Nat /\ Len(pub2) = Len(pub) + 1
      /\ \A i \in 1 .. Len(pub) : pub2[i] = pub[i]
      /\ pub2[Len(pub) + 1] = kind
  OBVIOUS
<1> HIDE DEF pub2
<1>2. Within(pub2, p)
  <2> SUFFICES ASSUME NEW i \in 1 .. Len(p) PROVE p[i].id <= Len(pub2)
    BY DEF Within
  <2>1. p[i].id \in Nat /\ p[i].id <= Len(pub)
    BY FrameFields DEF Within
  <2> QED BY <1>1, <2>1
<1>3. ASSUME NEW b \in Nat, NEW i \in 1 .. Len(p), Follows(pub, b, p[i])
      PROVE  Follows(pub2, b, p[i])
  <2>1. p[i].id \in Nat /\ p[i].id <= Len(pub)
    BY FrameFields DEF Within
  <2> QED BY <1>1, <1>3, <2>1 DEF Follows, Logs
<1>4. Gapless(pub, p) => Gapless(pub2, p)
  <2> SUFFICES ASSUME Gapless(pub, p), NEW i \in 1 .. Len(p) - 1
               PROVE  Follows(pub2, p[i].id, p[i + 1])
    BY DEF Gapless
  <2>1. i \in 1 .. Len(p) /\ i + 1 \in 1 .. Len(p)
    OBVIOUS
  <2>2. p[i].id \in Nat
    BY <2>1, FrameFields
  <2> QED BY <1>3, <2>1, <2>2 DEF Gapless
<1>5. From(pub, a, p) => From(pub2, a, p)
  <2>1. p # <<>> => 1 \in 1 .. Len(p)
    OBVIOUS
  <2> QED BY <1>3, <2>1 DEF From, Ids
<1>6. kind = "log" /\ Level(pub, a, p) => Level(pub2, a, p)
  <2>1. LastOf(a, p) \in Ids
    <3>1. CASE p = <<>>
      BY <3>1 DEF LastOf
    <3>2. CASE p # <<>>
      <4>1. Len(p) \in 1 .. Len(p)
        BY <3>2
      <4> QED BY <3>2, <4>1, FrameFields DEF LastOf, Ids
    <3> QED BY <3>1, <3>2
  <2> HIDE DEF LastOf
  <2> QED BY <1>1, <2>1 DEF Level, Logs, Ids
<1>7. kind = "log" /\ Complete(pub, p) => Complete(pub2, p)
  <2> SUFFICES ASSUME kind = "log", Complete(pub, p), p # <<>>,
                      NEW i \in p[1].id + 1 .. Len(pub2), pub2[i] = "event"
               PROVE  \E j \in 1 .. Len(p) : p[j].id = i
    BY DEF Complete
  <2>1. p[1].id \in Nat
    BY FrameFields
  <2>2. i \in p[1].id + 1 .. Len(pub) /\ pub[i] = "event"
    BY <1>1, <2>1
  <2> QED BY <2>2 DEF Complete
<1> QED BY <1>2, <1>4, <1>5, <1>6, <1>7 DEF pub2

\* The new event joins the frames that wait.
LEMMA FrameJoins ==
  ASSUME NEW pub \in Seq(Kinds), NEW kind \in Kinds, NEW p \in Seq(Frames), NEW a \in Ids,
         NEW r \in Nat, Waiting(pub, a, p)
  PROVE  LET pub2 == Append(pub, kind)
             f == [run |-> r, id |-> Len(pub) + 1, kind |-> kind]
         IN /\ Waiting(pub2, a, Append(p, f))
            /\ From(pub, a, p) => From(pub2, a, Append(p, f))
<1> DEFINE pub2 == Append(pub, kind)
           f == [run |-> r, id |-> Len(pub) + 1, kind |-> kind]
           q == Append(p, f)
<1>1. /\ Len(pub) \in Nat /\ Len(pub2) = Len(pub) + 1
      /\ \A i \in 1 .. Len(pub) : pub2[i] = pub[i]
      /\ pub2[Len(pub) + 1] = kind
  OBVIOUS
<1>2. f \in Frames /\ f.id = Len(pub) + 1 /\ f.kind \in Kinds /\ f.kind # "reset"
  BY <1>1 DEF Frames, Kinds
<1> HIDE DEF f, pub2
<1>3. /\ q \in Seq(Frames) /\ Len(q) = Len(p) + 1 /\ q[Len(p) + 1] = f /\ q # <<>>
      /\ \A i \in 1 .. Len(p) : q[i] = p[i]
  BY <1>2
<1> HIDE DEF q
<1>4. Within(pub, p) /\ Gapless(pub, p) /\ Level(pub, a, p) /\ Complete(pub, p)
  BY DEF Waiting
<1>5. Within(pub2, p) /\ Gapless(pub2, p) /\ (From(pub, a, p) => From(pub2, a, p))
  BY <1>4, BusGrows DEF pub2
<1>6. Within(pub2, q)
  BY <1>1, <1>2, <1>3, <1>5 DEF Within
<1>7. LastOf(a, p) # None => Follows(pub2, LastOf(a, p), f)
  <2>1. LastOf(a, p) \in Ids
    <3>1. CASE p = <<>>
      BY <3>1 DEF LastOf
    <3>2. CASE p # <<>>
      <4>1. Len(p) \in 1 .. Len(p)
        BY <3>2
      <4> QED BY <3>2, <4>1, FrameFields DEF LastOf, Ids
    <3> QED BY <3>1, <3>2
  <2> HIDE DEF LastOf
  <2> QED BY <1>1, <1>2, <1>4, <2>1 DEF Level, Logs, Follows, Ids
<1>8. p # <<>> => LastOf(a, p) = p[Len(p)].id /\ p[Len(p)].id \in Nat /\ LastOf(a, p) # None
  <2>1. p # <<>> => Len(p) \in 1 .. Len(p)
    OBVIOUS
  <2> QED BY <2>1, FrameFields, StreamAssumption DEF LastOf
<1>9. Gapless(pub2, q)
  <2> SUFFICES ASSUME NEW i \in 1 .. Len(q) - 1 PROVE Follows(pub2, q[i].id, q[i + 1])
    BY DEF Gapless
  <2>1. CASE i = Len(p)
    BY <1>3, <1>7, <1>8, <2>1
  <2>2. CASE i # Len(p)
    <3>1. i \in 1 .. Len(p) - 1 /\ q[i] = p[i] /\ q[i + 1] = p[i + 1]
      BY <1>3, <2>2
    <3> QED BY <1>5, <3>1 DEF Gapless
  <2> QED BY <2>1, <2>2
<1>10. Level(pub2, a, q)
  <2>1. LastOf(a, q) = Len(pub2)
    BY <1>1, <1>2, <1>3 DEF LastOf
  <2> QED BY <1>1, <2>1 DEF Level, Logs
<1>11. Complete(pub2, q)
  <2> SUFFICES ASSUME NEW i \in q[1].id + 1 .. Len(pub2), pub2[i] = "event"
               PROVE  \E j \in 1 .. Len(q) : q[j].id = i
    BY DEF Complete
  <2>1. CASE i = Len(pub) + 1
    <3>1. q[Len(p) + 1].id = i /\ Len(p) + 1 \in 1 .. Len(q)
      BY <1>2, <1>3, <2>1
    <3> QED BY <3>1
  <2>2. CASE i # Len(pub) + 1 /\ p # <<>>
    <3>1. q[1] = p[1] /\ p[1].id \in Nat
      BY <1>3, <2>2, FrameFields
    <3>2. i \in p[1].id + 1 .. Len(pub) /\ pub[i] = "event"
      BY <1>1, <2>2, <3>1
    <3>3. PICK j \in 1 .. Len(p) : p[j].id = i
      BY <1>4, <2>2, <3>2 DEF Complete
    <3> QED BY <1>3, <3>3
  <2>3. CASE i # Len(pub) + 1 /\ p = <<>>
    <3>1. q[1] = f
      BY <1>3, <2>3
    <3> QED BY <1>1, <1>2, <2>3, <3>1
  <2> QED BY <2>1, <2>2, <2>3
<1>12. From(pub, a, p) => From(pub2, a, q)
  <2>1. CASE p = <<>>
    <3>1. q[1] = f /\ LastOf(a, p) = a
      BY <1>3, <2>1 DEF LastOf
    <3> QED BY <1>7, <3>1 DEF From
  <2>2. CASE p # <<>>
    <3>1. q[1] = p[1]
      BY <1>3, <2>2
    <3> QED BY <1>5, <2>2, <3>1 DEF From
  <2> QED BY <2>1, <2>2
<1> QED BY <1>6, <1>9, <1>10, <1>11, <1>12 DEF Waiting, pub2, f, q

\* The first frame is read.
LEMMA FrameLeaves ==
  ASSUME NEW pub \in Seq(Kinds), NEW p \in Seq(Frames), p # <<>>, NEW a \in Ids,
         Within(pub, p), Gapless(pub, p)
  PROVE  /\ Within(pub, Tail(p)) /\ Gapless(pub, Tail(p))
         /\ From(pub, Head(p).id, Tail(p))
         /\ Level(pub, a, p) => Level(pub, Head(p).id, Tail(p)) /\ Level(pub, None, Tail(p))
         /\ Complete(pub, p) => Complete(pub, Tail(p))
<1> DEFINE q == Tail(p)
<1>1. /\ q \in Seq(Frames) /\ Len(q) = Len(p) - 1 /\ Head(p) = p[1]
      /\ Len(p) \in Nat \ {0}
      /\ \A i \in 1 .. Len(q) : q[i] = p[i + 1]
      /\ q = <<>> <=> Len(p) = 1
  <2>1. q \in Seq(Frames) /\ Len(q) = Len(p) - 1 /\ Head(p) = p[1] /\ Len(p) \in Nat \ {0}
    OBVIOUS
  <2>2. \A i \in 1 .. Len(q) : q[i] = p[i + 1]
    OBVIOUS
  <2>3. q = <<>> <=> Len(q) = 0
    BY <2>1, EmptyFrames
  <2> QED BY <2>1, <2>2, <2>3
<1> HIDE DEF q
<1>2. \A i \in 1 .. Len(p) : p[i].id \in Nat
  BY FrameFields
<1>3. Within(pub, q)
  BY <1>1 DEF Within
<1>4. Gapless(pub, q)
  <2> SUFFICES ASSUME NEW i \in 1 .. Len(q) - 1 PROVE Follows(pub, q[i].id, q[i + 1])
    BY DEF Gapless
  <2>1. q[i] = p[i + 1] /\ q[i + 1] = p[i + 2] /\ i + 1 \in 1 .. Len(p) - 1
    BY <1>1
  <2>2. Follows(pub, p[i + 1].id, p[(i + 1) + 1])
    BY <2>1 DEF Gapless
  <2> QED BY <2>1, <2>2
<1>5. q # <<>> => Follows(pub, p[1].id, q[1]) /\ q[1] = p[2]
  <2> SUFFICES ASSUME q # <<>> PROVE Follows(pub, p[1].id, q[1]) /\ q[1] = p[2]
    OBVIOUS
  <2>1. 1 \in 1 .. Len(p) - 1 /\ 1 \in 1 .. Len(q) /\ q[1] = p[1 + 1]
    BY <1>1
  <2> QED BY <2>1 DEF Gapless
<1>6. From(pub, Head(p).id, q)
  BY <1>1, <1>5 DEF From
<1>7. /\ LastOf(Head(p).id, q) = LastOf(a, p)
      /\ LastOf(None, q) \in {None, LastOf(a, p)}
  <2>1. CASE q = <<>>
    BY <1>1, <2>1 DEF LastOf
  <2>2. CASE q # <<>>
    <3>1. q[Len(q)] = p[Len(p)]
      BY <1>1, <2>2
    <3> QED BY <2>2, <3>1 DEF LastOf
  <2> QED BY <2>1, <2>2
<1>8. Level(pub, a, p) => Level(pub, Head(p).id, q) /\ Level(pub, None, q)
  BY <1>7 DEF Level
<1>9. Complete(pub, p) => Complete(pub, q)
  <2> SUFFICES ASSUME Complete(pub, p), q # <<>>, NEW i \in q[1].id + 1 .. Len(pub),
                      pub[i] = "event"
               PROVE  \E j \in 1 .. Len(q) : q[j].id = i
    BY DEF Complete
  <2>1. p[1].id < q[1].id /\ p[1].id \in Nat /\ q[1].id \in Nat
    BY <1>1, <1>2, <1>5 DEF Follows
  <2>2. i \in p[1].id + 1 .. Len(pub) /\ i # p[1].id
    BY <2>1
  <2>3. PICK j \in 1 .. Len(p) : p[j].id = i
    BY <2>2 DEF Complete
  <2>4. j # 1 /\ j - 1 \in 1 .. Len(q) /\ q[j - 1] = p[j]
    BY <1>1, <2>2, <2>3
  <2> QED BY <2>3, <2>4
<1> QED BY <1>3, <1>4, <1>6, <1>8, <1>9 DEF q

\* What replayAfter answers: the frames after the id, or a reset when the ring
\* does not go back that far or the id is of another run.
LEMMA BacklogWaits ==
  ASSUME TypeOK, NEW a \in Nat
  PROVE  /\ Waiting(published, None, Backlog(a))
         /\ \A i \in 1 .. Len(Backlog(a)) : Backlog(a)[i].run = run
         /\ a <= Len(published) => /\ From(published, a, Backlog(a))
                                   /\ Level(published, a, Backlog(a))
<1> DEFINE n == Len(published)
           reset == [run |-> run, id |-> n, kind |-> "reset"]
           replay == [i \in 1 .. n - a |-> FrameOf(a + i)]
<1>1. n \in Nat /\ run \in Nat /\ published \in Seq(Kinds)
  BY DEF TypeOK
<1>2. CASE Backlog(a) = <<reset>>
  <2> DEFINE p == <<reset>>
  <2>1. Len(p) = 1 /\ p[1] = reset /\ p # <<>> /\ reset.id = n /\ reset.run = run
        /\ reset.kind = "reset"
    OBVIOUS
  <2>2. Within(published, p) /\ Gapless(published, p) /\ From(published, a, p)
    BY <1>1, <2>1 DEF Within, Gapless, From
  <2>3. \A b : LastOf(b, p) = n
    BY <2>1 DEF LastOf
  <2>4. Level(published, None, p) /\ Level(published, a, p)
    BY <1>1, <2>3 DEF Level, Logs
  <2>5. Complete(published, p)
    BY <1>1, <2>1 DEF Complete
  <2> QED BY <1>2, <2>1, <2>2, <2>4, <2>5 DEF Waiting
<1>3. CASE Backlog(a) = replay /\ a <= n
  <2>1. n - a \in Nat
    BY <1>1, <1>3
  <2>2. /\ Len(replay) = n - a
        /\ \A i \in 1 .. n - a : /\ replay[i].id = a + i /\ replay[i].run = run
                                  /\ replay[i].kind = published[a + i]
        /\ replay = <<>> <=> n = a
    <3>1. replay \in Seq(Frames)
      BY <1>3, BacklogType
    <3>2. DOMAIN replay = 1 .. n - a
      OBVIOUS
    <3>3. Len(replay) = n - a
      BY <2>1, <3>1, <3>2
    <3>4. \A i \in 1 .. n - a : replay[i] = FrameOf(a + i)
      OBVIOUS
    <3> HIDE DEF replay, n
    <3>5. replay = <<>> <=> n = a
      BY <1>1, <3>1, <3>3, EmptyFrames
    <3>6. \A i : /\ FrameOf(i).id = i /\ FrameOf(i).run = run
                 /\ FrameOf(i).kind = published[i]
      BY DEF FrameOf
    <3> QED BY <3>3, <3>4, <3>5, <3>6
  <2>3. \A i \in 1 .. n - a : replay[i].kind # "reset"
    <3> TAKE i \in 1 .. n - a
    <3>1. a + i \in 1 .. n
      BY <1>1
    <3>2. published[a + i] \in Kinds
      BY <1>1, <3>1
    <3> QED BY <2>2, <3>2 DEF Kinds
  <2> HIDE DEF replay
  <2>4. Within(published, replay)
    BY <1>1, <2>2 DEF Within
  <2>5. Gapless(published, replay)
    <3> SUFFICES ASSUME NEW i \in 1 .. Len(replay) - 1
                 PROVE  Follows(published, replay[i].id, replay[i + 1])
      BY DEF Gapless
    <3>1. /\ replay[i].id = a + i /\ replay[i + 1].id = a + i + 1
          /\ replay[i + 1].kind # "reset"
      BY <1>1, <2>1, <2>2, <2>3
    <3> QED BY <1>1, <3>1 DEF Follows, Logs
  <2>6. From(published, a, replay)
    <3> SUFFICES ASSUME replay # <<>> PROVE Follows(published, a, replay[1])
      BY DEF From
    <3>1. replay[1].id = a + 1 /\ replay[1].kind # "reset"
      BY <1>1, <2>1, <2>2, <2>3
    <3> QED BY <1>1, <3>1 DEF Follows, Logs
  <2>7. LastOf(a, replay) = n /\ LastOf(None, replay) \in {n, None}
    <3>1. CASE replay = <<>>
      BY <2>2, <3>1 DEF LastOf
    <3>2. CASE replay # <<>>
      <4>1. n - a \in 1 .. n - a
        BY <2>1, <2>2, <3>2
      <4>2. replay[n - a].id = a + (n - a)
        BY <2>2, <4>1
      <4> QED BY <1>1, <2>2, <3>2, <4>2 DEF LastOf
    <3> QED BY <3>1, <3>2
  <2>8. Level(published, a, replay) /\ Level(published, None, replay)
    BY <1>1, <2>7 DEF Level, Logs
  <2>9. Complete(published, replay)
    <3> SUFFICES ASSUME replay # <<>>, NEW i \in replay[1].id + 1 .. n
                 PROVE  \E j \in 1 .. Len(replay) : replay[j].id = i
      BY DEF Complete
    <3>1. replay[1].id = a + 1
      BY <2>1, <2>2
    <3>2. i - a \in 1 .. n - a /\ replay[i - a].id = i
      BY <1>1, <2>1, <2>2, <3>1
    <3> QED BY <2>2, <3>2
  <2> QED BY <1>3, <2>2, <2>4, <2>5, <2>6, <2>8, <2>9 DEF Waiting
<1>4. Backlog(a) = <<reset>> \/ (Backlog(a) = replay /\ a <= n)
  BY <1>1 DEF Backlog
<1> QED BY <1>2, <1>3, <1>4

-----------------------------------------------------------------------------
(* The invariant. *)

LEMMA EmptyWaits ==
  ASSUME NEW pub, NEW a \in Ids
  PROVE  /\ Within(pub, <<>>) /\ Gapless(pub, <<>>) /\ From(pub, a, <<>>)
         /\ Waiting(pub, None, <<>>)
  BY DEF Within, Gapless, From, Waiting, Level, LastOf, Complete

\* publish(), seen from one call of connect() whose client is at a.
LEMMA DeliverFeed ==
  ASSUME TypeOK, NEW c \in [Chains -> Conns], NEW p \in [Chains -> Seq(Frames)],
         NEW kind \in Kinds, Deliver(c, p, kind), NEW k \in held, NEW a \in Ids,
         Within(published, p[k]), Gapless(published, p[k]),
         c[k] = "served" => Waiting(published, None, p[k])
  PROVE  /\ Within(published', pipe'[k]) /\ Gapless(published', pipe'[k])
         /\ conn'[k] = "served" => c[k] = "served" /\ Waiting(published', None, pipe'[k])
         /\ From(published, a, p[k]) /\ (c[k] = "served" => Level(published, a, p[k])) =>
              /\ From(published', a, pipe'[k])
              /\ conn'[k] = "served" => Level(published', a, pipe'[k])
         /\ (\A i \in 1 .. Len(p[k]) : p[k][i].run = run) =>
              \A i \in 1 .. Len(pipe'[k]) : pipe'[k][i].run = run
         /\ c[k] # "served" => conn'[k] = c[k] /\ pipe'[k] = p[k]
         /\ c[k] = "served" => conn'[k] \in {"served", "ended"}
<1> DEFINE new == [run |-> run, id |-> Len(published) + 1, kind |-> kind]
           open == {j \in held : c[j] = "served"}
           shed == {j \in open : kind = "log" /\ Len(p[j]) > DropAt}
           cut == {j \in open \ shed : Len(p[j]) > CloseAt}
<1>1. /\ published \in Seq(Kinds) /\ run \in Nat /\ k \in Chains /\ p[k] \in Seq(Frames)
      /\ None \in Ids
  BY DEF TypeOK, Ids
<1>2. /\ published' = Append(published, kind)
      /\ conn'[k] = IF k \in cut THEN "ended" ELSE c[k]
      /\ pipe'[k] = IF k \in open \ (shed \cup cut) THEN Append(p[k], new) ELSE p[k]
  BY <1>1 DEF Deliver
<1>3. \A b \in Ids :
        /\ Within(published', p[k])
        /\ Gapless(published, p[k]) => Gapless(published', p[k])
        /\ From(published, b, p[k]) => From(published', b, p[k])
        /\ kind = "log" /\ Level(published, b, p[k]) => Level(published', b, p[k])
        /\ kind = "log" /\ Complete(published, p[k]) => Complete(published', p[k])
  BY <1>1, <1>2, BusGrows
<1>4. k \in open => c[k] = "served" /\ Waiting(published, None, p[k])
  OBVIOUS
<1>5. k \in shed => k \in open /\ kind = "log"
  OBVIOUS
<1>6. k \notin open => c[k] # "served"
  OBVIOUS
<1>7. k \in cut => k \in open
  OBVIOUS
<1>8. \A b \in Ids :
        Waiting(published, b, p[k]) =>
          /\ Waiting(published', b, Append(p[k], new))
          /\ From(published, b, p[k]) => From(published', b, Append(p[k], new))
  BY <1>1, <1>2, FrameJoins
<1>9. (\A i \in 1 .. Len(p[k]) : p[k][i].run = run) =>
        \A i \in 1 .. Len(Append(p[k], new)) : Append(p[k], new)[i].run = run
  <2>1. new \in Frames /\ new.run = run
    BY <1>1 DEF Frames
  <2> HIDE DEF new
  <2> QED BY <1>1, <2>1
<1> HIDE DEF new, open, shed, cut
<1>10. CASE k \in shed /\ k \notin cut
  BY <1>1, <1>2, <1>3, <1>4, <1>5, <1>10 DEF Waiting
<1>11. CASE k \in cut
  BY <1>1, <1>2, <1>3, <1>4, <1>7, <1>11
<1>12. CASE k \notin open /\ k \notin cut
  BY <1>1, <1>2, <1>3, <1>6, <1>12
<1>13. CASE k \in open \ (shed \cup cut)
  <2>1. c[k] = "served" /\ conn'[k] = "served" /\ pipe'[k] = Append(p[k], new)
    BY <1>2, <1>4, <1>13
  <2>2. Waiting(published, None, p[k]) /\ Waiting(published', None, Append(p[k], new))
    BY <1>1, <1>4, <1>8, <1>13
  <2>3. ASSUME From(published, a, p[k]), Level(published, a, p[k])
        PROVE  From(published', a, Append(p[k], new)) /\ Level(published', a, Append(p[k], new))
    <3>1. Waiting(published, a, p[k])
      BY <2>2, <2>3 DEF Waiting
    <3> QED BY <1>8, <2>3, <3>1 DEF Waiting
  <2> QED BY <1>9, <2>1, <2>2, <2>3 DEF Waiting
<1> QED BY <1>10, <1>11, <1>12, <1>13

\* A call of connect() that a step passes by.
LEMMA PassedBy ==
  ASSUME NEW k, pipe'[k] = pipe[k], conn'[k] = conn[k], asked'[k] = asked[k],
         UNCHANGED <<up, run, published>>
  PROVE  /\ (conn[k] = "served" => up /\ Waiting(published, None, pipe[k])) =>
              (conn[k] = "served" => up /\ Waiting(published, None, pipe[k]))'
         /\ InStep(k) /\ lastId' = lastId => InStep(k)'
<1>1. /\ Within(published', pipe'[k]) = Within(published, pipe[k])
      /\ Gapless(published', pipe'[k]) = Gapless(published, pipe[k])
      /\ Waiting(published', None, pipe'[k]) = Waiting(published, None, pipe[k])
      /\ From(published', lastId, pipe'[k]) = From(published, lastId, pipe[k])
      /\ Level(published', lastId, pipe'[k]) = Level(published, lastId, pipe[k])
  OBVIOUS
<1> QED BY <1>1 DEF InStep

\* A new call of connect() has nothing waiting.
LEMMA FreshInStep ==
  ASSUME NEW k, pipe'[k] = <<>>, conn'[k] = "asked", asked'[k] = lastId', lastId' \in Ids
  PROVE  InStep(k)'
<1>1. /\ Within(published', <<>>) /\ Gapless(published', <<>>)
      /\ From(published', lastId', <<>>)
  BY EmptyWaits
<1> QED BY <1>1 DEF InStep

LEMMA PublishFeed ==
  ASSUME TypeOK, Control, Feed, NEW kind \in Kinds, Publish(kind)
  PROVE  Feed'
<1>1. /\ conn \in [Chains -> Conns] /\ pipe \in [Chains -> Seq(Frames)] /\ held \subseteq Chains
      /\ published \in Seq(Kinds) /\ lastId \in Ids /\ None \in Ids
  BY DEF TypeOK, Conns, Ids
<1>2. /\ Deliver(conn, pipe, kind) /\ up
      /\ UNCHANGED <<up, run, asked, held, lastId, sink, overlaps>>
  BY DEF Publish, consumer
<1>3. published' = Append(published, kind)
  BY <1>2 DEF Deliver
<1>4. Len(published) \in Nat /\ Len(published') = Len(published) + 1
  BY <1>1, <1>3
<1>5. ASSUME NEW k \in held, Within(published, pipe[k]), Gapless(published, pipe[k]),
             conn[k] = "served" => Waiting(published, None, pipe[k])
      PROVE  /\ conn'[k] = "served" => Waiting(published', None, pipe'[k])
             /\ InStep(k) => InStep(k)'
  <2>1. /\ Within(published', pipe'[k]) /\ Gapless(published', pipe'[k])
        /\ conn'[k] = "served" => conn[k] = "served" /\ Waiting(published', None, pipe'[k])
        /\ From(published, lastId, pipe[k])
              /\ (conn[k] = "served" => Level(published, lastId, pipe[k])) =>
             /\ From(published', lastId, pipe'[k])
             /\ conn'[k] = "served" => Level(published', lastId, pipe'[k])
        /\ (\A i \in 1 .. Len(pipe[k]) : pipe[k][i].run = run) =>
              \A i \in 1 .. Len(pipe'[k]) : pipe'[k][i].run = run
        /\ conn[k] # "served" => conn'[k] = conn[k] /\ pipe'[k] = pipe[k]
        /\ conn[k] = "served" => conn'[k] \in {"served", "ended"}
    BY <1>1, <1>2, <1>5, DeliverFeed
  <2> QED BY <1>2, <2>1 DEF InStep
<1>6. ServedWaits'
  <2> SUFFICES ASSUME NEW k \in held, conn'[k] = "served"
               PROVE  Waiting(published', None, pipe'[k])
    BY <1>2 DEF ServedWaits
  <2>1. conn[k] = "served"
    BY <1>1, <1>2 DEF Deliver
  <2>2. Waiting(published, None, pipe[k])
    BY <2>1 DEF Feed, ServedWaits
  <2> QED BY <1>5, <2>2 DEF Waiting
<1>7. ASSUME overlaps' = 0
      PROVE  /\ lastId' # None => lastId' <= Len(published') /\ sink'.run = run'
             /\ \A k \in held' : InStep(k)'
  <2>1. overlaps = 0
    BY <1>2, <1>7
  <2>2. lastId # None => lastId <= Len(published) /\ sink.run = run
    BY <2>1 DEF Feed
  <2>3. ASSUME NEW k \in held PROVE InStep(k)'
    <3>1. InStep(k) /\ (conn[k] = "served" => Waiting(published, None, pipe[k]))
      BY <2>1 DEF Feed, ServedWaits
    <3> QED BY <1>5, <3>1 DEF InStep
  <2> QED BY <1>1, <1>2, <1>4, <2>2, <2>3 DEF Ids
<1> QED BY <1>6, <1>7 DEF Feed

LEMMA AcceptFeed ==
  ASSUME TypeOK, Control, Feed, NEW k \in Chains, Accept(k)
  PROVE  Feed'
<1>1. /\ conn \in [Chains -> Conns] /\ pipe \in [Chains -> Seq(Frames)] /\ held \subseteq Chains
      /\ published \in Seq(Kinds) /\ lastId \in Ids /\ None \in Ids /\ asked \in [Chains -> Ids]
  BY DEF TypeOK, Conns, Ids
<1>2. /\ up /\ conn[k] = "asked" /\ asked' = [asked EXCEPT ![k] = None]
      /\ UNCHANGED <<up, run, held, lastId, sink, overlaps>>
  BY DEF Accept, consumer
<1>3. CASE Cardinality(Served) >= MaxConnections
  <2>1. /\ UNCHANGED <<pipe, published>>
        /\ conn' = [conn EXCEPT ![k] = IF k \in held THEN "ended" ELSE "none"]
    BY <1>3 DEF Accept
  <2>2. ASSUME NEW j \in held, j # k
        PROVE  /\ (conn[j] = "served" => up /\ Waiting(published, None, pipe[j])) =>
                    (conn[j] = "served" => up /\ Waiting(published, None, pipe[j]))'
               /\ InStep(j) => InStep(j)'
    <3>1. pipe'[j] = pipe[j] /\ conn'[j] = conn[j] /\ asked'[j] = asked[j]
      BY <1>1, <1>2, <2>1, <2>2
    <3> QED BY <1>2, <2>1, <3>1, PassedBy
  <2>3. k \in held => conn'[k] = "ended"
    BY <1>1, <2>1
  <2>4. ServedWaits'
    BY <1>2, <2>2, <2>3 DEF Feed, ServedWaits
  <2>5. ASSUME k \in held, InStep(k) PROVE InStep(k)'
    BY <1>2, <2>1, <2>3, <2>5 DEF InStep
  <2> QED BY <1>2, <2>1, <2>2, <2>4, <2>5 DEF Feed
<1>4. CASE ~(Cardinality(Served) >= MaxConnections)
  <2> DEFINE c == [conn EXCEPT ![k] = "served"]
             p == [pipe EXCEPT ![k] = IF asked[k] = None \/ k \notin held
                                      THEN <<>> ELSE Backlog(asked[k])]
  <2>1. Deliver(c, p, "event")
    BY <1>4 DEF Accept
  <2>2. c \in [Chains -> Conns] /\ p \in [Chains -> Seq(Frames)]
    <3>1. asked[k] = None \/ Backlog(asked[k]) \in Seq(Frames)
      BY <1>1, BacklogType DEF Ids
    <3>2. <<>> \in Seq(Frames)
      OBVIOUS
    <3> QED BY <1>1, <3>1, <3>2 DEF Conns
  <2>3. /\ c[k] = "served"
        /\ k \in held => p[k] = IF asked[k] = None THEN <<>> ELSE Backlog(asked[k])
        /\ \A j \in Chains \ {k} : c[j] = conn[j] /\ p[j] = pipe[j]
    BY <1>1
  <2> HIDE DEF c, p
  <2>4. published' = Append(published, "event") /\ Len(published') = Len(published) + 1
        /\ Len(published) \in Nat
    BY <1>1, <2>1 DEF Deliver
  <2>5. k \in held => /\ Waiting(published, None, p[k])
                      /\ \A i \in 1 .. Len(p[k]) : p[k][i].run = run
    <3>1. CASE asked[k] = None
      <4>1. k \in held => p[k] = <<>>
        BY <2>3, <3>1
      <4>2. Waiting(published, None, <<>>)
        BY <1>1, EmptyWaits
      <4> QED BY <4>1, <4>2
    <3>2. CASE asked[k] # None
      BY <1>1, <2>3, <3>2, BacklogWaits DEF Ids
    <3> QED BY <3>1, <3>2
  <2>6. ASSUME k \in held, InStep(k), lastId # None => lastId <= Len(published)
        PROVE  From(published, lastId, p[k]) /\ Level(published, lastId, p[k])
    <3>1. asked[k] = lastId
      BY <1>2, <2>6 DEF InStep
    <3>2. CASE lastId = None
      <4>1. p[k] = <<>>
        BY <2>3, <2>6, <3>1, <3>2
      <4>2. From(published, None, <<>>) /\ Level(published, None, <<>>)
        BY <1>1, EmptyWaits DEF Waiting
      <4> QED BY <3>2, <4>1, <4>2
    <3>3. CASE lastId # None
      BY <1>1, <2>3, <2>6, <3>1, <3>3, BacklogWaits DEF Ids
    <3> QED BY <3>2, <3>3
  <2>7. ASSUME NEW j \in held, Within(published, p[j]), Gapless(published, p[j]),
               c[j] = "served" => Waiting(published, None, p[j])
        PROVE  /\ Within(published', pipe'[j]) /\ Gapless(published', pipe'[j])
               /\ conn'[j] = "served" => c[j] = "served" /\ Waiting(published', None, pipe'[j])
               /\ From(published, lastId, p[j])
                     /\ (c[j] = "served" => Level(published, lastId, p[j])) =>
                    /\ From(published', lastId, pipe'[j])
                    /\ conn'[j] = "served" => Level(published', lastId, pipe'[j])
               /\ (\A i \in 1 .. Len(p[j]) : p[j][i].run = run) =>
                     \A i \in 1 .. Len(pipe'[j]) : pipe'[j][i].run = run
               /\ c[j] # "served" => conn'[j] = c[j] /\ pipe'[j] = p[j]
               /\ c[j] = "served" => conn'[j] \in {"served", "ended"}
    BY <1>1, <2>1, <2>2, <2>7, DeliverFeed DEF Kinds
  <2>8. ServedWaits'
    <3> SUFFICES ASSUME NEW j \in held, conn'[j] = "served"
                 PROVE  up' /\ Waiting(published', None, pipe'[j])
      BY <1>2 DEF ServedWaits
    <3>1. c[j] = "served"
      BY <1>1, <2>1, <2>2 DEF Deliver
    <3>2. Waiting(published, None, p[j])
      BY <1>1, <2>3, <2>5, <3>1 DEF Feed, ServedWaits
    <3>3. Within(published, p[j]) /\ Gapless(published, p[j])
      BY <3>2 DEF Waiting
    <3> QED BY <1>2, <2>7, <3>2, <3>3
  <2>9. ASSUME overlaps' = 0
        PROVE  /\ lastId' # None =>
                    lastId' <= Len(published') /\ sink'.run = run'
               /\ \A j \in held' : InStep(j)'
    <3>1. overlaps = 0
      BY <1>2, <2>9
    <3>2. lastId # None => lastId <= Len(published) /\ sink.run = run
      BY <3>1 DEF Feed
    <3>3. ASSUME NEW j \in held PROVE InStep(j)'
      <4>1. InStep(j) /\ (conn[j] = "served" => Waiting(published, None, pipe[j]))
        BY <3>1 DEF Feed, ServedWaits
      <4>2. CASE j = k
        <5>1. Within(published, p[k]) /\ Gapless(published, p[k])
          BY <2>5, <4>2 DEF Waiting
        <5>2. From(published, lastId, p[k]) /\ Level(published, lastId, p[k])
          BY <2>6, <3>2, <4>1, <4>2
        <5> QED BY <1>2, <2>3, <2>5, <2>7, <4>2, <5>1, <5>2 DEF InStep
      <4>3. CASE j # k
        <5>1. c[j] = conn[j] /\ p[j] = pipe[j] /\ asked'[j] = asked[j]
          BY <1>1, <1>2, <2>3, <4>3
        <5>2. /\ Within(published, p[j]) /\ Gapless(published, p[j])
              /\ From(published, lastId, p[j])
              /\ c[j] = "served" => Level(published, lastId, p[j])
              /\ \A i \in 1 .. Len(p[j]) : p[j][i].run = run
              /\ c[j] = "asked" => p[j] = <<>> /\ asked[j] = lastId
          BY <4>1, <5>1 DEF InStep
        <5> QED BY <1>2, <2>7, <4>1, <5>1, <5>2 DEF InStep
      <4> QED BY <4>2, <4>3
    <3> QED BY <1>1, <1>2, <2>4, <3>2, <3>3 DEF Ids
  <2> QED BY <2>8, <2>9 DEF Feed
<1> QED BY <1>3, <1>4

LEMMA ReadFeed ==
  ASSUME TypeOK, Control, Feed, NEW k \in Chains, Read(k)
  PROVE  Feed'
<1>1. /\ published \in Seq(Kinds) /\ pipe[k] \in Seq(Frames) /\ pipe[k] # <<>> /\ None \in Ids
      /\ lastId \in Ids /\ pipe \in [Chains -> Seq(Frames)] /\ held \subseteq Chains
  BY DEF Read, TypeOK, Ids
<1>2. /\ k \in held /\ conn[k] \in {"served", "ended"}
      /\ lastId' = Head(pipe[k]).id /\ sink' = Head(pipe[k])
      /\ pipe' = [pipe EXCEPT ![k] = Tail(@)]
      /\ UNCHANGED <<up, run, published, conn, asked, held, overlaps>>
  BY DEF Read, agent
<1>3. pipe'[k] = Tail(pipe[k]) /\ \A j \in held \ {k} : pipe'[j] = pipe[j]
  BY <1>1, <1>2
<1>4. Head(pipe[k]) = pipe[k][1] /\ 1 \in 1 .. Len(pipe[k])
  BY <1>1
<1>5. ASSUME NEW a \in Ids, Within(published, pipe[k]), Gapless(published, pipe[k])
      PROVE  /\ Within(published, Tail(pipe[k])) /\ Gapless(published, Tail(pipe[k]))
             /\ From(published, Head(pipe[k]).id, Tail(pipe[k]))
             /\ Level(published, a, pipe[k]) =>
                  /\ Level(published, Head(pipe[k]).id, Tail(pipe[k]))
                  /\ Level(published, None, Tail(pipe[k]))
             /\ Complete(published, pipe[k]) => Complete(published, Tail(pipe[k]))
  BY <1>1, <1>5, FrameLeaves
<1>6. ServedWaits'
  <2>1. ASSUME conn[k] = "served" PROVE up /\ Waiting(published, None, Tail(pipe[k]))
    <3>1. up /\ Waiting(published, None, pipe[k])
      BY <1>2, <2>1 DEF Feed, ServedWaits
    <3> QED BY <1>1, <1>5, <3>1 DEF Waiting
  <2> QED BY <1>2, <1>3, <2>1 DEF Feed, ServedWaits
<1>7. ASSUME overlaps' = 0
      PROVE  /\ lastId' # None => lastId' <= Len(published') /\ sink'.run = run'
             /\ \A j \in held' : InStep(j)'
  <2>1. overlaps = 0
    BY <1>2, <1>7
  <2>2. held = {k}
    BY <1>2, <2>1, OnlyOneHeld DEF Owned
  <2>3. InStep(k)
    BY <1>2, <2>1 DEF Feed
  <2>4. /\ lastId' <= Len(published) /\ sink'.run = run
    BY <1>2, <1>4, <2>3 DEF InStep, Within
  <2>6. \A i \in 1 .. Len(Tail(pipe[k])) : Tail(pipe[k])[i].run = run
    <3>1. \A i \in 1 .. Len(Tail(pipe[k])) :
            Tail(pipe[k])[i] = pipe[k][i + 1] /\ i + 1 \in 1 .. Len(pipe[k])
      BY <1>1
    <3> QED BY <2>3, <3>1 DEF InStep
  <2>7. /\ Within(published, pipe[k]) /\ Gapless(published, pipe[k])
        /\ conn[k] = "served" => Level(published, lastId, pipe[k])
    BY <2>3 DEF InStep
  <2>8. /\ Within(published, Tail(pipe[k])) /\ Gapless(published, Tail(pipe[k]))
        /\ From(published, lastId', Tail(pipe[k]))
        /\ conn[k] = "served" => Level(published, lastId', Tail(pipe[k]))
    BY <1>1, <1>2, <1>5, <2>7
  <2>9. InStep(k)'
    BY <1>2, <1>3, <2>6, <2>8 DEF InStep
  <2> QED BY <1>2, <2>2, <2>4, <2>9
<1> QED BY <1>6, <1>7 DEF Feed

\* Calls that return leave the others as they are.
LEMMA DropFeed ==
  ASSUME TypeOK, Feed, NEW drop \in SUBSET Chains, Move(drop, {}, None),
         UNCHANGED <<up, run, published, lastId, sink, overlaps>>
  PROVE  Feed'
<1>1. ASSUME NEW k \in held'
      PROVE  k \in held /\ pipe'[k] = pipe[k] /\ conn'[k] = conn[k] /\ asked'[k] = asked[k]
  BY <1>1 DEF Move, TypeOK
<1>2. ASSUME NEW k \in held'
      PROVE  /\ (conn[k] = "served" => up /\ Waiting(published, None, pipe[k]))'
             /\ InStep(k) => InStep(k)'
  BY <1>1, <1>2, PassedBy DEF Feed, ServedWaits
<1>3. ServedWaits'
  BY <1>2 DEF ServedWaits
<1> QED BY <1>1, <1>2, <1>3 DEF Feed

\* A step that leaves the connections that are held as they are.
LEMMA IdleFeed ==
  ASSUME Feed, UNCHANGED <<up, run, published, pipe, held, lastId, sink, overlaps>>,
         \A k \in held : conn'[k] = conn[k] /\ asked'[k] = asked[k]
  PROVE  Feed'
<1>1. ASSUME NEW k \in held
      PROVE  /\ (conn[k] = "served" => up /\ Waiting(published, None, pipe[k]))'
             /\ InStep(k) => InStep(k)'
  BY <1>1, PassedBy DEF Feed, ServedWaits
<1>2. ServedWaits'
  BY <1>1 DEF ServedWaits
<1> QED BY <1>1, <1>2 DEF Feed

LEMMA DieFeed ==
  ASSUME TypeOK, Feed, Die
  PROVE  Feed'
<1>1. PICK n \in [held -> 0 .. CloseAt + RingSize + 1] :
        /\ \A k \in held : n[k] <= Len(pipe[k])
        /\ pipe' = [k \in Chains |-> IF k \in held THEN SubSeq(pipe[k], 1, n[k]) ELSE <<>>]
  BY DEF Die
<1>2. /\ \A k \in held : k \in Chains /\ conn'[k] = "ended"
      /\ UNCHANGED <<run, published, held, lastId, sink, overlaps>>
  BY DEF Die, TypeOK, consumer
<1>3. ServedWaits'
  BY <1>2 DEF ServedWaits
<1>4. ASSUME NEW k \in held, InStep(k) PROVE InStep(k)'
  <2> DEFINE p == pipe[k]
             q == SubSeq(p, 1, n[k])
  <2>1. p \in Seq(Frames) /\ n[k] \in 0 .. Len(p) /\ pipe'[k] = q
    BY <1>1, <1>2, StreamAssumption DEF TypeOK
  <2>2. /\ q \in Seq(Frames) /\ Len(q) = n[k]
        /\ \A i \in 1 .. n[k] : q[i] = p[i]
    BY <2>1
  <2>3. q # <<>> => p # <<>> /\ q[1] = p[1]
    <3>1. q # <<>> => n[k] # 0
      BY <2>2, EmptyFrames
    <3>2. p = <<>> => n[k] = 0
      BY <2>1
    <3> QED BY <2>1, <2>2, <3>1, <3>2
  <2>4. /\ \A i \in 1 .. Len(p) : p[i].run = run
        /\ Within(published, p) /\ Gapless(published, p) /\ From(published, lastId, p)
    BY <1>4 DEF InStep
  <2> HIDE DEF p, q
  <2>5. /\ \A i \in 1 .. Len(q) : q[i].run = run
        /\ Within(published, q) /\ From(published, lastId, q)
    BY <2>1, <2>2, <2>3, <2>4 DEF Within, From
  <2>6. Gapless(published, q)
    <3> SUFFICES ASSUME NEW i \in 1 .. Len(q) - 1
                 PROVE  Follows(published, q[i].id, q[i + 1])
      BY DEF Gapless
    <3>1. q[i] = p[i] /\ q[i + 1] = p[i + 1] /\ i \in 1 .. Len(p) - 1
      BY <2>1, <2>2
    <3> QED BY <2>4, <3>1 DEF Gapless
  <2> QED BY <1>2, <2>1, <2>5, <2>6 DEF InStep
<1> QED BY <1>2, <1>3, <1>4 DEF Feed

LEMMA TimerFeed ==
  ASSUME TypeOK, Control, Feed, TimerFires
  PROVE  Feed'
<1>1. PICK s \in Chains : s = Slot /\ s \notin held
  BY SlotIsFree DEF TimerFires, Control, HeldIsOpen
<1>2. /\ held' = held \cup {s} /\ pipe'[s] = <<>> /\ conn'[s] = "asked"
      /\ asked'[s] = lastId /\ lastId \in Ids
      /\ UNCHANGED <<up, run, published, lastId, sink, overlaps>>
      /\ \A k \in held : pipe'[k] = pipe[k] /\ conn'[k] = conn[k] /\ asked'[k] = asked[k]
  BY <1>1 DEF TimerFires, Move, agent, TypeOK, Ids
<1>3. ASSUME NEW k \in held
      PROVE  /\ (conn[k] = "served" => up /\ Waiting(published, None, pipe[k]))'
             /\ InStep(k) => InStep(k)'
  BY <1>2, <1>3, PassedBy DEF Feed, ServedWaits
<1>4. InStep(s)'
  BY <1>2, FreshInStep
<1>5. ServedWaits'
  BY <1>2, <1>3 DEF ServedWaits
<1> QED BY <1>2, <1>3, <1>4, <1>5 DEF Feed

LEMMA RestartFeed ==
  ASSUME TypeOK, Control, Feed, NEW open \in {{}, {Slot}}, Restart(open),
         open = {} \/ Free # {},
         UNCHANGED <<up, run, published>> \/ ~up
  PROVE  Feed'
<1>1. /\ held' = (held \ Owned) \cup open /\ lastId' = None
      /\ overlaps' = IF current # None THEN overlaps + 1 ELSE overlaps
      /\ open # {} => open = {Slot} /\ Slot \in Chains /\ Slot \notin held
  BY SlotIsFree DEF Restart, Move, Control, HeldIsOpen
<1>2. /\ \A k \in open : pipe'[k] = <<>> /\ conn'[k] = "asked" /\ asked'[k] = None
      /\ \A k \in held \ Owned :
           pipe'[k] = pipe[k] /\ conn'[k] = conn[k] /\ asked'[k] = asked[k]
  BY <1>1 DEF Restart, Move, TypeOK
<1>3. ServedWaits'
  <2> SUFFICES ASSUME NEW k \in held', conn'[k] = "served"
               PROVE  up' /\ Waiting(published', None, pipe'[k])
    BY DEF ServedWaits
  <2>1. k \in held \ Owned /\ conn[k] = "served"
    BY <1>1, <1>2
  <2>2. up /\ Waiting(published, None, pipe[k])
    BY <2>1 DEF Feed, ServedWaits
  <2> QED BY <1>2, <2>1, <2>2, PassedBy
<1>4. ASSUME overlaps' = 0, NEW k \in held' PROVE InStep(k)'
  <2>1. overlaps = 0 /\ current = None
    BY <1>1, <1>4 DEF TypeOK
  <2>2. held = {}
    BY <2>1, OnlyOneHeld DEF Owned
  <2>3. k \in open
    BY <1>1, <1>4, <2>2
  <2> QED BY <1>1, <1>2, <2>3, FreshInStep DEF Ids
<1> QED BY <1>1, <1>3, <1>4 DEF Feed

LEMMA FeedNext ==
  ASSUME TypeOK, Control, Feed, [Next]_vars
  PROVE  Feed'
<1>1. ASSUME NEW k \in Chains, Reap(k) PROVE Feed'
  <2>1. \A j \in held : conn'[j] = conn[j] /\ asked'[j] = asked[j]
    BY <1>1 DEF Reap, TypeOK
  <2> QED BY <1>1, <2>1, IdleFeed DEF Reap, agent, consumer
<1>2. ASSUME NEW k \in Chains, Stall(k) PROVE Feed'
  BY <1>2, IdleFeed DEF Stall, agent, consumer
<1>3. ASSUME NEW k \in Chains, Returns(k), UNCHANGED <<agent, sink, overlaps>> PROVE Feed'
  BY <1>3, DropFeed DEF Returns, agent
<1>4. ASSUME NEW k \in Chains, End(k) \/ Break(k) PROVE Feed'
  BY <1>3, <1>4 DEF End, Break
<1>5. CASE Stale
  BY <1>3, <1>5 DEF Stale, TypeOK
<1>6. CASE Resume
  <2>1. \E open \in {{}, {Slot}} : Restart(open) /\ (open = {} \/ Free # {})
    BY <1>6 DEF Resume
  <2>2. UNCHANGED <<up, run, published>>
    BY <1>6 DEF Resume, agent
  <2> QED BY <2>1, <2>2, RestartFeed
<1>7. CASE NewRun
  <2>1. Restart({Slot}) /\ Free # {} /\ ~up
    BY <1>7 DEF NewRun
  <2> QED BY <2>1, RestartFeed
<1>8. CASE Quit
  <2>1. Owned \in SUBSET Chains
    BY DEF Owned, TypeOK
  <2> QED BY <1>8, <2>1, DropFeed DEF Quit, agent
<1>9. CASE UNCHANGED vars
  BY <1>9, IdleFeed DEF vars, agent, sockets, consumer
<1> QED BY <1>1, <1>2, <1>4, <1>5, <1>6, <1>7, <1>8, <1>9, PublishFeed, AcceptFeed, ReadFeed,
           DieFeed, TimerFeed DEF Next

LEMMA FeedInit == Init => Feed
  BY DEF Init, Feed, ServedWaits

LEMMA FeedInvariant == SafeSpec => [](TypeOK /\ Control /\ Feed)
<1>1. Init => TypeOK /\ Control /\ Feed
  BY InitTypes, ControlInit, FeedInit
<1>2. (TypeOK /\ Control /\ Feed) /\ [Next]_vars => (TypeOK /\ Control /\ Feed)'
  BY NextTypes, ControlNext, FeedNext
<1> QED BY <1>1, <1>2, PTL DEF SafeSpec

-----------------------------------------------------------------------------
(* The theorems. *)

\* A slow connection loses log batches and nothing else (deliver, replayAfter), for
\* any ring and any thresholds.
THEOREM BackpressureSparesEventsHolds == Spec => []BackpressureSparesEvents
<1>1. Feed => BackpressureSparesEvents
  BY DEF Feed, ServedWaits, Waiting, Complete, BackpressureSparesEvents
<1> QED BY <1>1, FeedInvariant, PTL DEF Spec

\* The id a reconnect resumes from is of the run it connects to (start).
THEOREM ResumesOwnRunHolds == Spec => []ResumesOwnRun
<1>1. Feed => ResumesOwnRun
  BY DEF Feed, ResumesOwnRun
<1> QED BY <1>1, FeedInvariant, PTL DEF Spec

\* Main is handed the events in order, once, and without a silent gap but for shed
\* logs, as long as no start() overtakes an aborted connection.
THEOREM InOrderHolds == Spec => InOrder
<1>1. TypeOK /\ Control /\ Feed /\ [Next]_vars =>
        [overlaps = 0 /\ sink' # sink /\ lastId # None /\ sink'.kind # "reset" =>
           sink'.id > lastId /\ OnlyLogs(lastId + 1, sink'.id - 1)]_vars
  <2> SUFFICES ASSUME TypeOK, Control, Feed, Next, overlaps = 0, sink' # sink, lastId # None,
                      sink'.kind # "reset"
               PROVE  sink'.id > lastId /\ OnlyLogs(lastId + 1, sink'.id - 1)
    BY DEF vars
  <2>1. PICK k \in Chains : Read(k)
    BY DEF Next, Publish, Accept, Reap, Die, Stall, Read, End, Break, Stale, TimerFires,
           Resume, NewRun, Quit
  <2>2. k \in held /\ pipe[k] # <<>> /\ sink' = Head(pipe[k]) /\ pipe[k] \in Seq(Frames)
    BY <2>1 DEF Read, TypeOK
  <2>3. sink' = pipe[k][1]
    BY <2>2
  <2>4. From(published, lastId, pipe[k])
    BY <2>2 DEF Feed, InStep
  <2> QED BY <2>2, <2>3, <2>4 DEF From, Follows, Logs, OnlyLogs
<1> QED BY <1>1, FeedInvariant, PTL DEF Spec, SafeSpec, InOrder

\* Events are handed on in order and of the run connected to, none after a stop().
THEOREM HandedOnHolds == Spec => HandedOn
BY InOrderHolds, QuietWhenStoppedHolds, ResumesOwnRunHolds, BackpressureSparesEventsHolds, PTL
  DEF HandedOn
=============================================================================
