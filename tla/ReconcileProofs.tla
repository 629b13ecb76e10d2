----------------------------- MODULE ReconcileProofs -----------------------------
(***************************************************************************)
(* Theorems about Reconcile, for any monitors and watches and any number   *)
(* of agents, ids and requests.  The invariant follows what an item leaves *)
(* behind on its way: a request, an entry of the agent, of the store or of *)
(* the reconciliation, and a view.                                         *)
(***************************************************************************)
EXTENDS Reconcile, TLAPS

Call == [op : {"add", "remove", "on", "off", "pause"}, item : Items, id : Nat,
         ans : {"sent", "ok", "gone", "error"}]
Record == [phase : {"idle", "monitors", "watches"}, todo : SUBSET Nat,
           push : [id : Nat, ans : {"none", "sent", "ok", "error"}, new : Nat],
           remap : SUBSET (Nat \X Nat)]

Typed ==
  /\ run \in 0 .. MaxRuns /\ up \in BOOLEAN /\ asked \in 0 .. MaxCalls
  /\ made \in Seq(Items) /\ Len(made) <= MaxIds
  /\ agent \subseteq Entry /\ store \subseteq Entry /\ storeOff \subseteq Of(Entry, Monitors)
  /\ rec.todo \subseteq Entry
  /\ shown \subseteq Of(Entry, Monitors) /\ views \subseteq Of(Entry, Watches)
  /\ off \subseteq Of(agent, Monitors)
  /\ calls \subseteq Call /\ rec \in Record /\ wanted \subseteq Items

\* A request is about an entry, or asks for one of an item there is none of;
\* and two requests are about different things.
RequestOK(c) ==
  /\ c.op = "add" /\ c.ans # "ok" => c.id = 0 /\ \A k \in Entry : made[k] # c.item
  /\ c.op # "add" \/ c.ans = "ok" => c.id \in Entry /\ made[c.id] = c.item
  /\ c.op \in {"on", "off", "pause"} => c.item \in Monitors
  /\ c.op = "pause" => <<"muted", c.id>> \in slips
  /\ c.op = "remove" => c.ans # "error"
  /\ c.op # "remove" => c.ans # "gone"
RequestsOK ==
  /\ \A c \in calls : RequestOK(c)
  /\ \A c, d \in calls : c.id = d.id /\ c.item = d.item => c = d

\* The reconciliation.
RecOK ==
  /\ rec.phase = "idle" => rec.todo = {} /\ rec.push = NoPush /\ rec.remap = {}
  /\ rec.phase = "monitors" => rec.todo \subseteq Of(Entry, Monitors) /\ rec.remap = {}
  /\ rec.phase = "watches" => rec.todo \subseteq Of(Entry, Watches)
  /\ rec.push = NoPush \/ (rec.push.id \in rec.todo /\ rec.push.ans # "none")
  /\ rec.push.ans = "ok" => rec.push.new \in Entry /\ made[rec.push.new] = made[rec.push.id]
  /\ rec.todo \cap store = {}
  /\ storeOff \subseteq store \cup rec.todo

\* remap takes entries that are gone to entries of the same watch, of which
\* nobody has heard yet.
RemapOK ==
  /\ \A p \in rec.remap :
       /\ p[1] \in Of(Entry, Watches) /\ p[2] \in Entry /\ made[p[1]] = made[p[2]]
       /\ p[1] \notin store \cup rec.todo /\ p[2] \notin rec.todo \cup views
       /\ \A c \in calls : c.id # p[2]
  /\ \A p, q \in rec.remap : p[1] = q[1] => p = q

\* Entries the agent has made and whose answer Main has not heard.
Adding(k) == \E c \in calls : c.op = "add" /\ c.ans = "ok" /\ c.id = k
Unheard(k) == Adding(k) \/ (rec.push.ans = "ok" /\ rec.push.new = k)
FreshOK ==
  /\ \A k \in Entry : Unheard(k) =>
       /\ k \notin store \cup rec.todo \cup shown \cup views
       /\ \A c \in calls : c.id = k => c.op \in {"add", "pause"}
       /\ \A p \in rec.remap : p[1] # k /\ p[2] # k
  /\ rec.push.ans = "ok" => ~Adding(rec.push.new)

\* Main keeps one entry for an item, the renderer one view.
Kept(k) == k \in store \cup rec.todo \/ Adding(k)
OneEach ==
  /\ \A j, k \in Entry : Kept(j) /\ Kept(k) /\ made[j] = made[k] => j = k
  /\ \A j, k \in views : made[j] = made[k] => j = k
  /\ \A j, k \in Entry : Adding(j) /\ made[k] = made[j] => k = j

\* What the agent serves and what the store has.
Removed(k) == \E c \in calls : c.op = "remove" /\ c.ans = "ok" /\ c.id = k
Switched(k) == \E c \in calls : c.op \in {"on", "off"} /\ c.ans = "ok" /\ c.id = k
Lapsed(k) == <<"lapsed", k>> \in slips
Doubled(k) == <<"doubled", k>> \in slips
Muted(k) == <<"muted", k>> \in slips

AgentDown == (~up => agent = {} /\ off = {}) /\ (run = 0 => ~up /\ Entry = {})
Stored ==
  up => \A k \in store : \/ k \in agent \/ Lapsed(k) \/ Removed(k)
                         \/ rec.phase = "monitors" /\ made[k] \in Watches
NewServed == \A k \in Entry : Unheard(k) => k \in agent
Recorded == \A k \in agent : k \in store \/ Unheard(k) \/ Lapsed(k) \/ Doubled(k)
RemovesDone == \A c \in calls : c.op = "remove" /\ c.ans # "sent" => c.id \notin agent
Served == up => NewServed /\ Recorded /\ RemovesDone
InStep(k) == (k \in storeOff <=> k \in off) \/ Lapsed(k) \/ Muted(k) \/ Switched(k)
NewAreOn == \A k \in Entry : Adding(k) => k \notin off
SwitchesDone ==
  \A c \in calls : c.op \in {"on", "off"} /\ c.ans = "ok" /\ c.id \in agent =>
    (c.id \in off <=> c.op = "off")
PushInStep ==
  rec.push.ans = "ok" =>
    (rec.push.new \in off <=> rec.push.id \in storeOff) \/ Muted(rec.push.new)
Switches ==
  up => (\A k \in store \cap agent : InStep(k)) /\ NewAreOn /\ SwitchesDone /\ PushInStep

\* What the user wants and what Main keeps.
Excused(i) == <<"lost", i>> \in slips \/ <<"misdirected", i>> \in slips \/ <<"abandoned", i>> \in slips
WantedOK ==
  /\ \A k \in store \cup rec.todo : made[k] \in wanted \/ Excused(made[k])
  /\ \A i \in wanted : Excused(i) \/ \E k \in store \cup rec.todo : made[k] = i

\* What Main keeps and what the renderer shows.
ViewsOK ==
  /\ \A v \in views : Rekey(v) \in store \cup rec.todo \/ Excused(made[v])
  /\ \A k \in Of(store \cup rec.todo, Watches) :
       (\E v \in views : Rekey(v) = k) \/ Excused(made[k])

IInv ==
  /\ Typed /\ RequestsOK /\ RecOK /\ RemapOK /\ FreshOK /\ OneEach
  /\ AgentDown /\ Stored /\ Served /\ Switches /\ WantedOK /\ ViewsOK

-----------------------------------------------------------------------------
(* What the parts of the invariant rest on. *)

\* Entries are never changed, what has slipped stays so.
Grows ==
  /\ made' \in Seq(Items) /\ Entry \subseteq Entry' /\ \A k \in Entry : made'[k] = made[k]
  /\ slips \subseteq slips'

LEMMA EntryType ==
  ASSUME Typed
  PROVE  /\ Entry = 1 .. Len(made) /\ Len(made) \in Nat /\ 0 \notin Entry
         /\ \A k \in Entry : k \in Nat /\ made[k] \in Items
         /\ \A c \in calls : c \in Call
BY DEF Typed, Entry

LEMMA GrowsWhenSame ==
  ASSUME Typed, UNCHANGED made, slips \subseteq slips'
  PROVE  Grows
BY DEF Typed, Grows, Entry

LEMMA CreateGrows ==
  ASSUME Typed, NEW i \in Items, New <= MaxIds, made' = Append(made, i), slips \subseteq slips'
  PROVE  /\ Grows /\ Len(made') <= MaxIds
         /\ New \in Nat \ {0} /\ New \notin Entry /\ Entry' = Entry \cup {New} /\ made'[New] = i
<1>1. /\ made' \in Seq(Items) /\ Len(made') = Len(made) + 1
      /\ made'[Len(made) + 1] = i /\ \A k \in 1 .. Len(made) : made'[k] = made[k]
      /\ DOMAIN made' = 1 .. Len(made) + 1 /\ DOMAIN made = 1 .. Len(made) /\ Len(made) \in Nat
  BY DEF Typed
<1>2. Grows
  BY <1>1 DEF Grows, Entry
<1> QED BY <1>1, <1>2 DEF New, Entry

LEMMA WantedFrame ==
  ASSUME Typed, Grows, WantedOK, wanted' = wanted, store' \cup rec'.todo = store \cup rec.todo
  PROVE  WantedOK'
BY DEF Typed, Grows, WantedOK, Excused

LEMMA RekeyValue ==
  ASSUME RemapOK
  PROVE  /\ \A p \in rec.remap : Rekey(p[1]) = p[2]
         /\ \A v : (\A p \in rec.remap : p[1] # v) => Rekey(v) = v
<1>1. ASSUME NEW p \in rec.remap PROVE Rekey(p[1]) = p[2]
  <2>1. (CHOOSE q \in rec.remap : q[1] = p[1]) = p
    BY DEF RemapOK
  <2> QED BY <2>1 DEF Rekey
<1>2. ASSUME NEW v, \A p \in rec.remap : p[1] # v PROVE Rekey(v) = v
  BY <1>2 DEF Rekey
<1> QED BY <1>1, <1>2

\* A view and the entry that feeds it stand for the same watch.
LEMMA RekeyKeepsItem ==
  ASSUME Typed, RemapOK, NEW v \in Entry
  PROVE  Rekey(v) \in Entry /\ made[Rekey(v)] = made[v]
<1>1. CASE \E p \in rec.remap : p[1] = v
  BY <1>1, RekeyValue DEF RemapOK
<1>2. CASE \A p \in rec.remap : p[1] # v
  BY <1>2, RekeyValue
<1> QED BY <1>1, <1>2

LEMMA ViewsFrame ==
  ASSUME Typed, Grows, ViewsOK, views' = views, rec'.remap = rec.remap,
         store' \cup rec'.todo = store \cup rec.todo
  PROVE  ViewsOK'
<1>1. \A v : Rekey(v)' = Rekey(v)
  BY DEF Rekey
<1>2. \A k \in Entry : made'[k] = made[k] /\ (Excused(made[k]) => Excused(made[k])')
  BY DEF Grows, Excused
<1>3. views \subseteq Entry /\ store \cup rec.todo \subseteq Entry
  BY DEF Typed, Of
<1>4. ASSUME NEW v \in views'
      PROVE  Rekey(v)' \in store' \cup rec'.todo \/ Excused(made[v])'
  BY <1>1, <1>2, <1>3 DEF ViewsOK
<1>5. ASSUME NEW k \in store' \cup rec'.todo, made'[k] \in Watches
      PROVE  (\E v \in views' : Rekey(v)' = k) \/ Excused(made[k])'
  <2>1. k \in Of(store \cup rec.todo, Watches)
    BY <1>2, <1>3, <1>5 DEF Of
  <2> QED BY <1>1, <1>2, <1>3, <2>1 DEF ViewsOK
<1> QED BY <1>4, <1>5 DEF ViewsOK, Of

-----------------------------------------------------------------------------
(* Requests. *)

LEMMA AskKeeps ==
  ASSUME IInv, NEW op, NEW item, NEW id, Ask(op, item, id),
         \/ op = "add" /\ id = 0 /\ item \in Items /\ \A k \in Entry : made[k] # item
         \/ op \in {"on", "off", "remove"} /\ id \in shown /\ item = made[id]
         \/ op = "remove" /\ id \in views /\ item = made[id]
  PROVE  IInv'
<1> DEFINE c == [op |-> op, item |-> item, id |-> id, ans |-> "sent"]
<1>1. /\ calls' = calls \cup {c} /\ asked' \in 0 .. MaxCalls
      /\ \A d \in calls : d.id # id \/ d.item # item
      /\ UNCHANGED <<run, up, theAgent, theStore, rec, renderer, history>>
  BY ReconcileAssumption DEF Ask, IInv, Typed
<1>2. c \in Call /\ RequestOK(c)
  BY EntryType, ReconcileAssumption DEF IInv, Typed, Call, RequestOK, Of
<1>3. /\ UNCHANGED <<run, up, made, agent, off, store, storeOff, rec, shown, views, wanted, slips>>
  BY <1>1 DEF theAgent, theStore, renderer, history
<1>4. Grows
  BY <1>3, GrowsWhenSame DEF IInv
<1>5. Typed'
  BY <1>1, <1>2, <1>3 DEF IInv, Typed, Entry, Of
<1>6. RequestsOK'
  BY <1>1, <1>2, <1>3 DEF IInv, RequestsOK, RequestOK, Entry
<1>7. \A k : (Adding(k)' <=> Adding(k)) /\ (Removed(k)' <=> Removed(k)) /\ (Switched(k)' <=> Switched(k))
  BY <1>1 DEF Adding, Removed, Switched
<1>8. RecOK'
  BY <1>3 DEF IInv, RecOK, Entry, Of
<1>9. RemapOK'
  <2>1. \A p \in rec.remap : id # p[2]
    BY EntryType, ReconcileAssumption DEF IInv, Typed, RemapOK, Of, Items
  <2> QED BY <1>1, <1>3, <2>1 DEF IInv, RemapOK, Entry, Of
<1>10. FreshOK'
  BY <1>1, <1>3, <1>7, EntryType DEF IInv, FreshOK, Unheard, Entry
<1>11. OneEach'
  BY <1>3, <1>7 DEF IInv, OneEach, Kept, Entry
<1>12. AgentDown' /\ Stored'
  BY <1>3, <1>7 DEF IInv, AgentDown, Stored, Lapsed, Entry
<1>13. Served'
  BY <1>1, <1>3, <1>7 DEF IInv, Served, NewServed, Recorded, RemovesDone, Unheard, Entry, Lapsed, Doubled
<1>14. Switches'
  BY <1>1, <1>3, <1>7 DEF IInv, Switches, InStep, NewAreOn, SwitchesDone, PushInStep, Entry, Lapsed, Muted
<1> QED BY <1>3, <1>4, <1>5, <1>6, <1>8, <1>9, <1>10, <1>11, <1>12, <1>13, <1>14, WantedFrame, ViewsFrame
        DEF IInv

LEMMA PauseAllKeeps ==
  ASSUME IInv, PauseAll
  PROVE  IInv'
<1> DEFINE on == {m \in Of(agent, Monitors) \ off : \A c \in calls : c.id # m}
           pause(m) == [op |-> "pause", item |-> made[m], id |-> m, ans |-> "sent"]
<1>1. /\ calls' = calls \cup {pause(m) : m \in on} /\ asked' \in 0 .. MaxCalls
      /\ slips' = slips \cup {<<"muted", m>> : m \in on}
      /\ UNCHANGED <<run, up, theAgent, theStore, rec, renderer, wanted>>
  BY ReconcileAssumption DEF PauseAll, Slip, IInv, Typed
<1>2. UNCHANGED <<run, up, made, agent, off, store, storeOff, rec, shown, views, wanted>>
  BY <1>1 DEF theAgent, theStore, renderer
<1>3. Grows
  BY <1>1, <1>2, GrowsWhenSame DEF IInv
<1>4. \A m \in on : /\ m \in Entry /\ made[m] \in Monitors /\ pause(m) \in Call
                    /\ <<"muted", m>> \in slips' /\ \A c \in calls : c.id # m
  BY <1>1, EntryType DEF IInv, Typed, Of, Call, Items
<1>5. Typed'
  BY <1>1, <1>2, <1>4 DEF IInv, Typed, Entry, Of
<1>6. RequestsOK'
  <2>1. ASSUME NEW c \in calls PROVE RequestOK(c)'
    BY <1>1, <1>2 DEF IInv, RequestsOK, RequestOK, Entry
  <2>2. ASSUME NEW m \in on, NEW c, c = pause(m) PROVE RequestOK(c)'
    BY <1>2, <1>4, <2>2 DEF RequestOK, Entry
  <2>3. \A c, d \in calls' : c.id = d.id /\ c.item = d.item => c = d
    BY <1>1, <1>4 DEF IInv, RequestsOK
  <2> QED BY <1>1, <2>1, <2>2, <2>3 DEF RequestsOK
<1>7. \A k : (Adding(k)' <=> Adding(k)) /\ (Removed(k)' <=> Removed(k)) /\ (Switched(k)' <=> Switched(k))
  BY <1>1 DEF Adding, Removed, Switched
<1>8. RecOK'
  BY <1>2 DEF IInv, RecOK, Entry, Of
<1>9. RemapOK'
  <2>1. \A p \in rec.remap : p[2] \notin on
    BY <1>4, ReconcileAssumption DEF IInv, RemapOK, Of
  <2> QED BY <1>1, <1>2, <2>1 DEF IInv, RemapOK, Entry, Of
<1>10. FreshOK'
  BY <1>1, <1>2, <1>7 DEF IInv, FreshOK, Unheard, Entry
<1>11. OneEach'
  BY <1>2, <1>7 DEF IInv, OneEach, Kept, Entry
<1>12. AgentDown' /\ Stored'
  BY <1>1, <1>2, <1>7 DEF IInv, AgentDown, Stored, Lapsed, Entry
<1>13. Served'
  BY <1>1, <1>2, <1>7 DEF IInv, Served, NewServed, Recorded, RemovesDone, Unheard, Entry, Lapsed, Doubled
<1>14. Switches'
  BY <1>1, <1>2, <1>7 DEF IInv, Switches, InStep, NewAreOn, SwitchesDone, PushInStep, Entry, Lapsed, Muted
<1> QED BY <1>2, <1>3, <1>5, <1>6, <1>8, <1>9, <1>10, <1>11, <1>12, <1>13, <1>14, WantedFrame, ViewsFrame
        DEF IInv

LEMMA RefreshKeeps ==
  ASSUME IInv, Refresh
  PROVE  IInv'
<1>1. /\ shown' = Of(agent, Monitors) /\ rec.push.ans # "ok" /\ \A c \in calls : c.ans # "ok"
      /\ UNCHANGED <<run, up, made, agent, off, store, storeOff, rec, calls, asked, views, wanted, slips>>
  BY DEF Refresh, theAgent, theStore, history
<1>2. Grows
  BY <1>1, GrowsWhenSame DEF IInv
<1>3. Typed'
  BY <1>1 DEF IInv, Typed, Entry, Of
<1>4. RequestsOK' /\ RecOK' /\ RemapOK'
  BY <1>1 DEF IInv, RequestsOK, RequestOK, RecOK, RemapOK, Entry, Of
<1>5. FreshOK'
  BY <1>1 DEF IInv, FreshOK, Unheard, Adding, Entry
<1>6. OneEach' /\ AgentDown'
  BY <1>1 DEF IInv, OneEach, AgentDown, Kept, Adding, Entry
<1>7. Stored' /\ Served'
  BY <1>1 DEF IInv, Stored, Served, NewServed, Recorded, RemovesDone, Unheard, Adding, Removed, Entry, Lapsed, Doubled
<1>8. Switches'
  BY <1>1 DEF IInv, Switches, InStep, NewAreOn, SwitchesDone, PushInStep, Switched,
    Adding, Entry, Lapsed, Muted
<1> QED BY <1>1, <1>2, <1>3, <1>4, <1>5, <1>6, <1>7, <1>8, WantedFrame, ViewsFrame DEF IInv

\* A request is over.
LEMMA CallOver ==
  ASSUME Typed, RequestsOK, NEW c \in calls, calls' = calls \ {c}, made' = made, slips \subseteq slips'
  PROVE  /\ RequestsOK'
         /\ calls' \subseteq Call
         /\ \A k \in Entry : /\ Adding(k)' => Adding(k)
                             /\ Removed(k)' => Removed(k)
                             /\ Switched(k)' => Switched(k)
                             /\ k # c.id => /\ Adding(k)' <=> Adding(k)
                                            /\ Removed(k)' <=> Removed(k)
                                            /\ Switched(k)' <=> Switched(k)
                             /\ k = c.id => ~Adding(k)' /\ ~Removed(k)' /\ ~Switched(k)'
<1>1. RequestsOK' /\ calls' \subseteq Call
  BY DEF Typed, RequestsOK, RequestOK, Entry
<1>2. \A d \in calls : d.id \in Entry /\ d.id = c.id /\ d.ans = "ok" => d.item = made[c.id]
  BY DEF RequestsOK, RequestOK
<1>3. \A d \in calls : d.id \in Entry /\ d.id = c.id /\ d.ans = "ok" => d = c
  BY <1>2, EntryType DEF RequestsOK, RequestOK
<1> QED BY <1>1, <1>3 DEF Adding, Removed, Switched

LEMMA HearErrorKeeps ==
  ASSUME IInv, NEW c \in calls, HearError(c)
  PROVE  IInv'
<1>1. /\ calls' = calls \ {c} /\ c.ans = "error"
      /\ UNCHANGED <<run, up, made, agent, off, store, storeOff, rec, asked, shown, views, wanted, slips>>
  BY DEF HearError, Heard, theAgent, theStore, renderer, history
<1>2. Grows
  BY <1>1, GrowsWhenSame DEF IInv
<1>3. RequestsOK' /\ calls' \subseteq Call
  BY <1>1, CallOver DEF IInv
<1>4. \A k : (Adding(k)' <=> Adding(k)) /\ (Removed(k)' <=> Removed(k)) /\ (Switched(k)' <=> Switched(k))
  BY <1>1 DEF Adding, Removed, Switched
<1>5. Typed'
  BY <1>1, <1>3 DEF IInv, Typed, Entry, Of
<1>6. RecOK' /\ RemapOK'
  BY <1>1 DEF IInv, RecOK, RemapOK, Entry, Of
<1>7. FreshOK'
  BY <1>1, <1>4 DEF IInv, FreshOK, Unheard, Entry
<1>8. OneEach' /\ AgentDown'
  BY <1>1, <1>4 DEF IInv, OneEach, AgentDown, Kept, Entry
<1>9. Stored' /\ Served'
  BY <1>1, <1>4 DEF IInv, Stored, Served, NewServed, Recorded, RemovesDone, Unheard, Entry, Lapsed, Doubled
<1>10. Switches'
  BY <1>1, <1>4 DEF IInv, Switches, InStep, NewAreOn, SwitchesDone, PushInStep, Entry, Lapsed, Muted
<1> QED BY <1>1, <1>2, <1>3, <1>5, <1>6, <1>7, <1>8, <1>9, <1>10, WantedFrame, ViewsFrame DEF IInv

LEMMA HearPatchKeeps ==
  ASSUME IInv, NEW c \in calls, HearPatch(c)
  PROVE  IInv'
<1>1. /\ calls' = calls \ {c} /\ c.op \in {"on", "off", "pause"} /\ c.ans = "ok"
      /\ storeOff' = IF c.id \notin store \/ c.op = "pause" THEN storeOff
                     ELSE IF c.op = "on" THEN storeOff \ {c.id} ELSE storeOff \cup {c.id}
      /\ UNCHANGED <<run, up, made, agent, off, store, rec, asked, shown, views, wanted, slips>>
  BY DEF HearPatch, Heard, theAgent, renderer, history
<1>2. Grows
  BY <1>1, GrowsWhenSame DEF IInv
<1>3. c.id \in Entry /\ made[c.id] = c.item /\ c.item \in Monitors /\ RequestOK(c)
  BY <1>1 DEF IInv, RequestsOK, RequestOK
<1>4. /\ RequestsOK' /\ calls' \subseteq Call
      /\ \A k \in Entry : /\ Adding(k)' <=> Adding(k)
                          /\ Removed(k)' <=> Removed(k)
                          /\ k # c.id => (Switched(k)' <=> Switched(k))
  <2>1. \A k : (Adding(k)' <=> Adding(k)) /\ (Removed(k)' <=> Removed(k))
    BY <1>1 DEF Adding, Removed
  <2> QED BY <1>1, <2>1, CallOver DEF IInv
<1>5. Typed'
  BY <1>1, <1>3, <1>4 DEF IInv, Typed, Entry, Of
<1>6. RecOK' /\ RemapOK'
  BY <1>1 DEF IInv, RecOK, RemapOK, Entry, Of
<1>7. FreshOK'
  BY <1>1, <1>4 DEF IInv, FreshOK, Unheard, Entry, RecOK
<1>8. OneEach' /\ AgentDown'
  BY <1>1, <1>4, EntryType DEF IInv, OneEach, AgentDown, Kept, Entry, Typed
<1>9. Stored' /\ Served'
  BY <1>1, <1>4 DEF IInv, Typed, Stored, Served, NewServed, Recorded, RemovesDone, Unheard, Entry, Lapsed, Doubled
<1>10. Switches'
  <2> SUFFICES ASSUME up PROVE Switches'
    BY <1>1 DEF Switches
  <2>1. ASSUME NEW k \in store' \cap agent' PROVE InStep(k)'
    <3>1. k \in store \cap agent /\ k \in Entry /\ InStep(k)
      BY <1>1 DEF IInv, Typed, Switches
    <3>2. CASE k = c.id
      <4>1. CASE c.op = "pause"
        BY <1>1, <1>3, <3>2, <4>1 DEF RequestOK, InStep, Muted
      <4>2. CASE c.op # "pause"
        BY <1>1, <3>1, <3>2, <4>2 DEF IInv, Switches, SwitchesDone, InStep
      <4> QED BY <4>1, <4>2
    <3>3. CASE k # c.id
      <4>1. (k \in storeOff') <=> (k \in storeOff)
        BY <1>1, <3>3
      <4> QED BY <1>1, <1>4, <3>1, <3>3, <4>1 DEF InStep, Lapsed, Muted
    <3> QED BY <3>2, <3>3
  <2>2. NewAreOn' /\ SwitchesDone'
    BY <1>1, <1>4 DEF IInv, Switches, NewAreOn, SwitchesDone, Entry
  <2>3. PushInStep'
    <3> SUFFICES ASSUME rec.push.ans = "ok" PROVE PushInStep'
      BY <1>1 DEF PushInStep
    <3>1. rec.push.id \notin store
      BY DEF IInv, RecOK, NoPush
    <3>2. (rec.push.id \in storeOff') <=> (rec.push.id \in storeOff)
      BY <1>1, <3>1
    <3> QED BY <1>1, <3>2 DEF IInv, Switches, PushInStep, Muted
  <2> QED BY <2>1, <2>2, <2>3 DEF Switches
<1> QED BY <1>1, <1>2, <1>4, <1>5, <1>6, <1>7, <1>8, <1>9, <1>10, WantedFrame, ViewsFrame DEF IInv

LEMMA HearAddKeeps ==
  ASSUME IInv, NEW c \in calls, HearAdd(c)
  PROVE  IInv'
<1>1. /\ calls' = calls \ {c} /\ c.op = "add" /\ c.ans = "ok" /\ store' = store \cup {c.id}
      /\ wanted' = wanted \cup {c.item}
      /\ views' = IF c.item \in Watches THEN views \cup {c.id} ELSE views
      /\ UNCHANGED <<run, up, made, agent, off, storeOff, rec, asked, shown, slips>>
  BY DEF HearAdd, Heard, theAgent
<1>2. Grows
  BY <1>1, GrowsWhenSame DEF IInv
<1>3. c.id \in Entry /\ made[c.id] = c.item /\ c.item \in Items /\ Adding(c.id) /\ Unheard(c.id)
  BY <1>1, EntryType DEF IInv, RequestsOK, RequestOK, Call, Adding, Unheard
<1>4. /\ c.id \notin store \cup rec.todo \cup shown \cup views
      /\ \A d \in calls : d.id = c.id => d.op \in {"add", "pause"}
      /\ \A p \in rec.remap : p[1] # c.id /\ p[2] # c.id
      /\ rec.push.ans = "ok" => c.id # rec.push.new
  BY <1>3 DEF IInv, FreshOK
<1>5. /\ RequestsOK' /\ calls' \subseteq Call
      /\ \A k \in Entry : /\ Adding(k)' <=> Adding(k) /\ k # c.id
                          /\ Removed(k)' <=> Removed(k)
                          /\ Switched(k)' <=> Switched(k)
  <2>1. \A k : (Removed(k)' <=> Removed(k)) /\ (Switched(k)' <=> Switched(k))
    BY <1>1 DEF Removed, Switched
  <2> QED BY <1>1, <2>1, CallOver DEF IInv
<1>6. Typed'
  BY <1>1, <1>3, <1>5 DEF IInv, Typed, Entry, Of
<1>7. RecOK' /\ RemapOK'
  <2>1. RecOK'
    BY <1>1, <1>4 DEF IInv, RecOK, Entry, Of
  <2>2. RemapOK'
    BY <1>1, <1>4 DEF IInv, RemapOK, Entry, Of
  <2> QED BY <2>1, <2>2
<1>8. FreshOK'
  BY <1>1, <1>4, <1>5 DEF IInv, FreshOK, Unheard, Entry, RecOK
<1>9. OneEach'
  <2>1. \A k \in Entry : Kept(k)' <=> Kept(k)
    BY <1>1, <1>3, <1>5 DEF Kept
  <2>2. \A k \in views : made[k] # c.item
    BY <1>3, <1>4 DEF IInv, OneEach, Typed, Of
  <2> QED BY <1>1, <1>3, <1>5, <2>1, <2>2 DEF IInv, OneEach, Entry
<1>10. AgentDown'
  BY <1>1 DEF IInv, AgentDown, Entry
<1>11. Stored' /\ Served'
  BY <1>1, <1>3, <1>5 DEF IInv, Typed, Stored, Served, NewServed, Recorded, RemovesDone, Unheard, Entry, Lapsed, Doubled
<1>12. Switches'
  <2> SUFFICES ASSUME up PROVE Switches'
    BY <1>1 DEF Switches
  <2>1. InStep(c.id)'
    <3>1. c.id \notin off /\ c.id \notin storeOff
      BY <1>3, <1>4 DEF IInv, Switches, NewAreOn, RecOK
    <3> QED BY <1>1, <3>1 DEF InStep
  <2>2. \A k \in store \cap agent : InStep(k)'
    BY <1>1, <1>5 DEF IInv, Typed, Switches, InStep, Lapsed, Muted
  <2>3. NewAreOn' /\ SwitchesDone' /\ PushInStep'
    BY <1>1, <1>5 DEF IInv, Switches, NewAreOn, SwitchesDone, PushInStep, Muted, Entry
  <2> QED BY <1>1, <2>1, <2>2, <2>3 DEF Switches
<1>13. WantedOK'
  BY <1>1, <1>3 DEF IInv, WantedOK, Excused
<1>14. ViewsOK'
  <2>1. (\A v : Rekey(v)' = Rekey(v)) /\ Rekey(c.id) = c.id
    BY <1>1, <1>4, RekeyValue DEF IInv, Rekey
  <2>2. \A v \in views' : Rekey(v)' \in store' \cup rec'.todo \/ Excused(made[v])'
    BY <1>1, <2>1 DEF IInv, ViewsOK, Excused
  <2>3. ASSUME NEW k \in store' \cup rec'.todo, made'[k] \in Watches
        PROVE  (\E v \in views' : Rekey(v)' = k) \/ Excused(made[k])'
    <3>1. CASE k = c.id
      BY <1>1, <1>3, <2>1, <2>3, <3>1
    <3>2. CASE k # c.id
      <4>1. k \in Of(store \cup rec.todo, Watches)
        BY <1>1, <2>3, <3>2 DEF Of
      <4> QED BY <1>1, <2>1, <4>1 DEF IInv, ViewsOK, Excused
    <3> QED BY <3>1, <3>2
  <2> QED BY <2>2, <2>3 DEF ViewsOK, Of
<1> QED BY <1>5, <1>6, <1>7, <1>8, <1>9, <1>10, <1>11, <1>12, <1>13, <1>14 DEF IInv

LEMMA HearRemoveKeeps ==
  ASSUME IInv, NEW c \in calls, HearRemove(c)
  PROVE  IInv'
<1>1. /\ calls' = calls \ {c} /\ c.op = "remove" /\ c.ans # "sent"
      /\ store' = store \ {c.id} /\ storeOff' = storeOff \ ({c.id} \cap store)
      /\ wanted' = wanted \ {c.item} /\ views' = views \ {c.id}
      /\ slips' = slips \cup {<<"misdirected", x>> : x \in IF c.id \in store THEN {} ELSE {c.item}}
      /\ UNCHANGED <<run, up, made, agent, off, rec, asked, shown>>
  BY DEF HearRemove, Heard, theAgent, Slip
<1>2. Grows /\ (c.id \notin store => <<"misdirected", c.item>> \in slips')
  BY <1>1, GrowsWhenSame DEF IInv
<1>3. /\ c.id \in Entry /\ made[c.id] = c.item /\ c.item \in Items /\ RequestOK(c)
      /\ c.ans \in {"ok", "gone"} /\ ~Unheard(c.id)
  <2>1. /\ c.id \in Entry /\ made[c.id] = c.item /\ c.item \in Items /\ RequestOK(c)
    BY <1>1, EntryType DEF IInv, RequestsOK, RequestOK, Call
  <2>2. c.ans \in {"ok", "gone"}
    BY <1>1, <2>1, EntryType DEF IInv, RequestOK, Call
  <2> QED BY <1>1, <2>1, <2>2 DEF IInv, FreshOK
<1>4. /\ RequestsOK' /\ calls' \subseteq Call
      /\ \A k \in Entry : /\ Adding(k)' <=> Adding(k)
                          /\ k # c.id => (Removed(k)' <=> Removed(k))
                          /\ Switched(k)' <=> Switched(k)
  <2>1. \A k : (Adding(k)' <=> Adding(k)) /\ (Switched(k)' <=> Switched(k))
    BY <1>1 DEF Adding, Switched
  <2> QED BY <1>1, <1>2, <2>1, CallOver DEF IInv, Grows
<1>5. Typed'
  BY <1>1, <1>4 DEF IInv, Typed, Entry, Of
<1>6. RecOK' /\ RemapOK'
  BY <1>1 DEF IInv, RecOK, RemapOK, Entry, Of
<1>7. FreshOK'
  BY <1>1, <1>4 DEF IInv, FreshOK, Unheard, Entry, RecOK
<1>8. OneEach'
  BY <1>1, <1>4 DEF IInv, OneEach, Kept, Entry
<1>9. AgentDown'
  BY <1>1 DEF IInv, AgentDown, Entry
<1>10. Stored'
  BY <1>1, <1>2, <1>4 DEF IInv, Typed, Stored, Grows, Lapsed
<1>11. Served'
  <2>1. up => c.id \notin agent
    BY <1>1 DEF IInv, Served, RemovesDone
  <2> QED BY <1>1, <1>2, <1>4, <2>1
        DEF IInv, Typed, Served, NewServed, Recorded, RemovesDone, Unheard, Grows, Lapsed, Doubled, Entry
<1>12. Switches'
  <2> SUFFICES ASSUME up PROVE Switches'
    BY <1>1 DEF Switches
  <2>1. ASSUME NEW k \in store' \cap agent' PROVE InStep(k)'
    <3>1. k \in store \cap agent /\ k \in Entry /\ InStep(k) /\ k # c.id
      BY <1>1 DEF IInv, Typed, Switches
    <3>2. (k \in storeOff') <=> (k \in storeOff)
      BY <1>1, <3>1
    <3> QED BY <1>1, <1>2, <1>4, <3>1, <3>2 DEF InStep, Grows, Lapsed, Muted
  <2>2. NewAreOn' /\ SwitchesDone'
    BY <1>1, <1>4 DEF IInv, Switches, NewAreOn, SwitchesDone, Entry
  <2>3. PushInStep'
    <3> SUFFICES ASSUME rec.push.ans = "ok" PROVE PushInStep'
      BY <1>1 DEF PushInStep
    <3>1. rec.push.id \notin store
      BY DEF IInv, RecOK, NoPush
    <3>2. (rec.push.id \in storeOff') <=> (rec.push.id \in storeOff)
      BY <1>1, <3>1
    <3> QED BY <1>1, <1>2, <3>2 DEF IInv, Switches, PushInStep, Grows, Muted
  <2> QED BY <2>1, <2>2, <2>3 DEF Switches
<1>13. WantedOK'
  <2>1. CASE c.id \notin store
    <3>1. Excused(c.item)' /\ store' = store
      BY <1>1, <1>2, <2>1 DEF Excused
    <3> QED BY <1>1, <1>2, <3>1 DEF IInv, WantedOK, Grows, Excused
  <2>2. CASE c.id \in store
    <3>1. \A k \in store \cup rec.todo : k # c.id => made[k] # c.item
      BY <1>3, <2>2 DEF IInv, OneEach, Kept, Typed
    <3>2. c.id \notin rec.todo
      BY <2>2 DEF IInv, RecOK
    <3> QED BY <1>1, <1>2, <1>3, <3>1, <3>2 DEF IInv, WantedOK, Grows, Excused
  <2> QED BY <2>1, <2>2
<1>14. ViewsOK'
  <2>1. \A v : Rekey(v)' = Rekey(v)
    BY <1>1 DEF Rekey
  <2>2. \A k \in Entry : Excused(made[k]) => Excused(made[k])'
    BY <1>1, <1>2 DEF Grows, Excused
  <2>3. \A v \in views : v \in Entry /\ Rekey(v) \in Entry /\ made[Rekey(v)] = made[v]
    BY RekeyKeepsItem DEF IInv, Typed, Of
  <2>4. CASE c.id \notin store
    <3>1. Excused(made[c.id])' /\ store' = store
      BY <1>1, <1>2, <1>3, <2>4 DEF Excused
    <3>2. \A v \in views' : Rekey(v)' \in store' \cup rec'.todo \/ Excused(made[v])'
      BY <1>1, <2>1, <2>2, <2>3, <3>1 DEF IInv, ViewsOK
    <3>3. ASSUME NEW k \in Of(store \cup rec.todo, Watches)
          PROVE  (\E v \in views' : Rekey(v)' = k) \/ Excused(made[k])'
      <4>1. k \in Entry
        BY DEF IInv, Typed, Of
      <4>2. CASE Excused(made[k])
        BY <2>2, <4>1, <4>2
      <4>3. ASSUME NEW v \in views, Rekey(v) = k
            PROVE  (\E w \in views' : Rekey(w)' = k) \/ Excused(made[k])'
        <5>1. CASE v = c.id
          BY <1>1, <2>3, <3>1, <4>3, <5>1
        <5>2. CASE v # c.id
          BY <1>1, <2>1, <4>3, <5>2
        <5> QED BY <5>1, <5>2
      <4> QED BY <4>2, <4>3 DEF IInv, ViewsOK
    <3> QED BY <1>1, <3>1, <3>2, <3>3 DEF ViewsOK, Of
  <2>5. CASE c.id \in store
    <3>1. Rekey(c.id) = c.id /\ c.id \notin rec.todo
      BY <2>5, RekeyValue DEF IInv, RemapOK, RecOK
    <3>2. \A v \in views : v # c.id => Rekey(v) # c.id
      BY <1>1, RekeyValue DEF IInv, RemapOK
    <3>3. \A v \in views' : Rekey(v)' \in store' \cup rec'.todo \/ Excused(made[v])'
      BY <1>1, <2>1, <2>2, <2>3, <3>2 DEF IInv, ViewsOK
    <3>4. ASSUME NEW k \in Of(store \cup rec.todo, Watches), k # c.id
          PROVE  (\E v \in views' : Rekey(v)' = k) \/ Excused(made[k])'
      <4>1. k \in Entry
        BY DEF IInv, Typed, Of
      <4> QED BY <1>1, <2>1, <2>2, <3>1, <3>4, <4>1 DEF IInv, ViewsOK
    <3>5. ASSUME NEW k \in Of(store \cup rec.todo, Watches)'
          PROVE  k \in Of(store \cup rec.todo, Watches) /\ k # c.id
      BY <1>1, <3>1 DEF Of
    <3> QED BY <1>1, <3>3, <3>4, <3>5 DEF ViewsOK
  <2> QED BY <2>4, <2>5
<1> QED BY <1>4, <1>5, <1>6, <1>7, <1>8, <1>9, <1>10, <1>11, <1>12, <1>13, <1>14 DEF IInv

LEMMA GiveUpKeeps ==
  ASSUME IInv, NEW c \in calls, GiveUp(c)
  PROVE  IInv'
<1> DEFINE closes == c.op = "remove" /\ c.item \in Watches
<1>1. /\ calls' = calls \ {c} /\ views' = IF closes THEN views \ {c.id} ELSE views
      /\ slips' = slips \cup (IF c.ans = "ok" THEN {<<"lapsed", c.id>>} ELSE {})
                        \cup (IF closes THEN {<<"abandoned", c.item>>} ELSE {})
      /\ UNCHANGED <<run, up, made, agent, off, store, storeOff, rec, asked, shown, wanted>>
  BY DEF GiveUp, theAgent, theStore
<1>2. /\ Grows /\ (c.ans = "ok" => Lapsed(c.id)') /\ (closes => Excused(c.item)')
  BY <1>1, GrowsWhenSame DEF IInv, Lapsed, Excused
<1>3. /\ c.op # "add" \/ c.ans = "ok" => c.id \in Entry /\ made[c.id] = c.item
      /\ RequestOK(c)
  BY <1>1 DEF IInv, RequestsOK, RequestOK
<1>4. /\ RequestsOK' /\ calls' \subseteq Call
      /\ \A k \in Entry : /\ Adding(k)' => Adding(k)
                          /\ \/ Lapsed(k)'
                             \/ /\ Adding(k)' <=> Adding(k)
                                /\ Removed(k)' <=> Removed(k)
                                /\ Switched(k)' <=> Switched(k)
  <2>1. CASE c.ans = "ok"
    BY <1>1, <1>2, <2>1, CallOver DEF IInv, Grows
  <2>2. CASE c.ans # "ok"
    <3>1. \A k : (Adding(k)' <=> Adding(k)) /\ (Removed(k)' <=> Removed(k)) /\ (Switched(k)' <=> Switched(k))
      BY <1>1, <2>2 DEF Adding, Removed, Switched
    <3> QED BY <1>1, <1>2, <3>1, CallOver DEF IInv, Grows
  <2> QED BY <2>1, <2>2
<1>5. Typed'
  BY <1>1, <1>4 DEF IInv, Typed, Entry, Of
<1>6. RecOK' /\ RemapOK'
  BY <1>1 DEF IInv, RecOK, RemapOK, Entry, Of
<1>7. FreshOK'
  BY <1>1, <1>4, EntryType DEF IInv, FreshOK, Unheard, Entry, RecOK
<1>8. OneEach'
  BY <1>1, <1>4 DEF IInv, OneEach, Kept, Entry
<1>9. AgentDown'
  BY <1>1 DEF IInv, AgentDown, Entry
<1>10. Stored'
  BY <1>1, <1>2, <1>4 DEF IInv, Typed, Stored, Grows, Lapsed
<1>11. Served'
  <2>1. \A k \in Entry : Unheard(k)' => Unheard(k)
    BY <1>1, <1>4 DEF Unheard
  <2>2. \A k \in Entry : Lapsed(k)' \/ (Unheard(k)' <=> Unheard(k))
    BY <1>1, <1>4 DEF Unheard
  <2> QED BY <1>1, <1>2, <2>1, <2>2
        DEF IInv, Typed, Served, NewServed, Recorded, RemovesDone, Grows, Lapsed, Doubled, Entry
<1>12. Switches'
  BY <1>1, <1>2, <1>4 DEF IInv, Typed, Switches, InStep, NewAreOn, SwitchesDone, PushInStep, Entry,
    Grows, Lapsed, Muted
<1>13. ViewsOK'
  <2>1. \A v : Rekey(v)' = Rekey(v)
    BY <1>1 DEF Rekey
  <2>2. \A k \in Entry : Excused(made[k]) => Excused(made[k])'
    BY <1>1, <1>2 DEF Grows, Excused
  <2>3. \A v \in views : v \in Entry /\ made[Rekey(v)] = made[v]
    BY RekeyKeepsItem DEF IInv, Typed, Of
  <2>4. \A v \in views' : Rekey(v)' \in store' \cup rec'.todo \/ Excused(made[v])'
    BY <1>1, <2>1, <2>2, <2>3 DEF IInv, ViewsOK
  <2>5. ASSUME NEW k \in Of(store \cup rec.todo, Watches)
        PROVE  (\E v \in views' : Rekey(v)' = k) \/ Excused(made[k])'
    <3>1. k \in Entry
      BY DEF IInv, Typed, Of
    <3>2. CASE Excused(made[k])
      BY <2>2, <3>1, <3>2
    <3>3. ASSUME NEW v \in views, Rekey(v) = k
          PROVE  (\E w \in views' : Rekey(w)' = k) \/ Excused(made[k])'
      <4>1. CASE closes /\ v = c.id
        BY <1>1, <1>2, <1>3, <2>3, <3>3, <4>1
      <4>2. CASE ~(closes /\ v = c.id)
        BY <1>1, <2>1, <3>3, <4>2
      <4> QED BY <4>1, <4>2
    <3> QED BY <3>2, <3>3 DEF IInv, ViewsOK
  <2> QED BY <1>1, <2>4, <2>5 DEF ViewsOK, Of
<1> QED BY <1>1, <1>2, <1>4, <1>5, <1>6, <1>7, <1>8, <1>9, <1>10, <1>11, <1>12, <1>13, WantedFrame DEF IInv

LEMMA HearKeeps ==
  ASSUME IInv, NEW c \in calls, Hear(c)
  PROVE  IInv'
BY HearAddKeeps, HearPatchKeeps, HearRemoveKeeps, HearErrorKeeps, GiveUpKeeps DEF Hear

-----------------------------------------------------------------------------
(* The agent. *)

\* An answer to a request that says no, or that there is nothing to do.
LEMMA AnswerNo ==
  ASSUME IInv, NEW c \in calls, NEW ans \in {"gone", "error"}, c.ans = "sent",
         ans = "gone" => c.op = "remove" /\ c.id \notin agent,
         ans = "error" => c.op # "remove",
         Answer(c, [c EXCEPT !.ans = ans]),
         UNCHANGED <<run, up, made, agent, off, store, storeOff, rec, asked, shown, views, wanted, slips>>
  PROVE  IInv'
<1> DEFINE d == [c EXCEPT !.ans = ans]
<1>1. c \in Call /\ RequestOK(c)
  BY EntryType DEF IInv, RequestsOK
<1>2. /\ calls' = (calls \ {c}) \cup {d}
      /\ d \in Call /\ d.op = c.op /\ d.item = c.item /\ d.id = c.id /\ d.ans = ans
  BY <1>1 DEF Answer, Call
<1> HIDE DEF d
<1>3. Grows
  BY GrowsWhenSame DEF IInv
<1>4. RequestsOK'
  <2>1. \A e \in calls : RequestOK(e)'
    BY DEF IInv, RequestsOK, RequestOK, Entry
  <2>2. ASSUME NEW e, e = d PROVE RequestOK(e)'
    BY <1>1, <1>2, <2>2 DEF RequestOK, Entry
  <2>3. \A e, f \in calls' : e.id = f.id /\ e.item = f.item => e = f
    BY <1>2 DEF IInv, RequestsOK
  <2> QED BY <1>2, <2>1, <2>2, <2>3 DEF RequestsOK
<1>5. \A k : (Adding(k)' <=> Adding(k)) /\ (Removed(k)' <=> Removed(k)) /\ (Switched(k)' <=> Switched(k))
  BY <1>2 DEF Adding, Removed, Switched
<1>6. Typed'
  BY <1>2 DEF IInv, Typed, Entry, Of
<1>7. RecOK' /\ RemapOK'
  <2>1. RecOK'
    BY DEF IInv, RecOK, Entry, Of
  <2>2. RemapOK'
    BY <1>2 DEF IInv, RemapOK, Entry, Of
  <2> QED BY <2>1, <2>2
<1>8. FreshOK'
  BY <1>2, <1>5 DEF IInv, FreshOK, Unheard, Entry
<1>9. OneEach' /\ AgentDown'
  BY <1>5 DEF IInv, OneEach, AgentDown, Kept, Entry
<1>10. Stored'
  BY <1>5 DEF IInv, Stored, Lapsed
<1>11. Served'
  BY <1>2, <1>5 DEF IInv, Served, NewServed, Recorded, RemovesDone, Unheard, Entry, Lapsed, Doubled
<1>12. Switches'
  BY <1>2, <1>5 DEF IInv, Switches, InStep, NewAreOn, SwitchesDone, PushInStep, Entry, Lapsed, Muted
<1> QED BY <1>3, <1>4, <1>6, <1>7, <1>8, <1>9, <1>10, <1>11, <1>12, WantedFrame, ViewsFrame DEF IInv

\* An answer that says yes: the request stays, about the same thing.
LEMMA AnswerYes ==
  ASSUME IInv, NEW c \in calls, c.op # "add", c.ans = "sent", Answer(c, [c EXCEPT !.ans = "ok"]),
         UNCHANGED <<made, slips>>
  PROVE  /\ RequestsOK' /\ calls' \subseteq Call
         /\ \A k : Adding(k)' <=> Adding(k)
         /\ \A k : Removed(k)' <=> Removed(k) \/ (c.op = "remove" /\ k = c.id)
         /\ \A k : Switched(k)' <=> Switched(k) \/ (c.op \in {"on", "off"} /\ k = c.id)
         /\ \A e \in calls' : \/ e \in calls /\ e.id # c.id
                              \/ e.id = c.id /\ e.op = c.op /\ e.ans = "ok"
<1> DEFINE d == [c EXCEPT !.ans = "ok"]
<1>1. c \in Call /\ RequestOK(c) /\ 0 \notin Entry
  BY EntryType DEF IInv, RequestsOK
<1>2. /\ calls' = (calls \ {c}) \cup {d}
      /\ d \in Call /\ d.op = c.op /\ d.item = c.item /\ d.id = c.id /\ d.ans = "ok"
  BY <1>1 DEF Answer, Call
<1> HIDE DEF d
<1>3. \A e \in calls : RequestOK(e)'
  BY DEF IInv, RequestsOK, RequestOK, Entry
<1>4. ASSUME NEW e, e = d PROVE RequestOK(e)'
  BY <1>1, <1>2, <1>4 DEF RequestOK, Entry
<1>5. \A e, f \in calls' : e.id = f.id /\ e.item = f.item => e = f
  BY <1>2 DEF IInv, RequestsOK
<1>6. \A e \in calls : e.id = c.id => e.item = c.item
  BY <1>1 DEF IInv, RequestsOK, RequestOK
<1>7. \A e \in calls \ {c} : e.id # c.id
  BY <1>6 DEF IInv, RequestsOK
<1> QED BY <1>1, <1>2, <1>3, <1>4, <1>5, <1>7 DEF RequestsOK, Adding, Removed, Switched, IInv, Typed

LEMMA ServeAddKeeps ==
  ASSUME IInv, NEW c \in calls, up, c.ans = "sent", c.op = "add",
         Create(c.item, FALSE), Answer(c, [c EXCEPT !.id = New, !.ans = "ok"]),
         UNCHANGED <<run, up, store, storeOff, rec, asked, shown, views, wanted, slips>>
  PROVE  IInv'
<1> DEFINE d == [c EXCEPT !.id = New, !.ans = "ok"]
<1>1. c \in Call /\ RequestOK(c) /\ c.item \in Items
  BY EntryType DEF IInv, RequestsOK, Call
<1>2. /\ Grows /\ Len(made') <= MaxIds
      /\ New \in Nat \ {0} /\ New \notin Entry /\ Entry' = Entry \cup {New} /\ made'[New] = c.item
      /\ agent' = agent \cup {New} /\ off' = off
  BY <1>1, CreateGrows DEF IInv, Create
<1>3. /\ calls' = (calls \ {c}) \cup {d}
      /\ d \in Call /\ d.op = "add" /\ d.item = c.item /\ d.id = New /\ d.ans = "ok"
  BY <1>1, <1>2 DEF Answer, Call
<1> HIDE DEF d
<1>4. \A k \in Entry : made[k] # c.item /\ made'[k] = made[k] /\ c.id = 0
  BY <1>1, <1>2 DEF RequestOK, Grows
<1>5. \A e \in calls : e.id = 0 \/ e.id \in Entry
  BY DEF IInv, RequestsOK, RequestOK
<1>6. RequestsOK'
  <2>1. ASSUME NEW e \in calls \ {c} PROVE RequestOK(e)'
    <3>1. e.op = "add" /\ e.ans # "ok" => e.item # c.item
      BY <1>1 DEF IInv, RequestsOK, RequestOK
    <3> QED BY <1>2, <1>4, <3>1 DEF IInv, RequestsOK, RequestOK
  <2>2. ASSUME NEW e, e = d PROVE RequestOK(e)'
    BY <1>2, <1>3, <2>2 DEF RequestOK
  <2>3. \A e, f \in calls' : e.id = f.id /\ e.item = f.item => e = f
    BY <1>2, <1>3, <1>5 DEF IInv, RequestsOK
  <2> QED BY <1>3, <2>1, <2>2, <2>3 DEF RequestsOK
<1>7. /\ \A k : Adding(k)' <=> Adding(k) \/ k = New
      /\ \A k : (Removed(k)' <=> Removed(k)) /\ (Switched(k)' <=> Switched(k))
  BY <1>3 DEF Adding, Removed, Switched
<1>8. Typed'
  BY <1>2, <1>3, <1>4 DEF IInv, Typed, Of, Grows
<1>9. RecOK'
  BY <1>2, <1>4 DEF IInv, Typed, RecOK, Of, NoPush
<1>10. RemapOK'
  BY <1>2, <1>3, <1>4 DEF IInv, RemapOK, Of
<1>11. FreshOK'
  <2>1. New \notin store \cup rec.todo \cup shown \cup views
    BY <1>2 DEF IInv, Typed, Of
  <2>2. \A p \in rec.remap : p[1] # New /\ p[2] # New
    BY <1>2 DEF IInv, RemapOK, Of
  <2>3. rec.push.ans = "ok" => rec.push.new # New
    BY <1>2 DEF IInv, RecOK
  <2> QED BY <1>2, <1>3, <1>5, <1>7, <2>1, <2>2, <2>3 DEF IInv, FreshOK, Unheard
<1>12. OneEach'
  BY <1>2, <1>4, <1>7 DEF IInv, Typed, OneEach, Kept, Of
<1>13. AgentDown'
  BY DEF IInv, AgentDown
<1>14. Stored'
  BY <1>2, <1>4, <1>7 DEF IInv, Typed, Stored, Lapsed
<1>15. Served'
  BY <1>2, <1>3, <1>5, <1>7 DEF IInv, Typed, Served, NewServed, Recorded, RemovesDone, Unheard, Lapsed,
    Doubled, RecOK
<1>16. Switches'
  <2>1. New \notin store /\ New \notin off
    BY <1>2 DEF IInv, Typed, Of
  <2>2. \A k \in store' \cap agent' : InStep(k)'
    BY <1>2, <1>7, <2>1 DEF IInv, Switches, InStep, Lapsed, Muted
  <2>3. NewAreOn' /\ SwitchesDone' /\ PushInStep'
    BY <1>2, <1>3, <1>5, <1>7, <2>1 DEF IInv, Switches, NewAreOn, SwitchesDone, PushInStep, Muted
  <2> QED BY <2>2, <2>3 DEF Switches
<1> QED BY <1>2, <1>6, <1>8, <1>9, <1>10, <1>11, <1>12, <1>13, <1>14, <1>15, <1>16, WantedFrame, ViewsFrame
        DEF IInv

LEMMA ServePatchKeeps ==
  ASSUME IInv, NEW c \in calls, up, c.ans = "sent", c.op \in {"on", "off", "pause"}, c.id \in agent,
         off' = IF c.op = "on" THEN off \ {c.id} ELSE off \cup {c.id},
         Answer(c, [c EXCEPT !.ans = "ok"]),
         UNCHANGED <<run, up, made, agent, store, storeOff, rec, asked, shown, views, wanted, slips>>
  PROVE  IInv'
<1>1. RequestOK(c) /\ c.id \in Entry /\ made[c.id] \in Monitors /\ (c.op = "pause" => Muted(c.id))
  BY DEF IInv, RequestsOK, RequestOK, Muted
<1>2. /\ RequestsOK' /\ calls' \subseteq Call
      /\ \A k : Adding(k)' <=> Adding(k)
      /\ \A k : Removed(k)' <=> Removed(k)
      /\ \A k : Switched(k)' <=> Switched(k) \/ (c.op \in {"on", "off"} /\ k = c.id)
      /\ \A e \in calls' : \/ e \in calls /\ e.id # c.id
                           \/ e.id = c.id /\ e.op = c.op /\ e.ans = "ok"
  BY AnswerYes
<1>3. Grows
  BY GrowsWhenSame DEF IInv
<1>4. ~Adding(c.id)
  BY <1>1 DEF Adding, IInv, RequestsOK, RequestOK
<1>5. Typed'
  BY <1>1, <1>2 DEF IInv, Typed, Entry, Of
<1>6. RecOK'
  BY DEF IInv, RecOK, Entry, Of
<1>7. RemapOK'
  BY <1>2 DEF IInv, RemapOK, Entry, Of
<1>8. FreshOK'
  BY <1>2 DEF IInv, FreshOK, Unheard, Entry
<1>9. OneEach' /\ AgentDown'
  BY <1>2 DEF IInv, OneEach, AgentDown, Kept, Entry
<1>10. Stored'
  BY <1>2 DEF IInv, Stored, Lapsed
<1>11. Served'
  BY <1>2 DEF IInv, Served, NewServed, Recorded, RemovesDone, Unheard, Entry, Lapsed, Doubled
<1>12. Switches'
  <2>1. ASSUME NEW k \in store' \cap agent' PROVE InStep(k)'
    <3>1. InStep(k)
      BY DEF IInv, Switches
    <3>2. CASE k = c.id
      BY <1>1, <1>2, <3>2 DEF InStep, Muted
    <3>3. CASE k # c.id
      <4>1. (k \in off') <=> (k \in off)
        BY <3>3
      <4> QED BY <1>2, <3>1, <4>1 DEF InStep, Lapsed, Muted
    <3> QED BY <3>2, <3>3
  <2>2. NewAreOn'
    BY <1>2, <1>4 DEF IInv, Switches, NewAreOn, Entry
  <2>3. SwitchesDone'
    BY <1>2 DEF IInv, Switches, SwitchesDone
  <2>4. PushInStep'
    <3> SUFFICES ASSUME rec.push.ans = "ok" PROVE PushInStep'
      BY DEF PushInStep
    <3>1. CASE rec.push.new = c.id
      BY <1>1, <3>1 DEF IInv, FreshOK, Unheard, PushInStep, Muted
    <3>2. CASE rec.push.new # c.id
      <4>1. (rec.push.new \in off') <=> (rec.push.new \in off)
        BY <3>2
      <4> QED BY <4>1 DEF IInv, Switches, PushInStep, Muted
    <3> QED BY <3>1, <3>2
  <2> QED BY <2>1, <2>2, <2>3, <2>4 DEF Switches
<1> QED BY <1>2, <1>3, <1>5, <1>6, <1>7, <1>8, <1>9, <1>10, <1>11, <1>12, WantedFrame, ViewsFrame DEF IInv

LEMMA ServeDeleteKeeps ==
  ASSUME IInv, NEW c \in calls, up, c.ans = "sent", c.op = "remove", c.id \in agent,
         agent' = agent \ {c.id}, off' = off \ {c.id}, Answer(c, [c EXCEPT !.ans = "ok"]),
         UNCHANGED <<run, up, made, store, storeOff, rec, asked, shown, views, wanted, slips>>
  PROVE  IInv'
<1>1. RequestOK(c) /\ c.id \in Entry /\ ~Unheard(c.id)
  BY DEF IInv, RequestsOK, RequestOK, FreshOK
<1>2. /\ RequestsOK' /\ calls' \subseteq Call
      /\ \A k : Adding(k)' <=> Adding(k)
      /\ \A k : Removed(k)' <=> Removed(k) \/ k = c.id
      /\ \A k : Switched(k)' <=> Switched(k)
      /\ \A e \in calls' : \/ e \in calls /\ e.id # c.id
                           \/ e.id = c.id /\ e.op = c.op /\ e.ans = "ok"
  BY AnswerYes
<1>3. Grows
  BY GrowsWhenSame DEF IInv
<1>4. Typed'
  BY <1>1, <1>2 DEF IInv, Typed, Entry, Of
<1>5. RecOK'
  BY DEF IInv, RecOK, Entry, Of
<1>6. RemapOK'
  BY <1>2 DEF IInv, RemapOK, Entry, Of
<1>7. FreshOK'
  BY <1>2 DEF IInv, FreshOK, Unheard, Entry
<1>8. OneEach' /\ AgentDown'
  BY <1>2 DEF IInv, OneEach, AgentDown, Kept, Entry
<1>9. Stored'
  BY <1>2 DEF IInv, Stored, Lapsed
<1>10. Served'
  BY <1>1, <1>2 DEF IInv, Served, NewServed, Recorded, RemovesDone, Unheard, Entry, Lapsed, Doubled
<1>11. Switches'
  <2>1. \A k \in store' \cap agent' : InStep(k)'
    BY <1>2 DEF IInv, Switches, InStep, Lapsed, Muted
  <2>2. NewAreOn' /\ SwitchesDone'
    BY <1>2 DEF IInv, Switches, NewAreOn, SwitchesDone, Entry
  <2>3. PushInStep'
    BY <1>1 DEF IInv, Switches, PushInStep, Unheard, Muted
  <2> QED BY <2>1, <2>2, <2>3 DEF Switches
<1> QED BY <1>2, <1>3, <1>4, <1>5, <1>6, <1>7, <1>8, <1>9, <1>10, <1>11, WantedFrame, ViewsFrame DEF IInv

LEMMA ServeKeeps ==
  ASSUME IInv, NEW c \in calls, Serve(c)
  PROVE  IInv'
<1>1. /\ up /\ c.ans = "sent"
      /\ UNCHANGED <<run, up, store, storeOff, rec, asked, shown, views, wanted, slips>>
  BY DEF Serve, theStore, renderer, history
<1>2. CASE ServeAdd(c)
  BY <1>1, <1>2, ServeAddKeeps, AnswerNo DEF ServeAdd, theAgent
<1>3. CASE ServePatch(c)
  BY <1>1, <1>3, ServePatchKeeps, AnswerNo DEF ServePatch
<1>4. CASE ServeDelete(c)
  <2>1. CASE c.id \in agent
    BY <1>1, <1>4, <2>1, ServeDeleteKeeps DEF ServeDelete
  <2>2. CASE c.id \notin agent
    <3>1. agent' = agent /\ off' = off
      BY <1>4, <2>2 DEF ServeDelete, IInv, Typed, Of
    <3> QED BY <1>1, <1>4, <2>2, <3>1, AnswerNo DEF ServeDelete
  <2> QED BY <2>1, <2>2
<1> QED BY <1>2, <1>3, <1>4 DEF Serve

LEMMA PushAnswered ==
  ASSUME Typed, NEW ans \in {"ok", "error"}, NEW new \in Nat,
         \/ rec' = [rec EXCEPT !.push.ans = ans, !.push.new = new]
         \/ rec' = [rec EXCEPT !.push.ans = ans] /\ new = rec.push.new
  PROVE  /\ rec'.phase = rec.phase /\ rec'.todo = rec.todo /\ rec'.remap = rec.remap
         /\ rec'.push.id = rec.push.id /\ rec'.push.ans = ans /\ rec'.push.new = new
         /\ rec' \in Record
<1>1. rec \in Record /\ rec.push \in [id : Nat, ans : {"none", "sent", "ok", "error"}, new : Nat]
  BY DEF Typed, Record
<1> DEFINE p == [id |-> rec.push.id, ans |-> ans, new |-> new]
<1>2. rec' = [phase |-> rec.phase, todo |-> rec.todo, push |-> p, remap |-> rec.remap]
  <2>1. CASE rec' = [rec EXCEPT !.push.ans = ans] /\ new = rec.push.new
    <3>1. [rec.push EXCEPT !.ans = ans] = p
      BY <1>1, <2>1
    <3> QED BY <1>1, <2>1, <3>1 DEF Record
  <2>2. CASE rec' = [rec EXCEPT !.push.ans = ans, !.push.new = new]
    <3>1. [[rec.push EXCEPT !.ans = ans] EXCEPT !.new = new] = p
      <4> DEFINE q == [rec.push EXCEPT !.ans = ans]
      <4>1. q = [id |-> rec.push.id, ans |-> ans, new |-> rec.push.new]
        BY <1>1
      <4> HIDE DEF q
      <4>2. [q EXCEPT !.new = new] = p
        BY <4>1
      <4> QED BY <4>2 DEF q
    <3>2. rec' = [rec EXCEPT !.push = [[rec.push EXCEPT !.ans = ans] EXCEPT !.new = new]]
      BY <1>1, <2>2 DEF Record
    <3> QED BY <1>1, <3>1, <3>2 DEF Record
  <2> QED BY <2>1, <2>2
<1> QED BY <1>1, <1>2 DEF Record

LEMMA ServePushKeeps ==
  ASSUME IInv, ServePush
  PROVE  IInv'
<1> DEFINE i == rec.push.id
<1>1. /\ up /\ rec.push.ans = "sent"
      /\ UNCHANGED <<run, up, store, storeOff, calls, asked, shown, views, wanted, slips>>
  BY DEF ServePush, theStore, renderer, history
<1>2. i \in rec.todo /\ i \in Entry /\ made[i] \in Items /\ i \in Nat
  BY <1>1, EntryType DEF IInv, RecOK, NoPush, Typed
<1>3. \A k : (Adding(k)' <=> Adding(k)) /\ (Removed(k)' <=> Removed(k)) /\ (Switched(k)' <=> Switched(k))
  BY <1>1 DEF Adding, Removed, Switched
<1>4. \A k : Adding(k) => k \in Entry
  BY DEF Adding, IInv, RequestsOK, RequestOK
<1>5. CASE rec' = [rec EXCEPT !.push.ans = "error"] /\ UNCHANGED theAgent
  <2>1. /\ UNCHANGED <<made, agent, off>> /\ rec' \in Record
        /\ rec'.phase = rec.phase /\ rec'.todo = rec.todo /\ rec'.remap = rec.remap
        /\ rec'.push.id = i /\ rec'.push.ans = "error"
    <3>1. rec.push.new \in Nat
      BY DEF IInv, Typed, Record
    <3> QED BY <1>5, <3>1, PushAnswered DEF theAgent, IInv
  <2>2. Grows
    BY <1>1, <2>1, GrowsWhenSame DEF IInv
  <2>3. Typed'
    BY <1>1, <2>1 DEF IInv, Typed, Entry, Of
  <2>4. RequestsOK'
    BY <1>1, <2>1 DEF IInv, RequestsOK, RequestOK, Entry
  <2>5. RecOK'
    BY <1>1, <1>2, <2>1 DEF IInv, RecOK, Entry, Of, NoPush
  <2>6. RemapOK'
    BY <1>1, <2>1 DEF IInv, RemapOK, Entry, Of
  <2>7. FreshOK'
    BY <1>1, <1>3, <2>1 DEF IInv, FreshOK, Unheard, Entry
  <2>8. OneEach' /\ AgentDown'
    BY <1>1, <1>3, <2>1 DEF IInv, OneEach, AgentDown, Kept, Entry
  <2>9. Stored'
    BY <1>1, <1>3, <2>1 DEF IInv, Stored, Lapsed
  <2>10. Served'
    BY <1>1, <1>3, <2>1 DEF IInv, Served, NewServed, Recorded, RemovesDone, Unheard, Entry,
      Lapsed, Doubled
  <2>11. Switches'
    BY <1>1, <1>3, <2>1 DEF IInv, Switches, InStep, NewAreOn, SwitchesDone, PushInStep, Entry,
      Lapsed, Muted
  <2> QED BY <1>1, <2>1, <2>2, <2>3, <2>4, <2>5, <2>6, <2>7, <2>8, <2>9, <2>10, <2>11, WantedFrame, ViewsFrame
          DEF IInv
<1>6. CASE /\ Create(made[i], i \in storeOff)
           /\ rec' = [rec EXCEPT !.push.ans = "ok", !.push.new = New]
  <2>1. /\ Grows /\ Len(made') <= MaxIds
        /\ New \in Nat \ {0} /\ New \notin Entry /\ Entry' = Entry \cup {New} /\ made'[New] = made[i]
        /\ agent' = agent \cup {New} /\ off' = IF i \in storeOff THEN off \cup {New} ELSE off
        /\ \A k \in Entry : made'[k] = made[k]
    <3>1. /\ New <= MaxIds /\ made' = Append(made, made[i]) /\ agent' = agent \cup {New}
          /\ off' = IF i \in storeOff THEN off \cup {New} ELSE off
      BY <1>6 DEF Create
    <3>2. Grows => \A k \in Entry : made'[k] = made[k]
      BY DEF Grows
    <3> QED BY <1>1, <1>2, <3>1, <3>2, CreateGrows DEF IInv
  <2>2. /\ New \notin store \cup rec.todo \cup shown \cup views /\ New \notin off
        /\ \A p \in rec.remap : p[1] # New /\ p[2] # New
        /\ \A c \in calls : c.id # New
        /\ ~Adding(New)
    BY <2>1, <1>4, EntryType DEF IInv, Typed, RemapOK, RequestsOK, RequestOK, Of
  <2>14. /\ rec'.phase = rec.phase /\ rec'.todo = rec.todo /\ rec'.remap = rec.remap
         /\ rec'.push.id = i /\ rec'.push.ans = "ok" /\ rec'.push.new = New /\ rec' \in Record
    BY <1>6, <2>1, PushAnswered DEF IInv
  <2>3. Typed'
    <3>1. off' \subseteq Of(agent, Monitors)'
      BY <1>1, <2>1 DEF IInv, Typed, Of
    <3> QED BY <1>1, <2>1, <2>14, <3>1 DEF IInv, Typed, Of, Grows
  <2>4. RequestsOK'
    BY <1>1, <1>2, <2>1 DEF IInv, RequestsOK, RequestOK
  <2>5. RecOK'
    BY <1>1, <1>2, <2>1, <2>14 DEF IInv, Typed, RecOK, Of, NoPush
  <2>6. RemapOK'
    BY <1>1, <2>1, <2>14 DEF IInv, RemapOK, Of
  <2>7. \A k : Unheard(k)' <=> Unheard(k) \/ k = New
    BY <1>1, <1>3, <2>14 DEF Unheard
  <2>8. FreshOK'
    BY <1>1, <1>3, <2>1, <2>2, <2>7, <2>14 DEF IInv, FreshOK
  <2>9. OneEach'
    <3>1. \A j : Adding(j) => made[j] # made[i]
      <4>1. \A j \in Entry : Adding(j) => j # i
        BY <1>2 DEF IInv, FreshOK, Unheard
      <4> QED BY <1>2, <1>4, <4>1 DEF IInv, OneEach
    <3>2. \A k : Kept(k)' <=> Kept(k)
      BY <1>1, <1>3, <2>14 DEF Kept
    <3>3. ~Kept(New)
      BY <2>2 DEF Kept
    <3>4. views \subseteq Entry
      BY DEF IInv, Typed, Of
    <3> QED BY <1>1, <1>3, <1>4, <2>1, <2>2, <3>1, <3>2, <3>3, <3>4 DEF IInv, OneEach
  <2>10. AgentDown'
    BY <1>1 DEF IInv, AgentDown
  <2>11. Stored'
    BY <1>1, <1>3, <2>1, <2>14 DEF IInv, Typed, Stored, Lapsed
  <2>12. Served'
    BY <1>1, <1>3, <2>1, <2>2, <2>7 DEF IInv, Typed, Served, NewServed, Recorded, RemovesDone,
      Lapsed, Doubled
  <2>13. Switches'
    <3>1. \A k \in store' \cap agent' : InStep(k)'
      BY <1>1, <1>3, <2>1, <2>2 DEF IInv, Switches, InStep, Lapsed, Muted
    <3>2. NewAreOn'
      BY <1>1, <1>3, <2>1, <2>2 DEF IInv, Switches, NewAreOn
    <3>3. SwitchesDone'
      BY <1>1, <2>1, <2>2 DEF IInv, Switches, SwitchesDone
    <3>4. PushInStep'
      BY <1>1, <2>1, <2>2, <2>14 DEF PushInStep
    <3> QED BY <3>1, <3>2, <3>3, <3>4 DEF Switches
  <2> QED BY <1>1, <2>1, <2>3, <2>4, <2>5, <2>6, <2>8, <2>9, <2>10, <2>11, <2>12, <2>13, <2>14, WantedFrame,
             ViewsFrame DEF IInv
<1> QED BY <1>5, <1>6 DEF ServePush

LEMMA CrashKeeps ==
  ASSUME IInv, Crash
  PROVE  IInv'
<1>1. /\ up /\ up' = FALSE /\ agent' = {} /\ off' = {}
      /\ UNCHANGED <<run, made, store, storeOff, rec, calls, asked, shown, views, wanted, slips>>
  BY DEF Crash, theStore, renderer, history
<1>2. Grows
  BY <1>1, GrowsWhenSame DEF IInv
<1>3. Typed'
  BY <1>1 DEF IInv, Typed, Entry, Of
<1>4. RequestsOK' /\ RecOK' /\ RemapOK'
  BY <1>1 DEF IInv, RequestsOK, RequestOK, RecOK, RemapOK, Entry, Of
<1>5. FreshOK' /\ OneEach'
  BY <1>1 DEF IInv, FreshOK, OneEach, Unheard, Kept, Adding, Entry
<1>6. AgentDown'
  BY <1>1 DEF IInv, AgentDown
<1> QED BY <1>1, <1>2, <1>3, <1>4, <1>5, <1>6, WantedFrame, ViewsFrame
        DEF IInv, Stored, Served, Switches

-----------------------------------------------------------------------------
(* The reconciliation. *)

LEMMA RunningKeeps ==
  ASSUME IInv, Running
  PROVE  IInv'
<1>1. /\ ~up /\ up' = TRUE /\ calls = {} /\ rec.phase = "idle"
      /\ run' = run + 1 /\ run' \in 1 .. MaxRuns
      /\ UNCHANGED <<made, agent, off, storeOff, calls, asked, shown, views, wanted, slips>>
  BY ReconcileAssumption DEF Running, theAgent, renderer, history, IInv, Typed
<1>2. agent = {} /\ off = {} /\ rec.todo = {} /\ rec.push = NoPush /\ rec.remap = {}
  BY <1>1 DEF IInv, AgentDown, RecOK
<1>3. Grows
  BY <1>1, GrowsWhenSame DEF IInv
<1>4. /\ store' \cup rec'.todo = store /\ store' \cap rec'.todo = {}
      /\ rec'.push = NoPush /\ rec'.remap = {} /\ rec' \in Record
      /\ \/ rec'.phase = "idle" /\ rec'.todo = {} /\ store' = {}
         \/ rec'.phase = "monitors" /\ rec'.todo = Of(store, Monitors) /\ store' = Of(store, Watches)
  <2>1. CASE run = 0
    <3>1. store = {} /\ rec' = rec /\ store' = store
      BY <2>1 DEF Running, IInv, Typed, AgentDown
    <3> QED BY <1>1, <1>2, <3>1 DEF IInv, Typed
  <2>2. CASE run # 0
    <3>1. /\ rec' = [Idle EXCEPT !.phase = "monitors", !.todo = Of(store, Monitors)]
          /\ store' = Of(store, Watches)
      BY <2>2 DEF Running
    <3>2. \A k \in store : k \in Nat /\ made[k] \in Monitors \cup Watches
      BY EntryType DEF IInv, Typed, Items
    <3>3. store' \cup Of(store, Monitors) = store /\ store' \cap Of(store, Monitors) = {}
      BY <3>1, <3>2, ReconcileAssumption DEF Of
    <3>4. /\ rec'.phase = "monitors" /\ rec'.todo = Of(store, Monitors) /\ rec'.push = NoPush
          /\ rec'.remap = {} /\ rec' \in Record
      BY <3>1, <3>2 DEF Idle, NoPush, Record, Of
    <3> QED BY <3>1, <3>3, <3>4
  <2> QED BY <2>1, <2>2
<1>5. Typed'
  BY <1>1, <1>2, <1>4 DEF IInv, Typed, Entry, Of
<1>6. RequestsOK'
  BY <1>1 DEF RequestsOK
<1>7. RecOK'
  BY <1>1, <1>2, <1>4 DEF IInv, RecOK, Typed, Entry, Of, NoPush
<1>8. RemapOK'
  BY <1>4 DEF RemapOK
<1>9. \A k : ~Adding(k)' /\ ~Unheard(k)'
  BY <1>1, <1>4 DEF Adding, Unheard, NoPush
<1>10. FreshOK'
  BY <1>4, <1>9 DEF FreshOK
<1>11. OneEach'
  <2>1. \A k : Kept(k)' => Kept(k)
    BY <1>4, <1>9 DEF Kept
  <2> QED BY <1>1, <1>9, <2>1 DEF IInv, OneEach, Entry
<1>12. AgentDown'
  BY <1>1 DEF AgentDown
<1>13. Stored'
  BY <1>1, <1>4 DEF Stored, Of
<1>14. Served' /\ Switches'
  <2>1. rec'.push.ans # "ok"
    BY <1>4 DEF NoPush
  <2> QED BY <1>1, <1>2, <1>9, <2>1 DEF Served, NewServed, Recorded, RemovesDone, Switches, NewAreOn,
    SwitchesDone, PushInStep
<1> QED BY <1>1, <1>2, <1>3, <1>4, <1>5, <1>6, <1>7, <1>8, <1>10, <1>11, <1>12, <1>13, <1>14, WantedFrame,
           ViewsFrame DEF IInv

LEMMA PushKeeps ==
  ASSUME IInv, NEW i \in rec.todo, Push(i)
  PROVE  IInv'
<1>1. /\ rec.push = NoPush /\ rec.push.ans # "ok"
      /\ rec' = [rec EXCEPT !.push = [id |-> i, ans |-> IF up THEN "sent" ELSE "error", new |-> 0]]
      /\ UNCHANGED <<run, up, made, agent, off, store, storeOff, calls, asked, shown, views, wanted, slips>>
  BY DEF Push, theAgent, theStore, renderer, history, NoPush
<1>2. i \in Nat
  BY EntryType DEF IInv, Typed
<1>3. /\ rec'.phase = rec.phase /\ rec'.todo = rec.todo /\ rec'.remap = rec.remap
      /\ rec'.push.id = i /\ rec'.push.ans \in {"sent", "error"} /\ rec' \in Record
  BY <1>1, <1>2 DEF IInv, Typed, Record
<1>4. Grows
  BY <1>1, GrowsWhenSame DEF IInv
<1>5. Typed'
  BY <1>1, <1>3 DEF IInv, Typed, Entry, Of
<1>6. RequestsOK'
  BY <1>1 DEF IInv, RequestsOK, RequestOK, Entry
<1>7. RecOK'
  BY <1>1, <1>3 DEF IInv, RecOK, Entry, Of, NoPush
<1>8. RemapOK'
  BY <1>1, <1>3 DEF IInv, RemapOK, Entry, Of
<1>9. \A k : /\ (Adding(k)' <=> Adding(k)) /\ (Removed(k)' <=> Removed(k)) /\ (Switched(k)' <=> Switched(k))
             /\ Unheard(k)' <=> Unheard(k)
  BY <1>1, <1>3 DEF Adding, Removed, Switched, Unheard
<1>10. FreshOK' /\ OneEach' /\ AgentDown'
  BY <1>1, <1>3, <1>9 DEF IInv, FreshOK, OneEach, AgentDown, Kept, Entry
<1>11. Stored' /\ Served'
  BY <1>1, <1>3, <1>9 DEF IInv, Stored, Served, NewServed, Recorded, RemovesDone, Entry, Lapsed, Doubled
<1>12. Switches'
  BY <1>1, <1>3, <1>9 DEF IInv, Switches, InStep, NewAreOn, SwitchesDone, PushInStep, Entry, Lapsed, Muted
<1> QED BY <1>1, <1>3, <1>4, <1>5, <1>6, <1>7, <1>8, <1>10, <1>11, <1>12, WantedFrame, ViewsFrame DEF IInv

LEMMA RecordParts ==
  ASSUME Typed
  PROVE  /\ rec = [phase |-> rec.phase, todo |-> rec.todo, push |-> rec.push, remap |-> rec.remap]
         /\ rec.phase \in {"idle", "monitors", "watches"} /\ rec.todo \subseteq Nat
         /\ rec.push.ans \in {"none", "sent", "ok", "error"} /\ rec.remap \subseteq Nat \X Nat
         /\ rec.push.id \in Nat /\ rec.push.new \in Nat
BY DEF Typed, Record

LEMMA PushDoneKeeps ==
  ASSUME IInv, PushDone
  PROVE  IInv'
<1>0. PICK old, new : old = rec.push.id /\ new = rec.push.new
  OBVIOUS
<1>1. /\ rec.push.ans = "ok" /\ old = rec.push.id /\ new = rec.push.new /\ store' = store \cup {new}
      /\ storeOff' = (storeOff \ {old}) \cup (IF old \in storeOff THEN {new} ELSE {})
      /\ UNCHANGED <<run, up, made, agent, off, calls, asked, shown, views, wanted, slips>>
  BY <1>0 DEF PushDone, theAgent, renderer, history
<1>2. /\ old \in rec.todo /\ old \in Entry /\ old \notin store /\ new \in Entry /\ made[new] = made[old]
      /\ Unheard(new) /\ ~Adding(new) /\ rec.phase # "idle" /\ old \in Nat /\ new \in Nat
      /\ \A k \in rec.todo : ~Adding(k)
  BY <1>1, EntryType DEF IInv, Typed, RecOK, NoPush, FreshOK, Unheard
<1>3. /\ new \notin store \cup rec.todo \cup shown \cup views /\ new \notin storeOff
      /\ \A c \in calls : c.id = new => c.op = "pause"
      /\ \A p \in rec.remap : p[1] # new /\ p[2] # new
  <2>1. \A c \in calls : c.id = new => c.op \in {"add", "pause"}
    BY <1>2 DEF IInv, FreshOK
  <2>2. \A c \in calls : c.op = "add" => c.id # new
    BY <1>2, EntryType DEF IInv, Adding, RequestsOK, RequestOK
  <2> QED BY <1>2, <2>1, <2>2 DEF IInv, FreshOK, RecOK
<1>4. /\ rec'.phase = rec.phase /\ rec'.todo = rec.todo \ {old} /\ rec'.push = NoPush
      /\ rec'.remap = IF rec.phase = "watches" THEN rec.remap \cup {<<old, new>>} ELSE rec.remap
      /\ rec' \in Record
  <2>1. rec' = [rec EXCEPT !.todo = @ \ {old}, !.push = NoPush,
                  !.remap = IF rec.phase = "watches" THEN @ \cup {<<old, new>>} ELSE @]
    BY <1>0 DEF PushDone
  <2>2. rec' = [phase |-> rec.phase, todo |-> rec.todo \ {old}, push |-> NoPush,
                remap |-> IF rec.phase = "watches" THEN rec.remap \cup {<<old, new>>} ELSE rec.remap]
    BY <2>1, RecordParts DEF IInv, Typed, Record
  <2> QED BY <1>2, <2>2, RecordParts DEF IInv, Record, NoPush
<1>5. Grows
  BY <1>1, GrowsWhenSame DEF IInv
<1>6. \A k : /\ (Adding(k)' <=> Adding(k)) /\ (Removed(k)' <=> Removed(k)) /\ (Switched(k)' <=> Switched(k))
             /\ Unheard(k)' <=> Adding(k)
  BY <1>1, <1>4 DEF Adding, Removed, Switched, Unheard, NoPush
<1>7. Typed'
  <2>1. storeOff' \subseteq Of(Entry, Monitors)
    BY <1>1, <1>2 DEF IInv, Typed, Of
  <2> QED BY <1>1, <1>2, <1>4, <2>1 DEF IInv, Typed, Entry, Of
<1>8. RequestsOK'
  BY <1>1 DEF IInv, RequestsOK, RequestOK, Entry
<1>9. RecOK'
  BY <1>1, <1>2, <1>3, <1>4 DEF IInv, RecOK, Entry, Of, NoPush
<1>10. RemapOK'
  <2>1. CASE rec.phase # "watches"
    <3>1. rec.remap = {}
      BY <2>1, RecordParts DEF IInv, RecOK
    <3> QED BY <1>4, <2>1, <3>1 DEF RemapOK
  <2>2. CASE rec.phase = "watches"
    <3>1. made[old] \in Watches /\ made[old] \notin Monitors
      BY <1>2, <2>2, ReconcileAssumption DEF IInv, RecOK, Of
    <3>2. \A c \in calls : c.id # new
      BY <1>2, <1>3, <3>1 DEF IInv, RequestsOK, RequestOK
    <3>3. ASSUME NEW p \in rec.remap
          PROVE  /\ p[1] \in Of(Entry, Watches) /\ p[2] \in Entry /\ made[p[1]] = made[p[2]]
                 /\ p[1] \notin store' \cup rec'.todo /\ p[2] \notin rec'.todo \cup views
                 /\ (\A c \in calls : c.id # p[2]) /\ p[1] # old
      BY <1>1, <1>2, <1>3, <1>4 DEF IInv, RemapOK
    <3>4. ASSUME NEW p, p = <<old, new>>
          PROVE  /\ p[1] \in Of(Entry, Watches) /\ p[2] \in Entry /\ made[p[1]] = made[p[2]]
                 /\ p[1] \notin store' \cup rec'.todo /\ p[2] \notin rec'.todo \cup views
                 /\ (\A c \in calls : c.id # p[2]) /\ p[1] = old
      BY <1>1, <1>2, <1>3, <1>4, <3>1, <3>2, <3>4 DEF Of
    <3>5. rec'.remap = rec.remap \cup {<<old, new>>}
      BY <1>4, <2>2
    <3>6. \A p, q \in rec'.remap : p[1] = q[1] => p = q
      BY <3>3, <3>4, <3>5 DEF IInv, RemapOK
    <3> QED BY <1>1, <3>3, <3>4, <3>5, <3>6 DEF RemapOK, Entry, Of
  <2> QED BY <2>1, <2>2
<1>11. FreshOK'
  <2>1. ASSUME NEW k \in Entry, Adding(k)
        PROVE  /\ k # old /\ k # new /\ k \notin store \cup rec.todo \cup shown \cup views
               /\ \A c \in calls : c.id = k => c.op \in {"add", "pause"}
               /\ \A p \in rec.remap : p[1] # k /\ p[2] # k
    BY <1>2, <2>1 DEF IInv, FreshOK, Unheard
  <2>2. \A p \in rec'.remap : p \in rec.remap \/ (p[1] = old /\ p[2] = new)
    BY <1>4
  <2>3. rec'.push.ans # "ok"
    BY <1>4 DEF NoPush
  <2> QED BY <1>1, <1>4, <1>6, <2>1, <2>2, <2>3 DEF FreshOK, Entry
<1>12. OneEach'
  <2>1. \A k \in Entry : Kept(k)' => (Kept(k) /\ k # old) \/ k = new
    BY <1>1, <1>2, <1>4, <1>6 DEF Kept
  <2>2. \A k \in Entry : Kept(k) /\ k # old => made[k] # made[new]
    BY <1>2 DEF IInv, OneEach, Kept
  <2> QED BY <1>1, <1>6, <2>1, <2>2 DEF IInv, OneEach, Entry
<1>13. AgentDown'
  BY <1>1 DEF IInv, AgentDown, Entry
<1>14. Stored'
  BY <1>1, <1>2, <1>4, <1>6 DEF IInv, Stored, Served, NewServed, Lapsed
<1>15. Served'
  BY <1>1, <1>2, <1>4, <1>6 DEF IInv, Served, NewServed, Recorded, RemovesDone, Unheard, Lapsed, Doubled,
    Entry
<1>16. Switches'
  <2> SUFFICES ASSUME up PROVE Switches'
    BY <1>1 DEF Switches
  <2>1. InStep(new)'
    <3>1. (new \in storeOff') <=> (old \in storeOff)
      BY <1>1, <1>2, <1>3
    <3> QED BY <1>1, <3>1 DEF IInv, Switches, PushInStep, InStep, Muted
  <2>2. ASSUME NEW k \in store \cap agent PROVE InStep(k)'
    <3>1. (k \in storeOff') <=> (k \in storeOff)
      BY <1>1, <1>2, <1>3
    <3> QED BY <1>1, <1>6, <3>1 DEF IInv, Switches, InStep, Lapsed, Muted
  <2>3. NewAreOn' /\ SwitchesDone'
    BY <1>1, <1>6 DEF IInv, Switches, NewAreOn, SwitchesDone, Entry
  <2>4. PushInStep'
    BY <1>4 DEF PushInStep, NoPush
  <2> QED BY <1>1, <2>1, <2>2, <2>3, <2>4 DEF Switches
<1>17. WantedOK'
  <2>1. \A k \in store' \cup rec'.todo : (k \in store \cup rec.todo /\ k # old) \/ k = new
    BY <1>1, <1>2, <1>4
  <2>2. \A k \in store \cup rec.todo : k # old => k \in store' \cup rec'.todo
    BY <1>1, <1>4
  <2> QED BY <1>1, <1>2, <2>1, <2>2 DEF IInv, WantedOK, Excused
<1>18. ViewsOK'
  <2>1. RemapOK /\ \A v \in views : v \in Entry /\ Rekey(v) \in Entry /\ made[Rekey(v)] = made[v]
    BY RekeyKeepsItem DEF IInv, Typed, Of
  <2>2. \A k \in Entry : Excused(made[k])' <=> Excused(made[k])
    BY <1>1 DEF Excused
  <2>3. \A k \in Of(store \cup rec.todo, Watches)' :
          k \in Entry /\ made[k] \in Watches /\ ((k \in store \cup rec.todo /\ k # old) \/ k = new)
    BY <1>1, <1>2, <1>4 DEF IInv, Typed, Of
  <2>4. CASE rec.phase # "watches"
    <3>1. made[old] \in Monitors /\ made[old] \notin Watches
      BY <1>2, <2>4, RecordParts, ReconcileAssumption DEF IInv, RecOK, Of
    <3>2. \A v : Rekey(v)' = Rekey(v)
      BY <1>4, <2>4 DEF Rekey
    <3>3. \A v \in views : made[v] \in Watches /\ Rekey(v) # old
      BY <2>1, <3>1 DEF IInv, Typed, Of
    <3>4. \A v \in views' : Rekey(v)' \in store' \cup rec'.todo \/ Excused(made[v])'
      BY <1>1, <1>4, <2>1, <2>2, <3>2, <3>3 DEF IInv, ViewsOK
    <3>5. ASSUME NEW k \in Of(store \cup rec.todo, Watches)'
          PROVE  (\E v \in views' : Rekey(v)' = k) \/ Excused(made[k])'
      <4>1. k \in Of(store \cup rec.todo, Watches) /\ k \in Entry
        BY <1>2, <2>3, <3>1 DEF Of
      <4> QED BY <1>1, <2>2, <3>2, <4>1 DEF IInv, ViewsOK
    <3> QED BY <3>4, <3>5 DEF ViewsOK
  <2>5. CASE rec.phase = "watches"
    <3>1. rec'.remap = rec.remap \cup {<<old, new>>} /\ RemapOK'
      BY <1>4, <1>10, <2>5
    <3>2. Rekey(old)' = new
      <4>1. \A p \in rec'.remap : p[1] = old => p = <<old, new>>
        BY <3>1 DEF RemapOK
      <4>2. (CHOOSE p \in rec'.remap : p[1] = old) = <<old, new>>
        BY <3>1, <4>1
      <4>3. <<old, new>> \in rec'.remap /\ <<old, new>>[1] = old /\ <<old, new>>[2] = new
        BY <3>1
      <4>4. \E p \in rec'.remap : p[1] = old
        BY <4>3
      <4> QED BY <4>2, <4>3, <4>4 DEF Rekey
    <3>3. ASSUME NEW v, v # old PROVE Rekey(v)' = Rekey(v)
      <4>1. CASE \E p \in rec.remap : p[1] = v
        <5>1. PICK p \in rec.remap : p[1] = v
          BY <4>1
        <5>2. \A q \in rec'.remap : q[1] = v => q = p
          BY <3>1, <5>1 DEF RemapOK
        <5>3. (CHOOSE q \in rec'.remap : q[1] = v) = p
          BY <3>1, <5>1, <5>2
        <5>4. Rekey(v)' = p[2]
          BY <3>1, <5>1, <5>3 DEF Rekey
        <5> QED BY <2>1, <5>1, <5>4, RekeyValue
      <4>2. CASE \A p \in rec.remap : p[1] # v
        <5>1. \A p \in rec'.remap : p[1] # v
          BY <3>1, <3>3, <4>2
        <5> QED BY <4>2, <5>1 DEF Rekey
      <4> QED BY <4>1, <4>2
    <3>4. Rekey(old) = old /\ \A v : v # old => Rekey(v) # old \/ v \notin views
      <4>1. \A p \in rec.remap : p[1] # old /\ p[2] # old
        BY <1>2, <2>1 DEF RemapOK
      <4> QED BY <2>1, <4>1, RekeyValue
    <3>5. ASSUME NEW v \in views'
          PROVE  Rekey(v)' \in store' \cup rec'.todo \/ Excused(made[v])'
      <4>1. v \in views /\ v \in Entry
        BY <1>1, <2>1
      <4>2. CASE v = old
        BY <1>1, <3>2, <4>2
      <4>3. CASE v # old
        BY <1>1, <1>4, <2>2, <3>3, <3>4, <4>1, <4>3 DEF IInv, ViewsOK
      <4> QED BY <4>2, <4>3
    <3>6. ASSUME NEW k \in Of(store \cup rec.todo, Watches)'
          PROVE  (\E v \in views' : Rekey(v)' = k) \/ Excused(made[k])'
      <4>1. k \in Entry /\ made[k] \in Watches
        BY <2>3
      <4>2. CASE k = new
        <5>1. old \in Of(store \cup rec.todo, Watches)
          BY <1>2, <4>1, <4>2 DEF Of
        <5>2. (\E v \in views : Rekey(v) = old) \/ Excused(made[old])
          BY <5>1 DEF IInv, ViewsOK
        <5>3. old \in views \/ Excused(made[new])
          BY <1>2, <3>4, <5>2
        <5> QED BY <1>1, <2>2, <3>2, <4>1, <4>2, <5>3
      <4>3. CASE k # new
        <5>1. k \in Of(store \cup rec.todo, Watches) /\ k # old
          BY <2>3, <4>1, <4>3 DEF Of
        <5>2. (\E v \in views : Rekey(v) = k /\ v # old) \/ Excused(made[k])
          BY <3>4, <5>1 DEF IInv, ViewsOK
        <5> QED BY <1>1, <2>2, <3>3, <4>1, <5>2
      <4> QED BY <4>2, <4>3
    <3> QED BY <3>5, <3>6 DEF ViewsOK
  <2> QED BY <2>4, <2>5
<1> QED BY <1>7, <1>8, <1>9, <1>10, <1>11, <1>12, <1>13, <1>14, <1>15, <1>16, <1>17, <1>18 DEF IInv

LEMMA PushFailsKeeps ==
  ASSUME IInv, PushFails
  PROVE  IInv'
<1>0. PICK old, new : old = rec.push.id /\ new = rec.push.new
  OBVIOUS
<1>1. /\ rec.push # NoPush /\ storeOff' = storeOff \ {old} /\ slips \subseteq slips'
      /\ <<"lost", made[old]>> \in slips' /\ (rec.push.ans = "ok" => <<"lapsed", new>> \in slips')
      /\ UNCHANGED <<run, up, made, agent, off, store, calls, asked, shown, views, wanted>>
  BY <1>0 DEF PushFails, theAgent, renderer
<1>2. /\ old \in rec.todo /\ old \in Entry /\ old \notin store
  BY <1>0, <1>1 DEF IInv, Typed, RecOK
<1>3. /\ rec'.phase = rec.phase /\ rec'.todo = rec.todo \ {old} /\ rec'.push = NoPush
      /\ rec'.remap = rec.remap /\ rec' \in Record
  <2>1. rec' = [rec EXCEPT !.todo = @ \ {old}, !.push = NoPush]
    BY <1>0 DEF PushFails, PushOver
  <2>2. rec' = [phase |-> rec.phase, todo |-> rec.todo \ {old}, push |-> NoPush, remap |-> rec.remap]
    BY <2>1, RecordParts DEF IInv, Typed, Record
  <2> QED BY <2>2, RecordParts DEF IInv, Record, NoPush
<1>4. Grows
  BY <1>1, GrowsWhenSame DEF IInv
<1>5. \A k : /\ (Adding(k)' <=> Adding(k)) /\ (Removed(k)' <=> Removed(k)) /\ (Switched(k)' <=> Switched(k))
             /\ (Unheard(k)' => Unheard(k)) /\ (Unheard(k) => Unheard(k)' \/ Lapsed(k)')
             /\ (Lapsed(k) => Lapsed(k)') /\ (Doubled(k) => Doubled(k)') /\ (Muted(k) => Muted(k)')
  BY <1>0, <1>1, <1>3 DEF Adding, Removed, Switched, Unheard, Lapsed, Doubled, Muted, NoPush
<1>6. rec'.push.ans # "ok"
  BY <1>3 DEF NoPush
<1>7. Typed'
  BY <1>1, <1>2, <1>3 DEF IInv, Typed, Entry, Of
<1>8. RequestsOK'
  BY <1>1 DEF IInv, RequestsOK, RequestOK, Entry
<1>9. RecOK'
  BY <1>1, <1>2, <1>3, <1>6 DEF IInv, RecOK, Entry, Of
<1>10. RemapOK'
  BY <1>1, <1>3 DEF IInv, RemapOK, Entry, Of
<1>11. FreshOK'
  BY <1>1, <1>3, <1>5, <1>6 DEF IInv, FreshOK, Entry
<1>12. OneEach' /\ AgentDown'
  BY <1>1, <1>3, <1>5 DEF IInv, OneEach, AgentDown, Kept, Entry
<1>13. Stored'
  BY <1>1, <1>3, <1>5 DEF IInv, Stored
<1>14. Served'
  BY <1>1, <1>5 DEF IInv, Served, NewServed, Recorded, RemovesDone, Entry
<1>15. Switches'
  BY <1>1, <1>2, <1>5, <1>6 DEF IInv, Switches, InStep, NewAreOn, SwitchesDone, PushInStep, Entry
<1>16. (\A i : Excused(i) => Excused(i)') /\ Excused(made[old])'
  BY <1>1 DEF Excused
<1>17. WantedOK'
  BY <1>1, <1>3, <1>16 DEF IInv, WantedOK
<1>18. ViewsOK'
  <2>1. \A v : Rekey(v)' = Rekey(v)
    BY <1>3 DEF Rekey
  <2>2. \A v \in views : made[Rekey(v)] = made[v]
    BY RekeyKeepsItem DEF IInv, Typed, Of
  <2>3. ASSUME NEW v \in views' PROVE Rekey(v)' \in store' \cup rec'.todo \/ Excused(made[v])'
    BY <1>1, <1>3, <1>16, <2>1, <2>2 DEF IInv, ViewsOK
  <2>4. ASSUME NEW k \in Of(store \cup rec.todo, Watches)'
        PROVE  (\E v \in views' : Rekey(v)' = k) \/ Excused(made[k])'
    <3>1. k \in Of(store \cup rec.todo, Watches)
      BY <1>1, <1>3 DEF Of
    <3> QED BY <1>1, <1>16, <2>1, <3>1 DEF IInv, ViewsOK
  <2> QED BY <2>3, <2>4 DEF ViewsOK
<1> QED BY <1>7, <1>8, <1>9, <1>10, <1>11, <1>12, <1>13, <1>14, <1>15, <1>17, <1>18 DEF IInv

LEMMA WatchesNextKeeps ==
  ASSUME IInv, WatchesNext
  PROVE  IInv'
<1>1. /\ rec.phase = "monitors" /\ rec.todo = {} /\ store' = Of(store, Monitors)
      /\ rec' = [rec EXCEPT !.phase = "watches", !.todo = Of(store, Watches)]
      /\ slips \subseteq slips' /\ \A k \in Of(store \cap agent, Watches) : Doubled(k)'
      /\ UNCHANGED <<run, up, made, agent, off, storeOff, calls, asked, shown, views, wanted>>
  BY DEF WatchesNext, theAgent, renderer, Slip, Doubled
<1>2. rec.push = NoPush /\ rec.remap = {}
  BY <1>1 DEF IInv, RecOK
<1>3. \A k \in store : k \in Entry /\ k \in Nat /\ made[k] \in Monitors \cup Watches
  BY EntryType DEF IInv, Typed, Items
<1>4. /\ rec'.phase = "watches" /\ rec'.todo = Of(store, Watches) /\ rec'.push = NoPush
      /\ rec'.remap = {} /\ rec' \in Record
  BY <1>1, <1>2, <1>3, RecordParts DEF IInv, Typed, Record, Of
<1>5. store' \cup rec'.todo = store /\ store' \cap rec'.todo = {}
  BY <1>1, <1>3, <1>4, ReconcileAssumption DEF Of
<1>6. Grows
  BY <1>1, GrowsWhenSame DEF IInv
<1>7. \A k : /\ (Adding(k)' <=> Adding(k)) /\ (Removed(k)' <=> Removed(k)) /\ (Switched(k)' <=> Switched(k))
             /\ (Unheard(k)' <=> Unheard(k))
             /\ (Lapsed(k) => Lapsed(k)') /\ (Doubled(k) => Doubled(k)') /\ (Muted(k) => Muted(k)')
  BY <1>1, <1>2, <1>4 DEF Adding, Removed, Switched, Unheard, Lapsed, Doubled, Muted
<1>8. rec'.push.ans # "ok"
  BY <1>4 DEF NoPush
<1>9. Typed'
  BY <1>1, <1>3, <1>4 DEF IInv, Typed, Entry, Of
<1>10. RequestsOK'
  BY <1>1 DEF IInv, RequestsOK, RequestOK, Entry
<1>11. RecOK'
  BY <1>1, <1>3, <1>4, <1>5, <1>8 DEF IInv, RecOK, Entry, Of
<1>12. RemapOK'
  BY <1>4 DEF RemapOK
<1>13. FreshOK'
  BY <1>1, <1>4, <1>5, <1>7, <1>8 DEF IInv, FreshOK, Entry
<1>14. OneEach' /\ AgentDown'
  BY <1>1, <1>5, <1>7 DEF IInv, OneEach, AgentDown, Kept, Entry
<1>15. Stored'
  <2>1. \A k \in Of(store, Monitors) : k \in store /\ made[k] \notin Watches
    BY ReconcileAssumption DEF Of
  <2> QED BY <1>1, <1>7, <2>1 DEF IInv, Stored
<1>16. Served'
  <2>1. \A k \in store : k \in agent => k \in store' \/ Doubled(k)'
    BY <1>1, <1>3 DEF Of
  <2> QED BY <1>1, <1>7, <2>1 DEF IInv, Served, NewServed, Recorded, RemovesDone, Entry
<1>17. Switches'
  BY <1>1, <1>7, <1>8 DEF IInv, Switches, InStep, NewAreOn, SwitchesDone, PushInStep, Entry, Of
<1> QED BY <1>1, <1>2, <1>4, <1>5, <1>6, <1>9, <1>10, <1>11, <1>12, <1>13, <1>14, <1>15, <1>16, <1>17,
           WantedFrame, ViewsFrame DEF IInv

LEMMA ReconciledKeeps ==
  ASSUME IInv, Reconciled
  PROVE  IInv'
<1>1. /\ rec.phase = "watches" /\ rec.todo = {} /\ rec' = Idle /\ views' = {Rekey(v) : v \in views}
      /\ UNCHANGED <<run, up, made, agent, off, store, storeOff, calls, asked, shown, wanted, slips>>
  BY DEF Reconciled, theAgent, theStore, history
<1>2. /\ rec.push = NoPush
      /\ rec'.phase = "idle" /\ rec'.todo = {} /\ rec'.push = NoPush /\ rec'.remap = {}
      /\ rec'.push.ans # "ok" /\ rec.push.ans # "ok" /\ rec' \in Record
  BY <1>1 DEF IInv, RecOK, Idle, NoPush, Record
<1>3. \A v \in views : v \in Entry /\ Rekey(v) \in Entry /\ made[Rekey(v)] = made[v] /\ made[v] \in Watches
  BY RekeyKeepsItem DEF IInv, Typed, Of
<1>4. Grows
  BY <1>1, GrowsWhenSame DEF IInv
<1>5. \A k : /\ (Adding(k)' <=> Adding(k)) /\ (Removed(k)' <=> Removed(k)) /\ (Switched(k)' <=> Switched(k))
             /\ (Unheard(k)' <=> Unheard(k)) /\ (Kept(k)' <=> Kept(k)) /\ (Excused(k)' <=> Excused(k))
  BY <1>1, <1>2 DEF Adding, Removed, Switched, Unheard, Kept, Excused
<1>6. Typed'
  <2>1. views' \subseteq Of(Entry, Watches)'
    BY <1>1, <1>3 DEF Of, Entry
  <2> QED BY <1>1, <1>2, <2>1 DEF IInv, Typed, Entry, Of
<1>7. RequestsOK'
  BY <1>1 DEF IInv, RequestsOK, RequestOK, Entry
<1>8. RecOK'
  BY <1>1, <1>2 DEF IInv, RecOK
<1>9. RemapOK'
  BY <1>2 DEF RemapOK
<1>10. \A v \in views : Rekey(v) \in views \/ \E p \in rec.remap : p[2] = Rekey(v)
  BY RekeyValue DEF IInv
<1>11. FreshOK'
  BY <1>1, <1>2, <1>5, <1>10 DEF IInv, FreshOK, Entry
<1>12. OneEach'
  BY <1>1, <1>3, <1>5 DEF IInv, OneEach, Entry
<1>13. AgentDown' /\ Stored' /\ Served'
  BY <1>1, <1>2, <1>5 DEF IInv, AgentDown, Stored, Served, NewServed, Recorded, RemovesDone, Entry, Lapsed, Doubled
<1>14. Switches'
  BY <1>1, <1>2, <1>5 DEF IInv, Switches, InStep, NewAreOn, SwitchesDone, PushInStep, Entry, Lapsed, Muted
<1>15. ViewsOK'
  <2>1. \A v : Rekey(v)' = v
    BY <1>2 DEF Rekey
  <2>2. ASSUME NEW w \in views' PROVE Rekey(w)' \in store' \cup rec'.todo \/ Excused(made[w])'
    BY <1>1, <1>2, <1>3, <1>5, <2>1 DEF IInv, ViewsOK
  <2>3. ASSUME NEW k \in Of(store \cup rec.todo, Watches)'
        PROVE  (\E v \in views' : Rekey(v)' = k) \/ Excused(made[k])'
    <3>1. k \in Of(store \cup rec.todo, Watches)
      BY <1>1, <1>2, <2>3 DEF Of
    <3> QED BY <1>1, <1>5, <2>1, <3>1 DEF IInv, ViewsOK
  <2> QED BY <2>2, <2>3 DEF ViewsOK
<1> QED BY <1>1, <1>2, <1>4, <1>6, <1>7, <1>8, <1>9, <1>11, <1>12, <1>13, <1>14, <1>15, WantedFrame DEF IInv

-----------------------------------------------------------------------------
(* The invariant is one. *)

LEMMA AsksKeep ==
  ASSUME IInv, Asks
  PROVE  IInv'
<1>1. ASSUME NEW i \in Items \ {made[k] : k \in DOMAIN made}, Ask("add", i, 0)
      PROVE  IInv'
  <2>1. \A k \in Entry : made[k] # i
    BY DEF Entry
  <2> QED BY <1>1, <2>1, AskKeeps
<1>2. ASSUME NEW m \in shown, NEW op \in {"on", "off", "remove"}, Ask(op, made[m], m)
      PROVE  IInv'
  BY <1>2, AskKeeps
<1>3. ASSUME NEW v \in views, Ask("remove", made[v], v)
      PROVE  IInv'
  BY <1>3, AskKeeps
<1> QED BY <1>1, <1>2, <1>3 DEF Asks

LEMMA InitIInv == Init => IInv
<1> SUFFICES ASSUME Init PROVE IInv
  OBVIOUS
<1>1. /\ run = 0 /\ up = FALSE /\ made = <<>> /\ agent = {} /\ off = {} /\ store = {} /\ storeOff = {}
      /\ rec = Idle /\ calls = {} /\ asked = 0 /\ shown = {} /\ views = {} /\ wanted = {} /\ slips = {}
  BY DEF Init
<1>2. /\ rec.phase = "idle" /\ rec.todo = {} /\ rec.push = NoPush /\ rec.push.ans = "none" /\ rec.remap = {}
      /\ rec \in Record
  BY <1>1 DEF Idle, NoPush, Record
<1>3. Entry = {} /\ made \in Seq(Items) /\ Len(made) = 0
  BY <1>1 DEF Entry
<1>4. Typed
  <2>1. 0 \in 0 .. MaxRuns /\ 0 \in 0 .. MaxCalls /\ 0 <= MaxIds
    BY ReconcileAssumption
  <2>2. \A kind : Of({}, kind) = {}
    BY DEF Of
  <2> QED BY <1>1, <1>2, <1>3, <2>1, <2>2 DEF Typed
<1>5. RequestsOK /\ RecOK /\ RemapOK
  BY <1>1, <1>2, <1>3 DEF RequestsOK, RecOK, RemapOK
<1>6. FreshOK /\ OneEach /\ AgentDown /\ Stored /\ Served /\ Switches
  BY <1>1, <1>2, <1>3 DEF FreshOK, OneEach, AgentDown, Stored, Served, Switches
<1>7. WantedOK /\ ViewsOK
  BY <1>1, <1>2 DEF WantedOK, ViewsOK, Of
<1> QED BY <1>4, <1>5, <1>6, <1>7 DEF IInv

LEMMA SameIInv ==
  ASSUME IInv, UNCHANGED vars
  PROVE  IInv'
<1>1. UNCHANGED <<run, up, made, agent, off, store, storeOff, rec, calls, asked, shown, views, wanted, slips>>
  BY DEF vars
<1>2. Grows
  BY <1>1, GrowsWhenSame DEF IInv
<1>3. Typed' /\ RequestsOK' /\ RecOK' /\ RemapOK'
  BY <1>1 DEF IInv, Typed, RequestsOK, RequestOK, RecOK, RemapOK, Entry, Of
<1>4. FreshOK' /\ OneEach'
  BY <1>1 DEF IInv, FreshOK, OneEach, Unheard, Kept, Adding, Entry
<1>5. AgentDown' /\ Stored' /\ Served'
  BY <1>1 DEF IInv, AgentDown, Stored, Served, NewServed, Recorded, RemovesDone, Unheard, Adding, Removed,
    Lapsed, Doubled, Entry
<1>6. Switches'
  BY <1>1 DEF IInv, Switches, InStep, NewAreOn, SwitchesDone, PushInStep, Adding, Switched, Lapsed, Muted, Entry
<1> QED BY <1>1, <1>2, <1>3, <1>4, <1>5, <1>6, WantedFrame, ViewsFrame DEF IInv

LEMMA NextIInv == IInv /\ [Next]_vars => IInv'
<1> SUFFICES ASSUME IInv, [Next]_vars PROVE IInv'
  OBVIOUS
<1>1. CASE Running \/ Crash \/ \E i \in rec.todo : Push(i)
  BY <1>1, RunningKeeps, CrashKeeps, PushKeeps
<1>2. CASE ServePush \/ PushDone \/ PushFails \/ WatchesNext \/ Reconciled
  BY <1>2, ServePushKeeps, PushDoneKeeps, PushFailsKeeps, WatchesNextKeeps, ReconciledKeeps
<1>3. CASE Asks \/ PauseAll \/ Refresh
  BY <1>3, AsksKeep, PauseAllKeeps, RefreshKeeps
<1>4. CASE \E c \in calls : Serve(c) \/ Hear(c)
  BY <1>4, ServeKeeps, HearKeeps
<1>5. CASE UNCHANGED vars
  BY <1>5, SameIInv
<1> QED BY <1>1, <1>2, <1>3, <1>4, <1>5 DEF Next

LEMMA Invariant == Spec => []IInv
BY InitIInv, NextIInv, PTL DEF Spec

-----------------------------------------------------------------------------
(* The theorems. *)

\* Every id anybody holds is one an agent has handed out, and a request is
\* about such an id: no step of Main, the agent or the renderer makes one up.
THEOREM TypeCorrect == Spec => []TypeOK
<1>1. IInv => TypeOK
  <2> SUFFICES ASSUME IInv PROVE TypeOK
    OBVIOUS
  <2>1. agent \cup store \cup storeOff \cup shown \cup views \cup rec.todo \subseteq Entry
    BY DEF IInv, Typed, Of
  <2>2. rec.phase \in {"idle", "monitors", "watches"} /\ rec.remap \subseteq Entry \X Entry
    <3>1. \A p \in rec.remap : p \in Nat \X Nat /\ p[1] \in Entry /\ p[2] \in Entry
      BY RecordParts DEF IInv, RemapOK, Of
    <3> QED BY <3>1, RecordParts DEF IInv
  <2>3. \A c \in calls : c.id \in Entry \cup {0} /\ c.item \in Items
    BY EntryType DEF IInv, RequestsOK, RequestOK, Call
  <2> QED BY <2>1, <2>2, <2>3 DEF IInv, Typed, RecOK, TypeOK
<1> QED BY <1>1, Invariant, PTL

\* What the invariant says when nothing is on its way.
LEMMA WhenQuiet ==
  ASSUME IInv, Quiet
  PROVE  /\ up /\ calls = {} /\ rec.todo = {} /\ rec.remap = {}
         /\ \A k \in store : k \in agent \/ Lapsed(k)
         /\ \A k \in agent : k \in store \/ Lapsed(k) \/ Doubled(k)
         /\ \A k \in store \cap agent : (k \in storeOff <=> k \in off) \/ Lapsed(k) \/ Muted(k)
         /\ agent \cup store \subseteq Entry /\ storeOff \subseteq store
<1>1. up /\ calls = {} /\ rec.phase = "idle" /\ rec.todo = {} /\ rec.remap = {} /\ rec.push.ans # "ok"
  BY DEF Quiet, IInv, RecOK, NoPush
<1>2. \A k : ~Adding(k) /\ ~Removed(k) /\ ~Switched(k) /\ ~Unheard(k)
  BY <1>1 DEF Adding, Removed, Switched, Unheard
<1> QED BY <1>1, <1>2 DEF IInv, Typed, RecOK, Stored, Served, Recorded, Switches, InStep

LEMMA SlippedEntry ==
  ASSUME NEW k \in Entry
  PROVE  /\ Lapsed(k) => k \in Slipped("lapsed")
         /\ Doubled(k) => k \in Slipped("doubled")
         /\ Muted(k) => k \in Slipped("muted")
BY DEF Slipped, Entry, Lapsed, Doubled, Muted

LEMMA SlippedItem ==
  ASSUME NEW i \in Items, Excused(i)
  PROVE  i \in Slipped("lost") \cup Slipped("misdirected") \cup Slipped("abandoned")
BY DEF Slipped, Excused

\* After however many restarts, and with requests answered, lost or refused
\* in any order, the store lists what the agent serves, with its switches.
THEOREM StoreMirrors == Spec => []StoreMirrorsAgent
<1>1. IInv => StoreMirrorsAgent
  <2> SUFFICES ASSUME IInv, Quiet PROVE StoreMirrorsAgent
    BY DEF StoreMirrorsAgent
  <2>1. store \ Slipped("lapsed") \subseteq agent
    BY WhenQuiet, SlippedEntry
  <2>2. agent \ (Slipped("lapsed") \cup Slipped("doubled")) \subseteq store
    BY WhenQuiet, SlippedEntry
  <2>3. ASSUME NEW k \in (store \cap agent) \ (Slipped("lapsed") \cup Slipped("muted"))
        PROVE  k \in storeOff <=> k \in off
    BY WhenQuiet, SlippedEntry
  <2> QED BY <2>1, <2>2, <2>3 DEF StoreMirrorsAgent
<1> QED BY <1>1, Invariant, PTL

\* What the user added and has not removed is what the agent of the day
\* serves, for any number of agents that came and went.
THEOREM ConfigurationSurvives == Spec => []ConfigSurvives
<1>1. IInv => ConfigSurvives
  <2> SUFFICES ASSUME IInv, Quiet PROVE ConfigSurvives
    BY DEF ConfigSurvives
  <2> DEFINE served == {made[k] : k \in agent}
             unsure == Slipped("lost") \cup Slipped("misdirected") \cup Slipped("abandoned")
                         \cup {made[k] : k \in Slipped("lapsed") \cup Slipped("doubled")}
  <2>1. \A k \in Entry : made[k] \in Items
    BY EntryType DEF IInv
  <2>2. ASSUME NEW i \in wanted, i \notin unsure PROVE i \in served
    <3>1. ~Excused(i)
      BY <2>2, SlippedItem DEF IInv, Typed
    <3>2. PICK k \in store : made[k] = i
      BY <3>1, WhenQuiet DEF IInv, WantedOK
    <3>3. ~Lapsed(k)
      BY <2>2, <3>2, WhenQuiet, SlippedEntry
    <3> QED BY <3>2, <3>3, WhenQuiet
  <2>3. ASSUME NEW k \in agent, made[k] \notin unsure PROVE made[k] \in wanted
    <3>1. k \in store
      BY <2>3, WhenQuiet, SlippedEntry
    <3>2. ~Excused(made[k])
      BY <2>1, <2>3, WhenQuiet, SlippedItem
    <3> QED BY <3>1, <3>2 DEF IInv, WantedOK
  <2>4. wanted \ unsure = served \ unsure
    BY <2>2, <2>3
  <2> QED BY <2>4 DEF ConfigSurvives
<1> QED BY <1>1, Invariant, PTL

\* Every view of the renderer has its watch and every watch its view, under
\* the ids the latest agent handed out.
THEOREM ViewsFollowWatches == Spec => []ViewsFollow
<1>1. IInv => ViewsFollow
  <2> SUFFICES ASSUME IInv, Quiet PROVE ViewsFollow
    BY DEF ViewsFollow
  <2> DEFINE unsure == Slipped("lost") \cup Slipped("misdirected") \cup Slipped("abandoned")
             excused == {k \in Entry : made[k] \in unsure} \cup Slipped("lapsed") \cup Slipped("doubled")
  <2>1. \A v : Rekey(v) = v
    BY WhenQuiet DEF Rekey
  <2>2. \A k \in Entry : made[k] \in Items /\ (Excused(made[k]) => made[k] \in unsure)
    BY EntryType, SlippedItem DEF IInv
  <2>3. ASSUME NEW v \in views, v \notin excused PROVE v \in Of(agent, Watches)
    <3>1. v \in Entry /\ made[v] \in Watches
      BY DEF IInv, Typed, Of
    <3>2. ~Excused(made[v]) /\ ~Lapsed(v)
      BY <2>2, <2>3, <3>1, SlippedEntry
    <3>3. v \in store
      BY <2>1, <3>2, WhenQuiet DEF IInv, ViewsOK
    <3> QED BY <3>1, <3>2, <3>3, WhenQuiet DEF Of
  <2>4. ASSUME NEW k \in Of(agent, Watches), k \notin excused PROVE k \in views
    <3>1. k \in Entry /\ k \in agent /\ made[k] \in Watches
      BY WhenQuiet DEF Of
    <3>2. ~Excused(made[k]) /\ ~Lapsed(k) /\ ~Doubled(k)
      BY <2>2, <2>4, <3>1, SlippedEntry
    <3>3. k \in Of(store \cup rec.todo, Watches)
      BY <3>1, <3>2, WhenQuiet DEF Of
    <3> QED BY <2>1, <3>2, <3>3 DEF IInv, ViewsOK
  <2>5. views \ excused = Of(agent, Watches) \ excused
    BY <2>3, <2>4 DEF Of
  <2> QED BY <2>5 DEF ViewsFollow
<1> QED BY <1>1, Invariant, PTL
=============================================================================
