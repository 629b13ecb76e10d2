------------------------------- MODULE Reconcile -------------------------------
(***************************************************************************)
(* What the user configured, across restarts of the agent.  The agent      *)
(* forgets everything when it ends and hands out new ids; Main mirrors the *)
(* writes it passes on in AgentConfigStore and pushes them again to every  *)
(* agent after the first (reconcileAgentConfig); the renderer keeps a list *)
(* of monitors and one view per log watch under the ids it was told.       *)
(*                                                                         *)
(* A step of Main runs from one await to the next.  Requests travel, are   *)
(* served in any order and may time out; those of an agent that ended have *)
(* failed or answered long before the next one runs, and pushes of one     *)
(* reconciliation therefore never meet those of another.                   *)
(***************************************************************************)
EXTENDS Integers, FiniteSets, Sequences

CONSTANTS
  Monitors, Watches,  \* what the user may add: each once
  MaxRuns,            \* bound on the agents that start
  MaxIds,             \* bound on the ids they hand out
  MaxCalls            \* bound on the user's requests

ASSUME ReconcileAssumption ==
  Monitors \cap Watches = {} /\ {MaxRuns, MaxIds, MaxCalls} \subseteq Nat

Items == Monitors \cup Watches

VARIABLES
  run, up,         \* agents started; one of them is running, Main has its port
  made,            \* ids handed out, in order: the item each stands for
  agent, off,      \* ids the agent serves; monitors it has switched off
  store, storeOff, \* ids in AgentConfigStore; configurations that say off
  rec,             \* the reconciliation: phase, entries left, push, watchRemap
  calls, asked,    \* the user's pending requests; how many there were
  shown, views,    \* monitors and log views of the renderer, by id
  wanted,          \* history: items added and not removed, as the user saw it
  slips            \* history: <<kind, what>> of the ways out of the properties

vars == <<run, up, made, agent, off, store, storeOff, rec, calls, asked, shown,
          views, wanted, slips>>
theAgent == <<made, agent, off>>
theStore == <<store, storeOff>>
renderer == <<shown, views>>
history == <<wanted, slips>>

NoPush == [id |-> 0, ans |-> "none", new |-> 0]
Idle == [phase |-> "idle", todo |-> {}, push |-> NoPush, remap |-> {}]

Of(S, kind) == {i \in S : made[i] \in kind}
Slipped(kind) == {x \in Items \cup DOMAIN made : <<kind, x>> \in slips}
Slip(kind, S) == slips' = slips \cup {<<kind, x>> : x \in S}

Init ==
  /\ run = 0 /\ up = FALSE /\ made = <<>> /\ agent = {} /\ off = {}
  /\ store = {} /\ storeOff = {} /\ rec = Idle /\ calls = {} /\ asked = 0
  /\ shown = {} /\ views = {} /\ wanted = {} /\ slips = {}

(* Main has nothing left to do before its next await. *)
Settled == rec.phase = "idle" \/ rec.push # NoPush

-----------------------------------------------------------------------------
(* The agent. *)

(* POST /monitors and POST /watch: a new id for item i. *)
New == Len(made) + 1
Create(i, isOff) ==
  /\ New <= MaxIds /\ made' = Append(made, i) /\ agent' = agent \cup {New}
  /\ off' = IF isOff THEN off \cup {New} ELSE off

Answer(c, d) == calls' = (calls \ {c}) \cup {d}

ServeAdd(c) ==
  /\ c.op = "add"
  /\ \/ Create(c.item, FALSE) /\ Answer(c, [c EXCEPT !.id = New, !.ans = "ok"])
     \/ Answer(c, [c EXCEPT !.ans = "error"]) /\ UNCHANGED theAgent

ServePatch(c) ==
  /\ c.op \in {"on", "off", "pause"} /\ UNCHANGED <<made, agent>>
  /\ IF c.id \in agent
     THEN /\ off' = IF c.op = "on" THEN off \ {c.id} ELSE off \cup {c.id}
          /\ Answer(c, [c EXCEPT !.ans = "ok"])
     ELSE Answer(c, [c EXCEPT !.ans = "error"]) /\ UNCHANGED off

ServeDelete(c) ==
  /\ c.op = "remove" /\ agent' = agent \ {c.id} /\ off' = off \ {c.id}
  /\ Answer(c, [c EXCEPT !.ans = IF c.id \in agent THEN "ok" ELSE "gone"])
  /\ UNCHANGED made

Serve(c) ==
  /\ up /\ c.ans = "sent" /\ (ServeAdd(c) \/ ServePatch(c) \/ ServeDelete(c))
  /\ UNCHANGED <<run, up, theStore, rec, asked, renderer, history>>

ServePush ==
  /\ up /\ rec.push.ans = "sent"
  /\ \/ /\ Create(made[rec.push.id], rec.push.id \in storeOff)
        /\ rec' = [rec EXCEPT !.push.ans = "ok", !.push.new = New]
     \/ rec' = [rec EXCEPT !.push.ans = "error"] /\ UNCHANGED theAgent
  /\ UNCHANGED <<run, up, theStore, calls, asked, renderer, history>>

(* It ends, and what it served with it. *)
Crash ==
  /\ up /\ Settled /\ up' = FALSE /\ agent' = {} /\ off' = {}
  /\ UNCHANGED <<run, made, theStore, rec, calls, asked, renderer, history>>

-----------------------------------------------------------------------------
(* onAgentStateChange and reconcileAgentConfig *)

\* Mutant of Running: the store keeps the entries it is about to push.
Running_NoReset ==
  /\ ~up /\ run < MaxRuns /\ calls = {} /\ rec.phase = "idle"
  /\ up' = TRUE /\ run' = run + 1
  /\ rec' = IF run = 0 THEN rec
            ELSE [Idle EXCEPT !.phase = "monitors", !.todo = Of(store, Monitors)]
  /\ UNCHANGED <<theAgent, theStore, calls, asked, renderer, history>>

(* The first agent boots; for every later one the monitors are read and    *)
(* the store's record of them is emptied before the first await.           *)
Running ==
  /\ ~up /\ run < MaxRuns /\ calls = {} /\ rec.phase = "idle"
  /\ up' = TRUE /\ run' = run + 1
  /\ IF run = 0 THEN UNCHANGED <<rec, store>>
     ELSE /\ rec' = [Idle EXCEPT !.phase = "monitors", !.todo = Of(store, Monitors)]
          /\ store' = Of(store, Watches)
  /\ UNCHANGED <<theAgent, storeOff, calls, asked, renderer, history>>

(* The next POST; without a port it fails at once. *)
Push(i) ==
  /\ rec.push = NoPush /\ i \in rec.todo
  /\ rec' = [rec EXCEPT !.push = [id |-> i, ans |-> IF up THEN "sent" ELSE "error", new |-> 0]]
  /\ UNCHANGED <<run, up, theAgent, theStore, calls, asked, renderer, history>>

PushOver == rec' = [rec EXCEPT !.todo = @ \ {rec.push.id}, !.push = NoPush]

PushDone ==
  LET old == rec.push.id
      new == rec.push.new
  IN /\ rec.push.ans = "ok" /\ store' = store \cup {new}
     /\ storeOff' = (storeOff \ {old}) \cup (IF old \in storeOff THEN {new} ELSE {})
     /\ rec' = [rec EXCEPT !.todo = @ \ {old}, !.push = NoPush,
                  !.remap = IF rec.phase = "watches" THEN @ \cup {<<old, new>>} ELSE @]
     /\ UNCHANGED <<run, up, theAgent, calls, asked, renderer, history>>

(* Refused, timed out or cut by the agent's end: logged and skipped.  When *)
(* the agent had done it, only the answer is lost.                         *)
PushFails ==
  /\ rec.push # NoPush /\ PushOver /\ storeOff' = storeOff \ {rec.push.id}
  /\ slips' = slips \cup {<<"lost", made[rec.push.id]>>}
                    \cup (IF rec.push.ans = "ok" THEN {<<"lapsed", rec.push.new>>} ELSE {})
  /\ UNCHANGED <<run, up, theAgent, store, calls, asked, renderer, wanted>>

(* The monitors are done: the watches are read and emptied now, those the  *)
(* user has opened meanwhile among them.                                   *)
WatchesNext ==
  /\ rec.phase = "monitors" /\ rec.todo = {}
  /\ rec' = [rec EXCEPT !.phase = "watches", !.todo = Of(store, Watches)]
  /\ store' = Of(store, Monitors) /\ Slip("doubled", Of(store \cap agent, Watches))
  /\ UNCHANGED <<run, up, theAgent, storeOff, calls, asked, renderer, wanted>>

\* Mutant of Rekey: views keep their ids.
Rekey_Never(v) == v

(* The payload reaches the renderer: remapWatches. *)
Rekey(v) == IF \E p \in rec.remap : p[1] = v
            THEN (CHOOSE p \in rec.remap : p[1] = v)[2] ELSE v
Reconciled ==
  /\ rec.phase = "watches" /\ rec.todo = {} /\ rec' = Idle
  /\ views' = {Rekey(v) : v \in views}
  /\ UNCHANGED <<run, up, theAgent, theStore, calls, asked, shown, history>>

-----------------------------------------------------------------------------
(* The user's requests: a second one for the same id waits for the first.  *)

Ask(op, item, id) ==
  /\ Settled /\ asked < MaxCalls /\ asked' = asked + 1
  /\ \A c \in calls : c.id # id \/ c.item # item
  /\ calls' = calls \cup {[op |-> op, item |-> item, id |-> id, ans |-> "sent"]}
  /\ UNCHANGED <<run, up, theAgent, theStore, rec, renderer, history>>

Asks ==
  \/ \E i \in Items \ {made[k] : k \in DOMAIN made} : Ask("add", i, 0)
  \/ \E m \in shown, op \in {"on", "off", "remove"} : Ask(op, made[m], m)
  \/ \E v \in views : Ask("remove", made[v], v)

(* pauseAllMonitors: one PATCH for each monitor that is on. *)
PauseAll ==
  LET on == {m \in Of(agent, Monitors) \ off : \A c \in calls : c.id # m}
  IN /\ Settled /\ up /\ on # {} /\ asked < MaxCalls /\ asked' = asked + 1
     /\ calls' = calls \cup {[op |-> "pause", item |-> made[m], id |-> m, ans |-> "sent"] : m \in on}
     /\ Slip("muted", on)
     /\ UNCHANGED <<run, up, theAgent, theStore, rec, renderer, wanted>>

(* GET /monitors by the renderer.  By the time the user acts upon the list *)
(* Main has read what the agent answered before it.                        *)
Refresh ==
  /\ Settled /\ up /\ rec.push.ans # "ok" /\ \A c \in calls : c.ans # "ok"
  /\ shown # Of(agent, Monitors) /\ shown' = Of(agent, Monitors)
  /\ UNCHANGED <<run, up, theAgent, theStore, rec, calls, asked, views, history>>

Heard(c) == Settled /\ c.ans # "sent" /\ calls' = calls \ {c}

\* Mutant of HearAdd: an added watch is not recorded.
HearAdd_MonitorsOnly(c) ==
  /\ Heard(c) /\ c.op = "add" /\ c.ans = "ok" /\ wanted' = wanted \cup {c.item}
  /\ store' = IF c.item \in Monitors THEN store \cup {c.id} ELSE store
  /\ views' = IF c.item \in Watches THEN views \cup {c.id} ELSE views
  /\ UNCHANGED <<run, up, theAgent, storeOff, rec, asked, shown, slips>>

HearAdd(c) ==
  /\ Heard(c) /\ c.op = "add" /\ c.ans = "ok"
  /\ store' = store \cup {c.id} /\ wanted' = wanted \cup {c.item}
  /\ views' = IF c.item \in Watches THEN views \cup {c.id} ELSE views
  /\ UNCHANGED <<run, up, theAgent, storeOff, rec, asked, shown, slips>>

\* Mutant of HearPatch: an entry that is not there is merged too.
HearPatch_Always(c) ==
  /\ Heard(c) /\ c.op \in {"on", "off", "pause"} /\ c.ans = "ok"
  /\ storeOff' = IF c.op = "pause" THEN storeOff
                 ELSE IF c.op = "on" THEN storeOff \ {c.id} ELSE storeOff \cup {c.id}
  /\ UNCHANGED <<run, up, theAgent, store, rec, asked, renderer, history>>

(* mergeMonitor changes an entry that is there; the tray does not call it. *)
HearPatch(c) ==
  /\ Heard(c) /\ c.op \in {"on", "off", "pause"} /\ c.ans = "ok"
  /\ storeOff' = IF c.id \notin store \/ c.op = "pause" THEN storeOff
                 ELSE IF c.op = "on" THEN storeOff \ {c.id} ELSE storeOff \cup {c.id}
  /\ UNCHANGED <<run, up, theAgent, store, rec, asked, renderer, history>>

(* 404 is success too: during a reconciliation the id may be an old one,   *)
(* which the store does not have any more.                                 *)
HearRemove(c) ==
  /\ Heard(c) /\ c.op = "remove" /\ wanted' = wanted \ {c.item}
  /\ store' = store \ {c.id} /\ storeOff' = storeOff \ ({c.id} \cap store)
  /\ views' = views \ {c.id}
  /\ Slip("misdirected", IF c.id \in store THEN {} ELSE {c.item})
  /\ UNCHANGED <<run, up, theAgent, rec, asked, shown>>

HearError(c) ==
  /\ Heard(c) /\ c.ans = "error"
  /\ UNCHANGED <<run, up, theAgent, theStore, rec, asked, renderer, history>>

(* No agent, a cut connection or a timeout: the store is not touched.  The *)
(* view of a watch goes away even so.                                      *)
GiveUp(c) ==
  LET closes == c.op = "remove" /\ c.item \in Watches
  IN /\ Settled /\ calls' = calls \ {c}
     /\ views' = IF closes THEN views \ {c.id} ELSE views
     /\ slips' = slips \cup (IF c.ans = "ok" THEN {<<"lapsed", c.id>>} ELSE {})
                       \cup (IF closes THEN {<<"abandoned", c.item>>} ELSE {})
     /\ UNCHANGED <<run, up, theAgent, theStore, rec, asked, shown, wanted>>

-----------------------------------------------------------------------------
Hear(c) == HearAdd(c) \/ HearPatch(c) \/ HearRemove(c) \/ HearError(c) \/ GiveUp(c)

Next ==
  \/ Running \/ Crash \/ (\E i \in rec.todo : Push(i))
  \/ ServePush \/ PushDone \/ PushFails \/ WatchesNext \/ Reconciled
  \/ Asks \/ PauseAll \/ Refresh
  \/ \E c \in calls : Serve(c) \/ Hear(c)

Spec == Init /\ [][Next]_vars

-----------------------------------------------------------------------------
Entry == DOMAIN made

TypeOK ==
  /\ run \in 0 .. MaxRuns /\ up \in BOOLEAN /\ asked \in 0 .. MaxCalls
  /\ made \in Seq(Items) /\ Len(made) <= MaxIds
  /\ agent \cup store \cup storeOff \cup shown \cup views \cup rec.todo \subseteq Entry
  /\ off \subseteq Of(agent, Monitors)
  /\ storeOff \subseteq store \cup rec.todo
  /\ rec.phase \in {"idle", "monitors", "watches"} /\ rec.remap \subseteq Entry \X Entry
  /\ \A c \in calls : c.id \in Entry \cup {0} /\ c.item \in Items
  /\ wanted \subseteq Items

Quiet == up /\ calls = {} /\ rec.phase = "idle"

(* Once Main and the agent have talked, the store lists what the agent     *)
(* serves, with the same switches: answers lost to a timeout, a watch that *)
(* was opened while the monitors were pushed, and the tray's pause apart.  *)
StoreMirrorsAgent ==
  LET both == store \cap agent
  IN Quiet =>
       /\ store \ Slipped("lapsed") \subseteq agent
       /\ agent \ (Slipped("lapsed") \cup Slipped("doubled")) \subseteq store
       /\ (both \cap storeOff) \ (Slipped("lapsed") \cup Slipped("muted"))
            = (both \cap off) \ (Slipped("lapsed") \cup Slipped("muted"))

(* The agent serves what the user wants and nothing else, after however    *)
(* many restarts: items whose push failed, removals that met an old id and *)
(* lost answers apart.                                                     *)
ConfigSurvives ==
  LET served == {made[k] : k \in agent}
      unsure == Slipped("lost") \cup Slipped("misdirected") \cup Slipped("abandoned")
                  \cup {made[k] : k \in Slipped("lapsed") \cup Slipped("doubled")}
  IN Quiet => wanted \ unsure = served \ unsure

(* Every log view is fed by a watch and every watch feeds a view, after    *)
(* however many restarts, with the same exceptions and that of views whose *)
(* closing failed.                                                         *)
ViewsFollow ==
  LET excused == {k \in Entry : made[k] \in Slipped("lost") \cup Slipped("misdirected")
                                              \cup Slipped("abandoned")}
                   \cup Slipped("lapsed") \cup Slipped("doubled")
  IN Quiet => views \ excused = Of(agent, Watches) \ excused
=============================================================================
