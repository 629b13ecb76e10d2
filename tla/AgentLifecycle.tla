--------------------------- MODULE AgentLifecycle ---------------------------
(***************************************************************************)
(* What the supervisor promises about the agent, without its timers, its   *)
(* awaits and its queue: phases of a supervised life, and the set of agent *)
(* processes alive.  An agent is started only from a phase that says there *)
(* is none, and never once the application is stopping; the phases that    *)
(* say there is none are entered only when there is none.                  *)
(***************************************************************************)
CONSTANT Children

VARIABLES phase, agents

lifecycle == <<phase, agents>>

Start(c) ==
  /\ phase \in {"idle", "backoff", "failed"} /\ agents = {}
  /\ phase' = "spawning" /\ agents' = {c}

Succeed ==
  /\ phase = "spawning" /\ agents # {}
  /\ phase' = "running" /\ UNCHANGED agents

\* The death of a running agent is known at once.
Die(c) ==
  /\ c \in agents
  /\ agents' = agents \ {c}
  /\ IF phase = "running" THEN phase' \in {"backoff", "failed"} ELSE UNCHANGED phase

GiveUp ==
  /\ phase = "spawning" /\ agents = {}
  /\ phase' \in {"backoff", "failed"} /\ UNCHANGED agents

Stop ==
  /\ phase \in {"spawning", "running", "backoff", "failed"}
  /\ phase' = "stopping" /\ UNCHANGED agents

\* The main process ends, by itself or not.
End ==
  /\ phase # "over"
  /\ phase' = "over" /\ UNCHANGED agents

Init == phase = "idle" /\ agents = {}

Next ==
  \/ \E c \in Children : Start(c) \/ Die(c)
  \/ Succeed \/ GiveUp \/ Stop \/ End

Spec == Init /\ [][Next]_lifecycle
=============================================================================
