----------------------------- MODULE AgentProcess -----------------------------
(***************************************************************************)
(* The agent as a process: how it shuts down on SIGTERM, exits fast on an  *)
(* unhandled error and is started again, and the registry of log watches,  *)
(* whose POST /watch waits three times before it registers anything.       *)
(*                                                                         *)
(* A step runs from one await to the next.  DiagnosticsExport composes     *)
(* this module with the exports the process builds.                        *)
(***************************************************************************)
EXTENDS Integers, FiniteSets

CONSTANTS
  Adds,        \* POST /watch requests
  MaxWatches,  \* LIMITS.maxLogWatches
  MaxStarts    \* bound on the agents the supervisor starts

ASSUME ProcessAssumption == MaxWatches \in Nat /\ MaxStarts \in Nat \ {0}

VARIABLES
  proc,       \* "up" or "exited"
  starts,     \* agents started so far
  code,       \* exit code of the last one, or -1
  closing,    \* what agent.close() waits for: "no", "watches", "server"
  failsafe,   \* the timer of the shutdown deadline is armed
  streaming,  \* SSE clients are attached and sse.closeAll() was not called
  add,        \* request -> "none", "adding" (before its last await has
              \* settled), "watching" or "over"
  rushed      \* history: requests that passed the limit while others were
              \* on their way

process == <<proc, starts, code, closing, failsafe, streaming>>
watches == <<add, rushed>>

Watching == {r \in Adds : add[r] = "watching"}
Waiting == {r \in Adds : add[r] = "adding"}

(* The server takes requests until server.close(). *)
Accepting == proc = "up" /\ closing # "server"

(* A request that is over in the beginning is one nobody makes. *)
ProcessInit ==
  /\ proc = "up" /\ starts = 1 /\ code = -1
  /\ closing = "no" /\ failsafe = FALSE /\ streaming = TRUE
  /\ add \in [Adds -> {"none", "over"}] /\ rushed = {}

-----------------------------------------------------------------------------
(* POST and DELETE /watch. *)

Move(r, from, to) == add[r] \in from /\ add' = [add EXCEPT ![r] = to]

\* Mutant of Add: the limit is one too high.
Add_OffByOne(r) ==
  /\ Accepting
  /\ \/ /\ Cardinality(Watching) > MaxWatches /\ Move(r, {"none"}, "over")
        /\ UNCHANGED rushed
     \/ /\ Cardinality(Watching) <= MaxWatches /\ Move(r, {"none"}, "adding")
        /\ rushed' = IF Waiting = {} THEN rushed ELSE rushed \cup {r}
  /\ UNCHANGED process

(* add() up to its first await: the limit counts registered watches only.  *)
Add(r) ==
  /\ Accepting
  /\ \/ /\ Cardinality(Watching) >= MaxWatches /\ Move(r, {"none"}, "over")
        /\ UNCHANGED rushed
     \/ /\ Cardinality(Watching) < MaxWatches /\ Move(r, {"none"}, "adding")
        /\ rushed' = IF Waiting = {} THEN rushed ELSE rushed \cup {r}
  /\ UNCHANGED process

(* realpath, stat and tailer.start() have succeeded: registers the watch,  *)
(* whatever happened to the registry meanwhile.                            *)
Added(r) ==
  /\ proc = "up" /\ Move(r, {"adding"}, "watching") /\ UNCHANGED <<process, rushed>>

AddFails(r) ==
  /\ proc = "up" /\ Move(r, {"adding"}, "over") /\ UNCHANGED <<process, rushed>>

Remove(r) ==
  /\ Accepting /\ Move(r, {"watching"}, "over") /\ UNCHANGED <<process, rushed>>

-----------------------------------------------------------------------------
(* lifecycle.ts *)

(* process.exit: nothing of the process is left. *)
Exit(c) ==
  /\ proc = "up" /\ proc' = "exited" /\ code' = c
  /\ failsafe' = FALSE /\ streaming' = FALSE /\ closing' = "no"
  /\ add' = [r \in Adds |-> IF r \in Waiting \cup Watching THEN "over" ELSE add[r]]
  /\ UNCHANGED <<starts, rushed>>

\* Mutant of Sigterm: no deadline is armed.
Sigterm_NoDeadline ==
  /\ proc = "up" /\ closing = "no"
  /\ streaming' = FALSE /\ closing' = "watches"
  /\ add' = [r \in Adds |-> IF r \in Watching THEN "over" ELSE add[r]]
  /\ UNCHANGED <<proc, starts, code, failsafe, rushed>>

(* The first SIGTERM or SIGINT: arms the deadline and starts agent.close() *)
(* up to the await of watches.closeAll(), which empties the registry.      *)
Sigterm ==
  /\ proc = "up" /\ closing = "no"
  /\ failsafe' = TRUE /\ streaming' = FALSE /\ closing' = "watches"
  /\ add' = [r \in Adds |-> IF r \in Watching THEN "over" ELSE add[r]]
  /\ UNCHANGED <<proc, starts, code, rushed>>

WatchesClosed ==
  /\ proc = "up" /\ closing = "watches" /\ closing' = "server"
  /\ UNCHANGED <<proc, starts, code, failsafe, streaming, watches>>

(* server.close() settles, or the deadline passes. *)
ServerClosed == closing = "server" /\ \E c \in {0, 1} : Exit(c)
FailsafeFires == failsafe /\ Exit(1)

(* uncaughtException or unhandledRejection, raised anywhere. *)
CrashFast == Exit(1)

(* The supervisor starts another agent unless this one was told to stop. *)
StartAgain ==
  /\ proc = "exited" /\ code = 1 /\ starts < MaxStarts
  /\ proc' = "up" /\ starts' = starts + 1 /\ code' = -1
  /\ streaming' = TRUE /\ UNCHANGED <<closing, failsafe, watches>>

ProcessTypeOK ==
  /\ proc \in {"up", "exited"} /\ starts \in 1 .. MaxStarts /\ code \in {-1, 0, 1}
  /\ closing \in {"no", "watches", "server"}
  /\ failsafe = (closing # "no") /\ streaming \in BOOLEAN
  /\ add \in [Adds -> {"none", "adding", "watching", "over"}]
  /\ rushed \in SUBSET Adds

(* At most MaxWatches files are watched (FR-7), requests that passed the   *)
(* limit while another request was on its way apart; a shutdown and a      *)
(* restart change nothing about that.                                      *)
WatchLimit == Cardinality(Watching \ rushed) <= MaxWatches
=============================================================================
