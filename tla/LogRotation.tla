------------------------------ MODULE LogRotation ------------------------------
(***************************************************************************)
(* The agent's own log (createAgentLogging): agent.log and its older       *)
(* generations, shifted by renames when the log has grown too large.  The  *)
(* renames are one synchronous loop, but the process may be killed between *)
(* any two of them; the next agent finds what is left.                     *)
(*                                                                         *)
(* A file is the sequence of its lines, which are numbered; generation 0   *)
(* is agent.log.  Names that DiagnosticsExport has too carry a "Log".      *)
(***************************************************************************)
EXTENDS Integers, Sequences

CONSTANTS
  Generations,  \* generations
  MaxSize,      \* maxBytes, in lines
  MaxLines,     \* bound on the lines written
  MaxAgents     \* bound on the agents that start

(* DEFAULT_GENERATIONS is 3: agent.log and two older ones. *)
ASSUME LogAssumption ==
  /\ Generations \in Nat /\ Generations >= 2
  /\ {MaxSize, MaxLines, MaxAgents} \subseteq Nat

Generation == 0 .. Generations - 1
Absent == <<0>>

VARIABLES
  file,      \* generation -> its lines, or Absent
  at,        \* the generation the loop of renames is to fill next; 0: not in it
  logger,    \* the agent: "down", "booting" (before its destination is open) or "up"
  written,   \* history: lines written
  agents     \* agents started so far

log == <<file, at, logger, written, agents>>

Lines(g) == IF file[g] = Absent THEN <<>> ELSE file[g]
(* sizeOf: a missing file is an empty one. *)
TooLarge == Len(Lines(0)) > MaxSize

LogInit ==
  /\ file = [g \in Generation |-> Absent] /\ at = 0 /\ logger = "down"
  /\ written = 0 /\ agents = 0

Rotate == at' = Generations - 1 /\ UNCHANGED file
(* destination opens, and creates, agent.log. *)
Open == file' = [file EXCEPT ![0] = Lines(0)] /\ UNCHANGED at

(* createAgentLogging: a log that is too large is rotated first. *)
Boot ==
  /\ logger = "down" /\ agents < MaxAgents /\ agents' = agents + 1
  /\ \/ TooLarge /\ Rotate /\ logger' = "booting"
     \/ ~TooLarge /\ Open /\ logger' = "up"
  /\ UNCHANGED written

Logging == logger = "up" /\ at = 0 /\ file[0] # Absent

Write ==
  /\ Logging /\ written < MaxLines /\ written' = written + 1
  /\ file' = [file EXCEPT ![0] = Append(@, written')]
  /\ UNCHANGED <<at, logger, agents>>

(* The interval of 10 s. *)
SizeCheck == Logging /\ TooLarge /\ Rotate /\ UNCHANGED <<logger, written, agents>>

\* Mutant of Rename: the youngest file is moved first.
Rename_Youngest ==
  /\ at > 0 /\ at' = at - 1
  /\ LET to == Generations - at
     IN file' = IF file[to - 1] = Absent THEN file
                ELSE [file EXCEPT ![to] = file[to - 1], ![to - 1] = Absent]
  /\ UNCHANGED <<logger, written, agents>>

(* One turn of rotateGenerations. *)
Rename ==
  /\ at > 0 /\ at' = at - 1
  /\ file' = IF file[at - 1] = Absent THEN file
             ELSE [file EXCEPT ![at] = file[at - 1], ![at - 1] = Absent]
  /\ UNCHANGED <<logger, written, agents>>

(* The loop is over: the destination is opened, or opened anew.            *)
Reopen ==
  /\ logger # "down" /\ at = 0 /\ file[0] = Absent
  /\ Open /\ logger' = "up" /\ UNCHANGED <<written, agents>>

(* The process ends, by itself or by SIGKILL in the middle of the loop.    *)
Killed == logger # "down" /\ logger' = "down" /\ at' = 0 /\ UNCHANGED <<file, written, agents>>

LogNext == Boot \/ Write \/ SizeCheck \/ Rename \/ Reopen \/ Killed
LogSpec == LogInit /\ [][LogNext]_log

-----------------------------------------------------------------------------

Numbers(lines) == {lines[k] : k \in DOMAIN lines}

LogTypeOK ==
  /\ at \in Generation /\ logger \in {"down", "booting", "up"}
  /\ \A g \in Generation : Numbers(file[g]) \subseteq 0 .. MaxLines
  /\ written \in 0 .. MaxLines /\ agents \in 0 .. MaxAgents

Kept == UNION {Numbers(Lines(g)) : g \in Generation}

(* What is never lost: all generations but the youngest, when there are    *)
(* three as in the agent; of more, rotations that are cut off again and    *)
(* again may leave two.                                                    *)
Reserve == (IF Generations = 2 THEN 1 ELSE 2) * (MaxSize + 1)

(* The files hold the last lines written, each file in order and an older  *)
(* file older lines, without a hole, and no fewer than Reserve: wherever a *)
(* rotation was cut off, and however often.                                *)
LastLinesKept ==
  /\ \A g \in Generation : \A j, k \in DOMAIN Lines(g) : Lines(g)[k] = Lines(g)[j] + k - j
  /\ \A g, h \in Generation : g < h => \A x \in Numbers(Lines(g)), y \in Numbers(Lines(h)) : y < x
  /\ \E lost \in 0 .. written :
       Kept = lost + 1 .. written /\ (lost = 0 \/ written - lost >= Reserve)

(* The log on disk is whole. *)
LogIsWhole == LogTypeOK /\ LastLinesKept

=============================================================================
