-------------------------------- MODULE Tailer --------------------------------
(***************************************************************************)
(* One log watch of the agent: the Tailer, its LineSplitter, and the file  *)
(* system around them.                                                     *)
(*                                                                         *)
(* The tailer is one JavaScript object: a step of it runs from the end of  *)
(* one await to the next.  job says which await a check is suspended at;   *)
(* the result of a system call is what the file system holds when the      *)
(* check goes on.  Programs append to files, truncate, remove, replace and *)
(* protect them between any two steps, and stop() comes at any await.      *)
(*                                                                         *)
(* A file is a sequence of cells, TRUE for a newline and FALSE for a piece *)
(* of a line; an offset counts cells.                                      *)
(***************************************************************************)
EXTENDS Integers, Sequences, FiniteSets, SequencesExt

CONSTANTS
  MaxFiles,    \* bound on the files that come to be at the path
  Chunk,       \* READ_CHUNK
  MaxLine,     \* LIMITS.maxLineLengthBytes
  Backfill,    \* LIMITS.logBackfillMaxBytes
  BatchMax,    \* LIMITS.logBatchMaxLines
  MaxRate,     \* LIMITS.maxLogEntriesPerSecondPerWatch
  MaxRetries,  \* permissionMaxRetries
  MaxCells,    \* bound on the cells the programs append
  MaxChanges   \* bound on truncations, removals, replacements, failed reads
               \* and changes of permission

ASSUME TailerAssumption ==
  /\ {MaxFiles, Chunk, MaxLine, BatchMax, MaxRate, MaxRetries} \subseteq Nat \ {0}
  /\ {Backfill, MaxCells, MaxChanges} \subseteq Nat

Inodes == 1 .. MaxFiles
None == 0

VARIABLES
  path,        \* inode at realPath, or None
  born,        \* number of files there have been
  content,     \* inode -> cells
  epoch,       \* inode -> times it was truncated
  access,      \* of realPath: "all", "stat" (open is EACCES), "none" (so is
               \* stat), "odd" (stat fails otherwise)
  written,     \* cells appended so far
  changes,     \* changes so far
  state,       \* this.state
  fd,          \* inode of this.fd, or None
  ino,         \* this.ino
  readOffset,  \* this.readOffset
  job,         \* the await check() or start() is suspended at
  recheck,     \* this.recheck
  watching,    \* directory watcher and poll timer exist
  closing,     \* a close() of this.fd is in flight
  attempts,    \* permissionAttempts
  buf,         \* splitter, pending batch and counters, and the events emitted
  origin,      \* history: which file, from where, readOffset counts
  slipped,     \* history: a rotation opened another file than it had seen
  left,        \* history: inode -> its size when it left realPath
  stopAt       \* history: where the first stop() found the tailer

fs == <<path, born, content, epoch, access, written, changes, left>>
position == <<fd, ino, readOffset, origin, slipped>>
check == <<job, recheck, attempts>>
vars == <<fs, state, position, check, watching, closing, buf, stopAt>>

Min2(a, b) == IF a < b THEN a ELSE b
Max2(a, b) == IF a > b THEN a ELSE b

At(pc, to, then, seen) == [pc |-> pc, to |-> to, then |-> then, seen |-> seen]
Idle == At("idle", 0, "end", None)

-----------------------------------------------------------------------------
(* Lines, batches and events. *)

(* LineSplitter.push, cell by cell: a newline ends the line, and a line    *)
(* that outgrows the cap is cut.                                           *)
SplitCell(s, newline) ==
  IF newline
    THEN [carry |-> 0, at |-> s.at + s.carry + 1,
          lines |-> Append(s.lines, [at |-> s.at + s.carry + 1, cut |-> FALSE])]
    ELSE IF s.carry = MaxLine
      THEN [carry |-> 1, at |-> s.at + MaxLine,
            lines |-> Append(s.lines, [at |-> s.at + MaxLine, cut |-> TRUE])]
      ELSE [s EXCEPT !.carry = @ + 1]

Splits(carry, emitted, cells) ==
  LET split[n \in 0 .. Len(cells)] ==
        IF n = 0 THEN [carry |-> carry, at |-> emitted, lines |-> <<>>]
                 ELSE SplitCell(split[n - 1], cells[n])
  IN split

Push(carry, emitted, cells) == Splits(carry, emitted, cells)[Len(cells)]

Publish(b, type, entries) ==
  [b EXCEPT !.out = Append(@, [type |-> type, entries |-> entries,
                               dropped |-> IF type = "log.entry" THEN b.dropped ELSE 0])]

Flush(b) ==
  IF b.pending = <<>> THEN [b EXCEPT !.timer = FALSE]
  ELSE [Publish(b, "log.entry", b.pending)
          EXCEPT !.pending = <<>>, !.dropped = 0, !.cut = 0, !.timer = FALSE]

(* emit of a structural marker: what is buffered goes first. *)
Emit(b, type) == Publish(Flush(b), type, <<>>)

\* Mutant of Enqueue: the batch grows one too long.
Enqueue_OffByOne(b, line, o) ==
  LET d == [b EXCEPT !.emitted = line.at, !.inWindow = @ + 1, !.timer = TRUE,
                     !.pending = Append(@, [of |-> o, at |-> line.at])]
  IN IF b.inWindow < MaxRate /\ Len(d.pending) > BatchMax THEN Flush(d) ELSE d

(* enqueue of one line; o is the origin its offset counts from. *)
Enqueue(b, line, o) ==
  LET c == [b EXCEPT !.emitted = line.at, !.cut = @ + (IF line.cut THEN 1 ELSE 0)]
  IN IF c.inWindow >= MaxRate
     THEN [c EXCEPT !.dropped = @ + 1, !.lost = Append(@, [of |-> o, at |-> line.at])]
     ELSE LET d == [c EXCEPT !.inWindow = @ + 1, !.timer = TRUE,
                             !.pending = Append(@, [of |-> o, at |-> line.at])]
          IN IF Len(d.pending) >= BatchMax THEN Flush(d) ELSE d

(* The lines one after the other. *)
Queue(b, lines, o) ==
  LET queue[k \in 0 .. Len(lines)] ==
        IF k = 0 THEN b ELSE Enqueue(queue[k - 1], lines[k], o)
  IN queue

(* A chunk of readTo: the lines it completes are queued one by one; fresh  *)
(* says that a second has passed since the window of the rate cap began.   *)
Deliver(b, cells, o, fresh) ==
  LET s == Push(b.carry, b.emitted, cells)
      w == [b EXCEPT !.carry = s.carry,
                     !.inWindow = IF fresh /\ s.lines # <<>> THEN 0 ELSE @]
  IN Queue(w, s.lines, o)[Len(s.lines)]

\* Mutant of Rewind: the old splitter, and the piece of a line it carries, stay.
Rewind_KeepsCarry(b) == [b EXCEPT !.emitted = 0]

(* Back to offset 0 with a new LineSplitter. *)
Rewind(b) == [b EXCEPT !.carry = 0, !.emitted = 0]
Whole(i) == [ino |-> i, epoch |-> epoch[i], base |-> 0]

-----------------------------------------------------------------------------
Init ==
  /\ path = 1 /\ born = 1 /\ access = "all" /\ written = 0 /\ changes = 0
  /\ content = [i \in Inodes |-> <<>>]
  /\ epoch = [i \in Inodes |-> 0] /\ left = [i \in Inodes |-> 0]
  /\ state = "stopped" /\ fd = None /\ ino = None /\ readOffset = 0
  /\ job = At("new", 0, "watch", None)
  /\ recheck = FALSE /\ watching = FALSE /\ closing = FALSE /\ attempts = 0
  /\ buf = [carry |-> 0, emitted |-> 0, pending |-> <<>>, dropped |-> 0, cut |-> 0,
            inWindow |-> 0, timer |-> FALSE, out |-> <<>>, lost |-> <<>>]
  /\ slipped = FALSE /\ stopAt = "never"
  /\ origin = [ino |-> 1, epoch |-> 0, base |-> 0]

StatOk == access \in {"all", "stat"}
CanOpen == access = "all" /\ path # None
Size(i) == Len(content[i])

(* runCheck begins: a check that waits for permission retries only when    *)
(* the delay has passed, any other starts with stat.                       *)
Begin(st, a) ==
  \/ /\ st = "permission-wait"
     /\ \/ job' = Idle /\ attempts' = a
        \/ job' = At("retry", 0, "reopen", None) /\ attempts' = a + 1
  \/ /\ st # "permission-wait"
     /\ job' = At("stat", 0, "end", None) /\ attempts' = a

\* Mutant of Finish: the loop does not ask whether the tailer was stopped.
Finish_WhenStopped(a) ==
  \/ recheck /\ recheck' = FALSE /\ Begin(state', a)
  \/ ~recheck /\ job' = Idle /\ attempts' = a /\ UNCHANGED recheck

(* runCheck ends: the loop of check() goes round once more if asked. *)
Finish(a) ==
  \/ recheck /\ state' # "stopped" /\ recheck' = FALSE /\ Begin(state', a)
  \/ ~(recheck /\ state' # "stopped") /\ job' = Idle /\ attempts' = a /\ UNCHANGED recheck

Suspend(next) == job' = next /\ UNCHANGED <<recheck, attempts>>

(* The part of stop() before its await. *)
StopNow(b, where) ==
  /\ state' = "stopped" /\ watching' = FALSE /\ closing' = (fd # None)
  /\ buf' = [b EXCEPT !.timer = FALSE]
  /\ stopAt' = IF stopAt = "never" THEN where ELSE stopAt

(* readTo: its loop is entered only below the end and before stop(). *)
ReadTo(to, from) ==
  \/ from < to /\ state' # "stopped" /\ Suspend(At("read", to, "end", None))
  \/ ~(from < to /\ state' # "stopped") /\ Finish(attempts)

(* closeFd() and what follows it: a rotation or a reopening opens the path *)
(* again, a deletion waits for it to come back.                            *)
AfterClose(then, seen, b, st) ==
  \/ /\ then = "delete" /\ state' = "deleted-wait"
     /\ buf' = Emit(b, "log.deleted") /\ Finish(attempts)
  \/ /\ then # "delete" /\ state' = st
     /\ buf' = b /\ Suspend(At("open", 0, then, seen))

CloseFd(then, seen, b, st) ==
  \/ fd = None /\ AfterClose(then, seen, b, st) /\ UNCHANGED closing
  \/ /\ fd # None /\ closing' = TRUE /\ state' = st /\ buf' = b
     /\ Suspend(At("close", 0, then, seen))

-----------------------------------------------------------------------------
(* start() *)

(* open and stat succeed; a backfill is read before the watch is set up. *)
StartOpens ==
  /\ job.pc = "new" /\ CanOpen
  /\ state' = "active" /\ fd' = path /\ ino' = path
  /\ \E fromEnd \in BOOLEAN :
       LET size == Size(path)
           start == IF fromEnd THEN size ELSE Max2(0, size - Backfill)
       IN /\ readOffset' = start
          /\ buf' = [buf EXCEPT !.emitted = start]
          /\ origin' = [ino |-> path, epoch |-> epoch[path], base |-> start]
          /\ watching' = (start = size)
          /\ job' = IF start < size THEN At("read", size, "watch", None) ELSE Idle
  /\ UNCHANGED <<fs, slipped, recheck, closing, attempts, stopAt>>

(* open rejects, and start() with it. *)
StartFails ==
  /\ job.pc = "new" /\ ~CanOpen
  /\ job' = At("failed", 0, "end", None)
  /\ UNCHANGED <<fs, state, position, recheck, attempts, watching, closing, buf, stopAt>>

-----------------------------------------------------------------------------
(* check(): the directory watcher or the poll timer calls it. *)

Signal ==
  /\ watching
  /\ \/ /\ job = Idle /\ state # "permission-wait"
        /\ job' = At("stat", 0, "end", None) /\ recheck' = FALSE
     \/ job # Idle /\ recheck' = TRUE /\ UNCHANGED job
  /\ UNCHANGED <<fs, state, position, attempts, watching, closing, buf, stopAt>>

RetryDue ==
  /\ watching /\ job = Idle /\ state = "permission-wait"
  /\ job' = At("retry", 0, "reopen", None) /\ attempts' = attempts + 1
  /\ recheck' = FALSE
  /\ UNCHANGED <<fs, state, position, watching, closing, buf, stopAt>>

(* EACCES: report it and wait for permission. *)
StatForbidden ==
  /\ job.pc = "stat" /\ access = "none"
  /\ state' = "permission-wait" /\ buf' = Emit(buf, "log.error")
  /\ Finish(0)
  /\ UNCHANGED <<fs, position, watching, closing, stopAt>>

StatFails ==
  /\ job.pc = "stat" /\ access = "odd"
  /\ StopNow(Emit(buf, "log.error"), "self") /\ Finish(attempts)
  /\ UNCHANGED <<fs, position>>

(* ENOENT: drain and close, wait for the file to come back, or give up     *)
(* when the recreation window has passed.                                  *)
StatMissing ==
  /\ job.pc = "stat" /\ StatOk /\ path = None /\ state # "deleted-wait"
  /\ \/ fd # None /\ Suspend(At("drain", 0, "delete", None)) /\ UNCHANGED <<state, closing, buf>>
     \/ fd = None /\ CloseFd("delete", None, buf, state)
  /\ UNCHANGED <<fs, position, watching, stopAt>>

StillMissing ==
  /\ job.pc = "stat" /\ StatOk /\ path = None /\ state = "deleted-wait"
  /\ \/ UNCHANGED <<state, watching, closing, buf, stopAt>>
     \/ StopNow(Emit(buf, "log.error"), "self")
  /\ Finish(attempts)
  /\ UNCHANGED <<fs, position>>

\* Mutant of StatRotated: the old file is closed without being drained.
StatRotated_NoDrain ==
  /\ job.pc = "stat" /\ StatOk /\ path # None
  /\ state = "deleted-wait" \/ (fd # None /\ path # ino)
  /\ CloseFd("rotate", path, buf, state)
  /\ UNCHANGED <<fs, position, watching, stopAt>>

(* The path is another file than this.ino, or is back after a deletion. *)
StatRotated ==
  /\ job.pc = "stat" /\ StatOk /\ path # None
  /\ \/ state = "deleted-wait" /\ CloseFd("rotate", path, buf, state)
     \/ /\ state # "deleted-wait" /\ fd # None /\ path # ino
        /\ Suspend(At("drain", 0, "rotate", path)) /\ UNCHANGED <<state, closing, buf>>
  /\ UNCHANGED <<fs, position, watching, stopAt>>

(* The same file: it shrank, or it grew or is as it was; without an fd the *)
(* check returns.                                                          *)
StatSame ==
  /\ job.pc = "stat" /\ StatOk /\ path # None /\ state # "deleted-wait"
  /\ UNCHANGED state
  /\ \/ fd = None /\ Finish(attempts) /\ UNCHANGED <<readOffset, buf, origin>>
     \/ /\ fd # None /\ path = ino /\ Size(path) < readOffset
        /\ readOffset' = 0 /\ origin' = Whole(fd)
        /\ buf' = Emit(Rewind(buf), "log.truncated")
        /\ ReadTo(Size(path), 0)
     \/ /\ fd # None /\ path = ino /\ Size(path) >= readOffset
        /\ ReadTo(Size(path), readOffset)
        /\ UNCHANGED <<readOffset, buf, origin>>
  /\ UNCHANGED <<fs, fd, ino, slipped, watching, closing, stopAt>>

(* drainCurrentFd: fd.stat has settled; it fails on a handle being closed. *)
Drain ==
  /\ job.pc = "drain"
  /\ \/ /\ state # "stopped" /\ Size(fd) > readOffset
        /\ Suspend(At("read", Size(fd), job.then, job.seen))
        /\ UNCHANGED <<state, closing, buf>>
     \/ /\ state = "stopped" \/ Size(fd) <= readOffset
        /\ CloseFd(job.then, job.seen, buf, state)
  /\ UNCHANGED <<fs, position, watching, stopAt>>

(* readTo returns to drainCurrentFd, start() or runCheck. *)
AfterRead(b) ==
  \/ job.then \in {"rotate", "delete"} /\ CloseFd(job.then, job.seen, b, state) /\ UNCHANGED watching
  \/ /\ job.then = "watch" /\ watching' = TRUE /\ job' = Idle /\ buf' = b
     /\ UNCHANGED <<state, closing, recheck, attempts>>
  \/ /\ job.then = "end" /\ buf' = b
     /\ UNCHANGED <<state, closing, watching>> /\ Finish(attempts)

(* One read of readTo: a short one goes on, an empty one ends the loop. *)
ReadChunk ==
  /\ job.pc = "read"
  /\ LET n == Max2(0, Min2(Chunk, Min2(job.to, Size(fd)) - readOffset))
         cells == SubSeq(content[fd], readOffset + 1, readOffset + n)
     IN \E fresh \in BOOLEAN :
          LET b == Deliver(buf, cells, origin, fresh)
          IN /\ readOffset' = readOffset + n
             /\ \/ /\ n > 0 /\ readOffset' < job.to /\ state # "stopped" /\ buf' = b
                   /\ UNCHANGED <<state, closing, watching, check>>
                \/ /\ ~(n > 0 /\ readOffset' < job.to /\ state # "stopped")
                   /\ AfterRead(b)
  /\ UNCHANGED <<fs, fd, ino, origin, slipped, stopAt>>

ReadFails ==
  /\ job.pc = "read" /\ changes < MaxChanges /\ changes' = changes + 1
  /\ AfterRead(Emit(buf, "read failed"))
  /\ UNCHANGED <<path, born, content, epoch, access, written, left, position, stopAt>>

(* handle.close() resolves for everyone who waits for it: closeFd of the   *)
(* check, stop(), or both.  It waits for the calls pending on the handle.  *)
Closed ==
  /\ closing /\ job.pc \notin {"read", "drain"}
  /\ closing' = FALSE /\ fd' = None
  /\ \/ job.pc = "close" /\ AfterClose(job.then, job.seen, buf, state)
     \/ job.pc # "close" /\ UNCHANGED <<state, buf, check>>
  /\ UNCHANGED <<fs, ino, readOffset, origin, slipped, watching, stopAt>>

(* rotateTo, from its open on: this.ino is what the stat saw. *)
RotateOpens ==
  /\ job.pc = "open" /\ job.then = "rotate" /\ CanOpen
  /\ fd' = path /\ ino' = job.seen /\ readOffset' = 0
  /\ origin' = Whole(path) /\ slipped' = (slipped \/ job.seen # path)
  /\ state' = "active" /\ buf' = Emit(Rewind(buf), "log.rotated")
  /\ ReadTo(Size(path), 0)
  /\ UNCHANGED <<fs, watching, closing, stopAt>>

(* Its open rejects: nobody catches that, and the agent exits. *)
RotateFails ==
  /\ job.pc = "open" /\ job.then = "rotate" /\ ~CanOpen
  /\ job' = At("gone", 0, "end", None) /\ watching' = FALSE
  /\ buf' = [buf EXCEPT !.timer = FALSE]
  /\ UNCHANGED <<fs, state, position, recheck, attempts, closing, stopAt>>

(* retryPermission: the stat succeeds, and the tailer is active again. *)
RetryOk ==
  /\ job.pc = "retry" /\ StatOk /\ path # None
  /\ CloseFd("reopen", None, buf, "active")
  /\ UNCHANGED <<fs, position, watching, stopAt>>

(* The stat or the open of the reopening fails: the last time it gives up. *)
RetryFails ==
  /\ \/ job.pc = "retry" /\ ~(StatOk /\ path # None)
     \/ job.pc = "open" /\ job.then = "reopen" /\ ~CanOpen
  /\ \/ attempts >= MaxRetries /\ StopNow(Emit(buf, "log.error"), "self")
     \/ attempts < MaxRetries /\ UNCHANGED <<state, watching, closing, buf, stopAt>>
  /\ Finish(attempts)
  /\ UNCHANGED <<fs, position>>

(* reopenActive goes on from its offset, unless the file is shorter. *)
ReopenOpens ==
  /\ job.pc = "open" /\ job.then = "reopen" /\ CanOpen
  /\ fd' = path /\ ino' = path
  /\ \/ /\ Size(path) < readOffset /\ readOffset' = 0
        /\ buf' = Rewind(buf) /\ origin' = Whole(path)
     \/ Size(path) >= readOffset /\ UNCHANGED <<readOffset, buf, origin>>
  /\ UNCHANGED state /\ ReadTo(Size(path), readOffset')
  /\ UNCHANGED <<fs, slipped, watching, closing, stopAt>>

FlushFires ==
  /\ buf.timer /\ buf' = Flush(buf)
  /\ UNCHANGED <<fs, state, position, check, watching, closing, stopAt>>

(* stop() by the registry, once start() is over. *)
Stop ==
  /\ job.pc \notin {"new", "failed", "gone"} /\ job.then # "watch" /\ stopAt = "never"
  /\ StopNow(buf, IF job.pc \in {"stat", "retry"} \/ job.then # "end" THEN "changing" ELSE job.pc)
  /\ UNCHANGED <<fs, position, check>>

-----------------------------------------------------------------------------
(* Other programs. *)

tailer == <<state, position, check, watching, closing, buf, stopAt>>

(* A writer appends to the file at the path, or to one it still holds that *)
(* the tailer holds too: nobody sees what goes to another one.             *)
Write(i, newline) ==
  /\ i \in {path, fd} /\ written < MaxCells /\ written' = written + 1
  /\ content' = [content EXCEPT ![i] = Append(@, newline)]
  /\ UNCHANGED <<path, born, epoch, access, changes, left, tailer>>

Change == changes < MaxChanges /\ changes' = changes + 1 /\ UNCHANGED <<written, tailer>>

Truncate ==
  /\ Change /\ path # None /\ content[path] # <<>>
  /\ content' = [content EXCEPT ![path] = <<>>]
  /\ epoch' = [epoch EXCEPT ![path] = @ + 1]
  /\ UNCHANGED <<path, born, access, left>>

Leave == left' = [i \in Inodes |-> IF i = path THEN Size(i) ELSE left[i]]

(* The file is deleted or renamed. *)
Vanish ==
  /\ Change /\ path # None /\ path' = None /\ Leave
  /\ UNCHANGED <<born, content, epoch, access>>

(* A new file comes to the path, in place of the old one or after it. *)
Create ==
  /\ Change /\ born + 1 \in Inodes /\ path' = born + 1 /\ born' = born + 1 /\ Leave
  /\ UNCHANGED <<content, epoch, access>>

Protect ==
  /\ Change /\ access' \in {"all", "stat", "none", "odd"} \ {access}
  /\ UNCHANGED <<path, born, content, epoch, left>>

-----------------------------------------------------------------------------
Continue ==
  \/ StatForbidden \/ StatFails \/ StatMissing \/ StillMissing \/ StatRotated
  \/ StatSame \/ Drain \/ ReadChunk \/ ReadFails \/ RotateOpens \/ RotateFails
  \/ RetryOk \/ RetryFails \/ ReopenOpens

(* Nothing matters to a tailer that is at its end. *)
AtEnd ==
  \/ job.pc \in {"failed", "gone"}
  \/ (state = "stopped" /\ job = Idle /\ ~closing)

Programs ==
  \/ \E i \in Inodes, newline \in BOOLEAN : Write(i, newline)
  \/ Truncate \/ Vanish \/ Create \/ Protect

Next ==
  \/ StartOpens \/ StartFails \/ Signal \/ RetryDue \/ Continue
  \/ Closed \/ FlushFires \/ Stop
  \/ (~AtEnd /\ Programs)

(* The event loop runs timers and continuations; programs and stop() owe   *)
(* nothing.                                                                *)
Spec ==
  /\ Init /\ [][Next]_vars
  /\ WF_vars(Signal) /\ WF_vars(RetryDue) /\ WF_vars(Continue)
  /\ WF_vars(Closed) /\ WF_vars(FlushFires)

-----------------------------------------------------------------------------
Line == [of : [ino : Inodes, epoch : Nat, base : Nat], at : Nat]

TypeOK ==
  /\ path \in Inodes \cup {None} /\ born \in Inodes
  /\ content \in [Inodes -> Seq(BOOLEAN)]
  /\ epoch \in [Inodes -> Nat] /\ left \in [Inodes -> Nat]
  /\ access \in {"all", "stat", "none", "odd"}
  /\ written \in 0 .. MaxCells /\ changes \in 0 .. MaxChanges
  /\ state \in {"active", "deleted-wait", "permission-wait", "stopped"}
  /\ fd \in Inodes \cup {None} /\ ino \in Inodes \cup {None} /\ readOffset \in Nat
  /\ job.pc \in {"new", "failed", "gone", "idle", "stat", "retry", "drain", "read",
                 "close", "open"}
  /\ job.then \in {"end", "watch", "rotate", "delete", "reopen"}
  /\ recheck \in BOOLEAN /\ watching \in BOOLEAN /\ closing \in BOOLEAN
  /\ attempts \in 0 .. MaxRetries
  /\ buf.carry \in 0 .. MaxLine /\ buf.emitted \in Nat
  /\ buf.pending \in Seq(Line) /\ Len(buf.pending) < BatchMax
  /\ buf.inWindow \in 0 .. MaxRate
  /\ slipped \in BOOLEAN
  /\ stopAt \in {"never", "self", "idle", "read", "changing"}

-----------------------------------------------------------------------------
(* Properties. *)

(* The lines on their way to the user, in order: delivered, then queued. *)
Rows(b) == FlattenSeq([k \in DOMAIN b.out |-> b.out[k].entries]) \o b.pending

(* The dropped lines that a batch counts, or the next one will. *)
Reported(out) ==
  LET sum[k \in 0 .. Len(out)] == IF k = 0 THEN 0 ELSE sum[k - 1] + out[k].dropped
  IN sum[Len(out)]
Counted(b) == Reported(b.out) + b.dropped

(* Where the lines of o end. *)
Ends(lines, o) == {l.at : l \in {m \in ToSet(lines) : m.of = o}}
Ascend(lines, o) ==
  \A j, k \in DOMAIN lines :
    j < k /\ lines[j].of = o /\ lines[k].of = o => lines[j].at < lines[k].at

(* What readOffset counts is still what the open file holds: it was not    *)
(* truncated unnoticed, nor replaced behind a lost permission, nor opened   *)
(* under the inode of another.                                             *)
Genuine == ~slipped /\ fd # None /\ origin.ino = fd /\ origin.epoch = epoch[fd]

(* As far as a file was read, its lines, split as if it were read in one   *)
(* piece, were each delivered, queued or dropped exactly once, in order    *)
(* and with their offsets; and every dropped line is counted in a batch or *)
(* will be in the next (enqueue, flush, line-splitter.ts).  A rotation     *)
(* that opens another file than it saw reads that file twice.              *)
LinesFaithful ==
  /\ buf.emitted + buf.carry = readOffset /\ Counted(buf) = Len(buf.lost)
  /\ Genuine =>
       LET text == SubSeq(content[fd], origin.base + 1, readOffset)
           whole == {l.at : l \in ToSet(Push(0, origin.base, text).lines)}
           kept == Ends(Rows(buf), origin)
           lost == Ends(buf.lost, origin)
       IN /\ kept \cup lost = whole /\ kept \cap lost = {}
          /\ Ascend(Rows(buf), origin) /\ Ascend(buf.lost, origin)

(* A rotated or truncated marker parts the lines of the file before it     *)
(* from those after it: no line of the old file comes late, although lines *)
(* wait up to 100 ms in the batch (emit flushes first).                    *)
MarkersPart ==
  ~slipped => \A k \in DOMAIN buf.out :
    buf.out[k].type \in {"log.rotated", "log.truncated"} =>
      \A before, after \in DOMAIN buf.out : before < k /\ k < after =>
        \A a \in ToSet(buf.out[before].entries), b \in ToSet(buf.out[after].entries) :
          a.of # b.of

(* What the user reads is what the files held: the lines, and the markers  *)
(* where one file gives way to the next.                                    *)
TextFaithful == LinesFaithful /\ MarkersPart

(* "Zero lost lines" of a rotation: a file that left its path is closed    *)
(* only when all it held when it left has been read, however often files   *)
(* are replaced, unless a read failed, the file was truncated behind the   *)
(* tailer, a rotation slipped or the watch was stopped.                    *)
RotationDrains ==
  [][fd # None /\ fd' = None /\ job.then \in {"rotate", "delete"} /\ state # "stopped"
       /\ Genuine /\ "read failed" \notin {e.type : e \in ToSet(buf.out)}
     => readOffset >= left[fd]]_vars

(* stop() is final when it finds the tailer between two checks or reading  *)
(* appended lines: nothing becomes active or stays open after it.  Only a  *)
(* check that was examining or replacing the file can undo it.             *)
StopIsFinal ==
  stopAt \notin {"never", "changing"} => state = "stopped" /\ (fd = None \/ closing)

(* Active without an fd: the reopening after a lost permission failed, and *)
(* no check looks at the file again while it is there.                     *)
SilentlyBroken == state = "active" /\ fd = None /\ job.pc \in {"idle", "stat"}

(* Once the other programs are quiet, the watch has ended, or waits for a  *)
(* file that is not there, or has read and delivered all the file holds,   *)
(* unless it is silently broken.                                           *)
CatchesUp ==
  <>[](\/ state = "stopped" \/ stopAt # "never" \/ job.pc \in {"failed", "gone"}
       \/ SilentlyBroken
       \/ StatOk /\ path = None /\ state = "deleted-wait"
       \/ fd # None /\ fd = path /\ readOffset = Size(fd) /\ buf.pending = <<>>)

(* Nothing stays unread: neither of a file that was replaced nor, in the    *)
(* end, of the one that is there.                                          *)
AllIsRead == RotationDrains /\ CatchesUp

(* The table of PDD section 24: a path that is missing or forbidden means  *)
(* waiting; the watch never takes the agent down.                          *)
AgentSurvives == job.pc # "gone"
=============================================================================
