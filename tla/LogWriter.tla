------------------------------ MODULE LogWriter ------------------------------
(***************************************************************************)
(* The log (loader/log.c) and the fault handler that dumps through it      *)
(* (loader/crash.c): lines collect in a buffer under one lock, a writer    *)
(* thread swaps the buffers and writes the full one under the other, and a *)
(* fault anywhere makes everybody do without either.                       *)
(*                                                                         *)
(* One action per region under a lock and per call of the card; what runs  *)
(* without a lock after a fault is split where another thread can come     *)
(* between.  The buffers hold the numbers of the lines, in the order they  *)
(* were logged; a buffer's size is counted in lines.  The writer wakes     *)
(* every LOG_FLUSH_MS or sooner, that is, at any time.                     *)
(***************************************************************************)
EXTENDS Integers, Sequences

CONSTANTS
  Loggers,    \* the threads that log
  Writer,     \* log_writer
  BufLines,        \* LOG_BUF_BYTES
  MaxLines,   \* bound on the lines logged
  MaxFlushes, \* bound on the calls of log_flush
  MaxFaults   \* bound on the faults

Threads == Loggers \cup {Writer}
Dump == 0       \* the fault handler's report
Straight == -1  \* a line that went past the buffer

VARIABLES
  hasLog, hasIo, g_writer_up,  \* what log_init could create
  buf,      \* g_bufs[g_cur], up to g_buf_n
  g_panic,
  log_mtx, io_mtx,  \* who holds them
  fd,       \* g_log_fd is open
  file,     \* what was written
  closed,   \* how much of it when it was last closed
  pc, why,  \* each thread: where it is, and on whose behalf
  out,      \* what it is about to write
  issued,   \* how many lines were put in the buffer
  prior,    \* history: how many there were when the first fault struck
  waited,   \* history: its handler has got g_io_mtx
  strays,   \* history: a thread that was logging has drained the buffer without it
  lines, flushes, faults

made == <<hasLog, hasIo, g_writer_up>>
locks == <<log_mtx, io_mtx>>
card == <<fd, file, closed>>
history == <<prior, waited, strays>>
bounds == <<lines, flushes, faults>>
vars == <<made, buf, g_panic, locks, card, pc, why, out, issued, history, bounds>>

\* log_init.  Any of what it creates may be missing.
Init ==
  /\ hasLog \in BOOLEAN /\ hasIo \in BOOLEAN
  /\ g_writer_up \in BOOLEAN /\ (g_writer_up => hasIo)
  /\ buf = <<>> /\ g_panic = FALSE
  /\ log_mtx = "free" /\ io_mtx = "free"
  /\ fd = FALSE /\ file = <<>> /\ closed = 0
  /\ pc = [t \in Threads |-> IF t = Writer /\ ~g_writer_up THEN "gone" ELSE "idle"]
  /\ why = [t \in Threads |-> "line"] /\ out = [t \in Threads |-> <<>>]
  /\ issued = 0 /\ prior = 0 /\ waited = FALSE /\ strays = FALSE
  /\ lines = 0 /\ flushes = 0 /\ faults = 0

Goes(t, l) == pc' = [pc EXCEPT ![t] = l]
GoesFor(t, l, w) == Goes(t, l) /\ why' = [why EXCEPT ![t] = w]

Unlocks(t, log, io) ==
  /\ log_mtx' = (IF log /\ log_mtx = t THEN "free" ELSE log_mtx)
  /\ io_mtx' = (IF io /\ io_mtx = t THEN "free" ELSE io_mtx)

-----------------------------------------------------------------------------
(* The card.                                                               *)

log_open_if_needed(t) ==
  /\ pc[t] = "open"
  /\ fd' = TRUE /\ Goes(t, "write")
  /\ UNCHANGED <<made, buf, g_panic, locks, file, closed, why, out, issued, history, bounds>>

\* log_write_direct looks at the descriptor again: what another thread closed is lost.
log_write_direct(t) ==
  /\ pc[t] = "write"
  /\ file' = (IF fd THEN file \o out[t] ELSE file)
  /\ out' = [out EXCEPT ![t] = <<>>]
  /\ Goes(t, CASE why[t] = "line" -> IF t = Writer THEN "report" ELSE "idle"
               [] why[t] = "dump" -> "dumped"
               [] why[t] = "writer" -> "close"
               [] OTHER -> "reset")
  /\ UNCHANGED <<made, buf, g_panic, locks, fd, closed, why, issued, history, bounds>>

log_close == fd' = FALSE /\ closed' = (IF fd THEN Len(file) ELSE closed)

\* log_drain, from the check that there is anything to the write.
Drains(t, w) ==
  /\ out' = [out EXCEPT ![t] = buf]
  /\ GoesFor(t, IF buf = <<>> THEN "drained" ELSE "open", w)

log_drain(t) ==
  /\ pc[t] = "reset"
  /\ buf' = <<>> /\ Goes(t, "drained")
  /\ UNCHANGED <<made, g_panic, locks, card, why, out, issued, history, bounds>>

-----------------------------------------------------------------------------
(* Logging.                                                                *)

Ready(t) == pc[t] = IF t = Writer THEN "report" ELSE "idle"
Done(t) == GoesFor(t, IF t = Writer THEN "report" ELSE "idle", "line")

log_printf(t) ==
  /\ Ready(t) /\ lines < MaxLines /\ lines' = lines + 1
  /\ IF g_panic \/ ~hasLog
     THEN GoesFor(t, "open", "line") /\ out' = [out EXCEPT ![t] = <<Straight>>]
     ELSE GoesFor(t, "lock", "line") /\ UNCHANGED out
  /\ UNCHANGED <<made, buf, g_panic, locks, card, issued, history, flushes, faults>>

log_flush(t) ==
  /\ t # Writer /\ Ready(t) /\ flushes < MaxFlushes /\ flushes' = flushes + 1
  /\ GoesFor(t, "lock", "flush")
  /\ UNCHANGED <<made, buf, g_panic, locks, card, out, issued, history, lines, faults>>

AfterLog(t) == IF why[t] = "flush" THEN "iolock"
               ELSE IF Len(buf) + 1 > BufLines THEN "overflow" ELSE "put"

\* log_lock looks at g_panic; once it waits for the lock it does not look again.
log_lock(t) ==
  /\ pc[t] = "lock"
  /\ Goes(t, IF g_panic \/ ~hasLog THEN AfterLog(t) ELSE "locking")
  /\ UNCHANGED <<made, buf, g_panic, locks, card, why, out, issued, history, bounds>>

LocksLog(t) ==
  /\ pc[t] = "locking" /\ log_mtx = "free"
  /\ log_mtx' = t /\ Goes(t, AfterLog(t))
  /\ UNCHANGED <<made, buf, g_panic, io_mtx, card, why, out, issued, history, bounds>>

io_lock(t) ==
  /\ pc[t] \in {"iolock", "overflow"}
  /\ LET w == IF pc[t] = "overflow" THEN "overflow" ELSE why[t]
     IN  IF g_panic \/ ~hasIo THEN Drains(t, w) ELSE GoesFor(t, "iolocking", w) /\ UNCHANGED out
  /\ strays' = (strays \/ g_panic)
  /\ UNCHANGED <<made, buf, g_panic, locks, card, issued, prior, waited, bounds>>

LocksIo(t) ==
  /\ pc[t] = "iolocking" /\ io_mtx = "free"
  /\ io_mtx' = t /\ Drains(t, why[t])
  /\ UNCHANGED <<made, buf, g_panic, log_mtx, card, issued, history, bounds>>

Put(t) ==
  /\ pc[t] = "put"
  /\ issued' = issued + 1 /\ buf' = Append(buf, issued')
  /\ \/ Done(t) /\ Unlocks(t, TRUE, FALSE)
     \/ ~g_writer_up /\ GoesFor(t, "iolock", "timed") /\ UNCHANGED locks
  /\ UNCHANGED <<made, g_panic, card, out, history, bounds>>

\* What follows log_drain.
Drained(t) ==
  /\ pc[t] = "drained"
  /\ \/ /\ why[t] = "overflow"
        /\ Goes(t, "put") /\ Unlocks(t, FALSE, TRUE) /\ UNCHANGED <<card, why, out>>
     \/ /\ why[t] \in {"timed", "flush"}
        /\ log_close /\ Unlocks(t, TRUE, TRUE)
        /\ Done(t) /\ UNCHANGED <<file, out>>
     \/ /\ why[t] = "panic"
        /\ GoesFor(t, "open", "dump") /\ out' = [out EXCEPT ![t] = <<Dump>>]
        /\ UNCHANGED <<card, locks>>
     \/ /\ why[t] = "last"
        /\ log_close /\ Goes(t, "parked") /\ UNCHANGED <<file, locks, why, out>>
  /\ UNCHANGED <<made, buf, g_panic, issued, history, bounds>>

-----------------------------------------------------------------------------
(* log_writer.                                                             *)

Wakes ==
  /\ pc[Writer] = "idle"
  /\ IF g_panic THEN GoesFor(Writer, "gone", "writer") ELSE GoesFor(Writer, "wlock", "writer")
  /\ UNCHANGED <<made, buf, g_panic, locks, card, out, issued, history, bounds>>

WriterLocks ==
  /\ pc[Writer] = "wlock" /\ (~hasLog \/ log_mtx = "free")
  /\ IF buf = <<>> THEN Goes(Writer, "idle") /\ UNCHANGED log_mtx
     ELSE Goes(Writer, "wswap") /\ log_mtx' = Writer
  /\ UNCHANGED <<made, buf, g_panic, io_mtx, card, why, out, issued, history, bounds>>

WriterSwaps_early ==
  /\ pc[Writer] = "wswap"
  /\ out' = [out EXCEPT ![Writer] = buf] /\ buf' = <<>>
  /\ Goes(Writer, "open") /\ Unlocks(Writer, TRUE, FALSE)
  /\ UNCHANGED <<made, g_panic, card, why, issued, history, bounds>>
\* It takes g_io_mtx before it lets go of the buffer.
WriterSwaps ==
  /\ pc[Writer] = "wswap" /\ io_mtx = "free"
  /\ io_mtx' = Writer /\ log_mtx' = "free"
  /\ out' = [out EXCEPT ![Writer] = buf] /\ buf' = <<>>
  /\ Goes(Writer, "open")
  /\ UNCHANGED <<made, g_panic, card, why, issued, history, bounds>>

WriterCloses ==
  /\ pc[Writer] = "close"
  /\ log_close /\ Unlocks(Writer, FALSE, TRUE) /\ Goes(Writer, "report")
  /\ UNCHANGED <<made, buf, g_panic, file, why, out, issued, history, bounds>>

\* Once a minute it logs what it has done; then it waits again.
Waits ==
  /\ pc[Writer] = "report" /\ Goes(Writer, "idle")
  /\ UNCHANGED <<made, buf, g_panic, locks, card, why, out, issued, history, bounds>>

-----------------------------------------------------------------------------
(* A fault.                                                                *)

Crashed == {t \in Threads : why[t] \in {"panic", "dump", "last"}}

\* crash_handler, and log_panic up to its wait: whatever t was doing, it keeps its locks.
crash_handler(t) ==
  /\ pc[t] # "gone" /\ t \notin Crashed
  /\ faults < MaxFaults /\ faults' = faults + 1
  /\ g_panic' = TRUE
  /\ prior' = (IF g_panic THEN prior ELSE issued)
  /\ GoesFor(t, "panic", "panic") /\ out' = [out EXCEPT ![t] = <<>>]
  /\ UNCHANGED <<made, buf, locks, card, issued, waited, strays, lines, flushes>>

log_panic_forever(t) ==
  /\ pc[t] = "panic"
  /\ hasIo => io_mtx = "free"
  /\ io_mtx' = (IF hasIo THEN t ELSE io_mtx)
  /\ waited' = TRUE /\ Drains(t, "panic")
  /\ UNCHANGED <<made, buf, g_panic, log_mtx, card, issued, prior, strays, bounds>>
\* It waits 300 ms for g_io_mtx at most, and never lets go of it.
log_panic(t) ==
  /\ pc[t] = "panic"
  /\ \/ /\ hasIo => io_mtx = "free"
        /\ io_mtx' = (IF hasIo THEN t ELSE io_mtx)
        /\ waited' = (waited \/ faults = 1)
     \/ /\ hasIo /\ io_mtx # "free"
        /\ UNCHANGED <<io_mtx, waited>>
  /\ Drains(t, "panic")
  /\ UNCHANGED <<made, buf, g_panic, log_mtx, card, issued, prior, strays, bounds>>

\* Its log_flush.
LastFlush(t) ==
  /\ pc[t] = "dumped" /\ Drains(t, "last")
  /\ UNCHANGED <<made, buf, g_panic, locks, card, issued, history, bounds>>

-----------------------------------------------------------------------------

Step(t) ==
  \/ log_open_if_needed(t) \/ log_write_direct(t) \/ log_drain(t)
  \/ log_lock(t) \/ io_lock(t) \/ Put(t) \/ Drained(t)
  \/ log_panic(t) \/ LastFlush(t)

Lock(t) == LocksLog(t) \/ LocksIo(t)

Writes == Wakes \/ WriterLocks \/ WriterSwaps \/ WriterCloses \/ Waits

Next ==
  \/ \E t \in Threads : log_printf(t) \/ log_flush(t) \/ crash_handler(t) \/ Step(t) \/ Lock(t)
  \/ Writes

Spec == Init /\ [][Next]_vars

-----------------------------------------------------------------------------

\* Written already, but still in the buffer.
Draining == \E t \in Threads : pc[t] = "reset"
InFlight == IF pc[Writer] \in {"open", "write"} /\ why[Writer] = "writer" THEN out[Writer] ELSE <<>>

\* Until something faults, every line is written once and in the order it was logged,
\* whoever writes it: the writer, a thread that found the buffer full, one that flushes,
\* or each in turn when there is no writer (log.c:110-151, 284-312).
NothingReordered ==
  hasLog /\ ~g_panic =>
    file \o InFlight \o (IF Draining THEN <<>> ELSE buf) = [i \in 1 .. issued |-> i]

\* When the handler of the first fault gets the card in time, all that was logged before
\* the fault is on it ahead of the dump (log.c:171-178), provided that nobody whom the
\* fault met between the locks goes on to drain without the card's: the writer may close
\* the file under such a thread, and what it was writing is lost.
DumpAfterEarlier ==
  waited /\ faults = 1 /\ hasIo /\ ~strays =>
    \A d \in DOMAIN file : file[d] = Dump =>
      \A i \in 1 .. prior : \E j \in 1 .. d : file[j] = i

\* What the file holds is in the order it happened, before a fault and after one.
LogInOrder == NothingReordered /\ DumpAfterEarlier

\* Nothing waits for ever on the log: a fault dumps and parks whatever its thread held
\* (log.c:33-35, crash.c:110-139), and with the writer up what was logged reaches a closed
\* file though nobody logs again (log.c:36-37).
LogNeverSticks ==
  <>[](/\ \A t \in Crashed : pc[t] = "parked"
       /\ hasLog /\ g_writer_up => closed >= issued \/ g_panic)
=============================================================================
