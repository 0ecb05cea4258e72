----------------------------- MODULE StreamLoad -----------------------------
(***************************************************************************)
(* Opening, loading and closing streamed assets (loader/audio_patch.c).    *)
(* Sys_createSound opens a stream on the game thread and leaves the rest   *)
(* of its file to a loader thread through a queue and a semaphore;         *)
(* Snd_release stops that load and hands the stream to the audio thread,   *)
(* which closes it between grains.  What they must not do to each other:   *)
(* write into a freed buffer, read through a file object the game has      *)
(* freed, decode a closed stream, or run the decoder pool dry.             *)
(***************************************************************************)
EXTENDS Integers, Sequences, FiniteSets

CONSTANTS
  NStreams,   \* bound on the streams that exist at once
  MaxJobs,    \* PROG_MAX_JOBS
  StreamMax,  \* AUDIO_MP3_STREAM_MAX
  Pool,       \* AUDIO_MP3_DECODER_POOL
  Chunks      \* PROG_CHUNKs of a file after its head

VARIABLES
  hw,         \* Stream.hw: takes a hardware decoder
  mem,        \* the Stream and its buffers: "free", "live", "closing"
  file,       \* the game's file object: "none", "open", "closed"
  holds,      \* has a decoder of the pool
  decoders,   \* g_stream_decoders
  loading, cancel,
  visible,    \* streams a Snd points at
  retire,     \* g_stream_retire
  queue, sema,
  lpc, job, left,
  gpc, cur,
  apc, doomed, fed

stream == <<hw, mem, file, holds, decoders>>
loader == <<lpc, job, left>>
game == <<gpc, cur>>
audio == <<apc, doomed, fed>>
vars == <<stream, loading, cancel, visible, retire, queue, sema, loader, game,
          audio>>

Streams == 1 .. NStreams
None == 0

Init ==
  /\ hw = [s \in Streams |-> FALSE] /\ mem = [s \in Streams |-> "free"]
  /\ file = [s \in Streams |-> "none"] /\ holds = [s \in Streams |-> FALSE]
  /\ decoders = 0
  /\ loading = [s \in Streams |-> FALSE] /\ cancel = [s \in Streams |-> FALSE]
  /\ visible = {} /\ retire = {} /\ queue = <<>> /\ sema = 0
  /\ lpc = "wait" /\ job = None /\ left = 0
  /\ gpc = "idle" /\ cur = None
  /\ apc = "snapshot" /\ doomed = {} /\ fed = {}

Set(f, s, v) == [f EXCEPT ![s] = v]

-----------------------------------------------------------------------------
(* The loader: prog_thread *)

WaitSema ==
  /\ lpc = "wait" /\ sema > 0
  /\ sema' = sema - 1 /\ lpc' = "take"
  /\ UNCHANGED <<stream, loading, cancel, visible, retire, queue, job, left, game,
                 audio>>

Take ==
  /\ lpc = "take"
  /\ job' = Head(queue) /\ queue' = Tail(queue) /\ left' = Chunks /\ lpc' = "test"
  /\ UNCHANGED <<stream, loading, cancel, visible, retire, sema, game, audio>>

Test ==
  /\ lpc = "test"
  /\ lpc' = (IF left = 0 \/ cancel[job] THEN "close" ELSE "read")
  /\ UNCHANGED <<stream, loading, cancel, visible, retire, queue, sema, job, left,
                 game, audio>>

\* The game's read callback, into the stream's buffer; nothing read ends the load.
Read ==
  /\ lpc = "read"
  /\ \/ left' = left - 1 /\ lpc' = "test"
     \/ left' = left /\ lpc' = "close"
  /\ UNCHANGED <<stream, loading, cancel, visible, retire, queue, sema, job, game,
                 audio>>

CloseFile ==
  /\ lpc = "close"
  /\ file' = Set(file, job, "closed") /\ lpc' = "done"
  /\ UNCHANGED <<hw, mem, holds, decoders, loading, cancel, visible, retire,
                 queue, sema, job, left, game, audio>>

\* `done' is read by the decoder, in StreamPlay.
Done ==
  /\ lpc = "done"
  /\ lpc' = "clear"
  /\ UNCHANGED <<stream, loading, cancel, visible, retire,
                 queue, sema, job, left, game, audio>>

\* The last touch of the stream: whoever waits may free it after this.
Clear_unlessCancelled ==
  /\ lpc = "clear"
  /\ loading' = Set(loading, job, cancel[job])
  /\ job' = None /\ left' = 0 /\ lpc' = "wait"
  /\ UNCHANGED <<stream, cancel, visible, retire, queue, sema, game, audio>>

Clear ==
  /\ lpc = "clear"
  /\ loading' = Set(loading, job, FALSE)
  /\ job' = None /\ left' = 0 /\ lpc' = "wait"
  /\ UNCHANGED <<stream, cancel, visible, retire, queue, sema, game, audio>>

-----------------------------------------------------------------------------
(* The game thread: Sys_createSound of a stream *)

Unused == {s \in Streams : mem[s] = "free"}

\* The file is opened and its head read.  It stays open only for a file worth
\* the loader, whose head was read in full and holds the header; else the whole
\* of it is read here and the file closed.
Open ==
  /\ gpc = "idle"
  /\ \E s \in Unused, b \in BOOLEAN, f \in {"open", "closed"} :
       /\ \A t \in Unused : s <= t
       /\ cur' = s /\ hw' = Set(hw, s, b) /\ file' = Set(file, s, f)
  /\ gpc' = "cap"
  /\ UNCHANGED <<mem, holds, decoders, loading, cancel, visible, retire, queue, sema,
                 loader, audio>>

\* stream_open reads the count under the lock and decides without it.
Room == decoders < StreamMax

Cap ==
  /\ gpc = "cap"
  /\ gpc' = (IF hw[cur] /\ ~Room THEN "whole" ELSE "decoder")
  /\ UNCHANGED <<stream, loading, cancel, visible, retire, queue, sema, loader, cur,
                 audio>>

Held == {s \in Streams : holds[s]}

\* A decoder of the pool, the ring and the Stream; if one is not to be had what
\* was taken is given back.
OpenDecoder ==
  /\ gpc = "decoder"
  /\ \/ /\ hw[cur] => Cardinality(Held) < Pool
        /\ mem' = Set(mem, cur, "live") /\ holds' = Set(holds, cur, hw[cur])
        /\ gpc' = "count"
     \/ gpc' = "whole" /\ UNCHANGED <<mem, holds>>
  /\ UNCHANGED <<hw, file, decoders, loading, cancel, visible, retire, queue,
                 sema, loader, cur, audio>>

CountDecoder ==
  /\ gpc = "count"
  /\ decoders' = decoders + (IF hw[cur] THEN 1 ELSE 0)
  /\ gpc' = (IF file[cur] = "open" THEN "queue" ELSE "alloc")
  /\ UNCHANGED <<hw, mem, file, holds, loading, cancel, visible, retire,
                 queue, sema, loader, cur, audio>>

\* prog_queue; with the queue full the game reads the rest itself.

Queue ==
  /\ gpc = "queue"
  /\ IF Len(queue) < MaxJobs
     THEN /\ loading' = Set(loading, cur, TRUE) /\ queue' = Append(queue, cur)
          /\ gpc' = "signal" /\ UNCHANGED file
     ELSE /\ file' = Set(file, cur, "closed")
          /\ gpc' = "alloc" /\ UNCHANGED <<loading, queue>>
  /\ UNCHANGED <<hw, mem, holds, decoders, cancel, visible, retire, sema, loader,
                 cur, audio>>

Signal ==
  /\ gpc = "signal"
  /\ sema' = sema + 1 /\ gpc' = "alloc"
  /\ UNCHANGED <<stream, loading, cancel, visible, retire, queue, loader, cur,
                 audio>>

\* A Snd for the stream, or none left: then the stream is closed here.
AllocSnd ==
  /\ gpc = "alloc"
  /\ \/ visible' = visible \cup {cur} /\ gpc' = "idle" /\ cur' = None
     \/ gpc' = "unwind" /\ UNCHANGED <<visible, cur>>
  /\ UNCHANGED <<stream, loading, cancel, retire, queue, sema, loader, audio>>

\* Not streamed: the rest is read and the whole decoded here and now.
DecodeWhole ==
  /\ gpc = "whole"
  /\ file' = Set(file, cur, "none") /\ hw' = Set(hw, cur, FALSE)
  /\ gpc' = "idle" /\ cur' = None
  /\ UNCHANGED <<mem, holds, decoders, loading, cancel, visible, retire, queue, sema,
                 loader, audio>>

-----------------------------------------------------------------------------
(* stream_close, on the game thread when no Snd was left *)

\* The decoder is counted back, under the lock, and the memory freed.
Uncounted(s) == decoders - (IF hw[s] THEN 1 ELSE 0)
Freed(s) ==
  /\ mem' = Set(mem, s, "free") /\ hw' = Set(hw, s, FALSE)
  /\ cancel' = Set(cancel, s, FALSE)

UnwindCancel ==
  /\ gpc = "unwind" /\ loading[cur] /\ ~cancel[cur]
  /\ cancel' = Set(cancel, cur, TRUE)
  /\ UNCHANGED <<stream, loading, visible, retire, queue, sema, loader, game, audio>>

UnwindDecoder ==
  /\ gpc = "unwind" /\ ~loading[cur]
  /\ holds' = Set(holds, cur, FALSE) /\ gpc' = "uncount"
  /\ UNCHANGED <<hw, mem, file, decoders, loading, cancel, visible, retire,
                 queue, sema, loader, cur, audio>>

UnwindFree ==
  /\ gpc = "uncount"
  /\ decoders' = Uncounted(cur) /\ Freed(cur) /\ file' = Set(file, cur, "none")
  /\ gpc' = "idle" /\ cur' = None
  /\ UNCHANGED <<holds, loading, visible, retire, queue, sema, loader, audio>>

-----------------------------------------------------------------------------
(* Snd_release *)

Release ==
  /\ gpc = "idle"
  /\ \E s \in visible : cur' = s
  /\ gpc' = "release"
  /\ UNCHANGED <<stream, loading, cancel, visible, retire, queue, sema, loader,
                 audio>>

StopLoad_noWait ==
  /\ gpc = "release"
  /\ IF loading[cur] THEN cancel' = Set(cancel, cur, TRUE) ELSE UNCHANGED cancel
  /\ gpc' = "detach"
  /\ UNCHANGED <<stream, loading, visible, retire, queue, sema, loader, cur,
                 audio>>

StopLoad ==
  /\ gpc = "release"
  /\ IF loading[cur] THEN cancel' = Set(cancel, cur, TRUE) /\ gpc' = "waiting"
                     ELSE gpc' = "detach" /\ UNCHANGED cancel
  /\ UNCHANGED <<stream, loading, visible, retire, queue, sema, loader, cur,
                 audio>>

LoadStopped ==
  /\ gpc = "waiting" /\ ~loading[cur]
  /\ gpc' = "detach"
  /\ UNCHANGED <<stream, loading, cancel, visible, retire, queue, sema, loader, cur,
                 audio>>

\* Under the lock; the game frees its file object as soon as release returns.
Detach ==
  /\ gpc = "detach"
  /\ visible' = visible \ {cur} /\ retire' = retire \cup {cur}
  /\ file' = Set(file, cur, "none") /\ gpc' = "idle" /\ cur' = None
  /\ UNCHANGED <<hw, mem, holds, decoders, loading, cancel, queue, sema, loader,
                 audio>>

-----------------------------------------------------------------------------
(* The audio thread: mix_grain *)


Snapshot ==
  /\ apc = "snapshot"
  /\ doomed' = retire /\ retire' = {} /\ fed' = visible /\ apc' = "close"
  /\ UNCHANGED <<stream, loading, cancel, visible, queue, sema, loader, game>>

\* stream_close waits for the loader; the `cancel' it sets first, Snd_release has
\* set before it hands over a stream that loads.
CloseDecoder ==
  /\ apc = "close"
  /\ \E s \in doomed : /\ ~loading[s]
                       /\ holds' = Set(holds, s, FALSE)
                       /\ mem' = Set(mem, s, "closing") /\ doomed' = doomed \ {s}
  /\ apc' = "free"
  /\ UNCHANGED <<hw, file, decoders, loading, cancel, visible, retire, queue, sema,
                 loader, game, fed>>

CloseFree ==
  /\ apc = "free"
  /\ \E s \in Streams : mem[s] = "closing" /\ decoders' = Uncounted(s) /\ Freed(s)
  /\ apc' = "close"
  /\ UNCHANGED <<file, holds, loading, visible, retire, queue, sema, loader, game,
                 doomed, fed>>

\* The streams snapshot are decoded and mixed, with no lock held.
DecodeAndMix ==
  /\ apc = "close" /\ doomed = {}
  /\ apc' = "snapshot" /\ fed' = {}
  /\ UNCHANGED <<stream, loading, cancel, visible, retire, queue, sema, loader, game,
                 doomed>>

-----------------------------------------------------------------------------
Loader == WaitSema \/ Take \/ Test \/ Read \/ CloseFile \/ Done \/ Clear
\* Calls the game is free to make, and what it is in the middle of.
Calls == Open \/ Release
Calling == \/ Cap \/ OpenDecoder \/ CountDecoder \/ Queue \/ Signal \/ AllocSnd
           \/ DecodeWhole \/ UnwindCancel \/ UnwindDecoder \/ UnwindFree
           \/ StopLoad \/ LoadStopped \/ Detach
Audio == \/ Snapshot \/ CloseDecoder \/ CloseFree \/ DecodeAndMix

Next == Loader \/ Calls \/ Calling \/ Audio
Spec == Init /\ [][Next]_vars

-----------------------------------------------------------------------------
(* Properties *)

\* Every variable has its type; a semaphore count never exceeds its maximum.
TypeOK ==
  /\ cur \in 0 .. NStreams /\ job \in 0 .. NStreams
  /\ hw \in [Streams -> BOOLEAN] /\ holds \in [Streams -> BOOLEAN]
  /\ mem \in [Streams -> {"free", "live", "closing"}]
  /\ file \in [Streams -> {"none", "open", "closed"}]
  /\ loading \in [Streams -> BOOLEAN] /\ cancel \in [Streams -> BOOLEAN]
  /\ decoders \in 0 .. StreamMax
  /\ visible \subseteq Streams /\ retire \subseteq Streams
  /\ doomed \subseteq Streams /\ fed \subseteq Streams
  /\ queue \in Seq(Streams) /\ Len(queue) <= MaxJobs /\ sema \in 0 .. MaxJobs
  /\ left \in 0 .. Chunks
  /\ lpc \in {"wait", "take", "test", "read", "close", "done", "clear"}
  /\ gpc \in {"idle", "cap", "decoder", "count", "queue", "signal", "alloc", "whole",
              "unwind", "uncount", "release", "waiting", "detach"}
  /\ apc \in {"snapshot", "close", "free"}

\* Whichever way a creation went, no file is left open that the loader is not
\* going to close.
FilesClosed == gpc = "idle" => \A s \in Streams : file[s] = "open" => loading[s]

\* What the loader is about to touch is there: the stream and its buffer until it
\* clears `loading', the game's file object until it has closed it, which it does for
\* every file that is left open; and the audio thread never waits for it (log225: every
\* sound went silent).
LoaderOnLiveStream ==
  /\ TypeOK /\ FilesClosed
  /\ lpc \in {"test", "read", "close", "done", "clear"} => mem[job] = "live"
  /\ lpc \in {"test", "read", "close"} => file[job] = "open"
  /\ \A s \in doomed : ~loading[s]

\* A spare decoder is always there for the short synchronous decodes: the count
\* may lag behind the pool, but never far enough to let a stream too many in.
SpareDecoder == Cardinality(Held) <= StreamMax

\* A call of the game returns, a release that waits for the loader with it, and a stream
\* that is handed over is closed, its decoder back in the pool.
ReleaseCompletes ==
  /\ gpc # "idle" ~> gpc = "idle"
  /\ \A s \in Streams : s \in retire ~> mem[s] = "free" /\ ~holds[s]
=============================================================================
