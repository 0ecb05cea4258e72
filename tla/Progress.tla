------------------------------ MODULE Progress ------------------------------
(***************************************************************************)
(* Four parts of the loader in which something is owed: an END to a sound  *)
(* (VoicePool), the rest of a file to a stream (StreamLoad), a line to the *)
(* card (LogWriter), the state of the pad to the game (Input).             *)
(*                                                                         *)
(* They share no variable, so that a step of one is a stutter of the       *)
(* others, and one after the other is as good as all at once: `part' picks *)
(* whose behaviours these are, and the rest of the parts stand still.      *)
(***************************************************************************)
EXTENDS Integers, Sequences

CONSTANTS
  NPlay, NRetire, NSounds, NSlots, Restarts, MaxPlays, MaxGen, MaxStreams,  \* VoicePool
  NStreams, MaxJobs, StreamMax, Pool, Chunks,                               \* StreamLoad
  Loggers, Writer, BufLines, MaxLines, MaxFlushes, MaxFaults,                    \* LogWriter
  Axes, Fingers, QMax, MaxPad, MaxFrames                                   \* Input

\* The bounds of the parts; a stream more than StreamMax still finds a decoder.
ASSUME ProgressAssumption ==
  /\ NStreams \in Nat /\ MaxJobs \in Nat \ {0} /\ Chunks \in Nat \ {0}
  /\ StreamMax \in Nat \ {0} /\ Pool \in Nat /\ StreamMax < Pool
  /\ Writer \notin Loggers /\ "free" \notin Loggers \cup {Writer}
  /\ BufLines \in Nat \ {0} /\ QMax \in Nat \ {0} /\ Axes \subseteq 0 .. 3

VARIABLES
  part,
  \* VoicePool
  running, chan, stamp, gen, snd, reader, handed, slot, gpc, task, pend, apc, snaps, doomed,
  feeds, closed, owns, over, told, ended, lost,
  \* StreamLoad
  hw, mem, file, holds, decoders, loading, cancel, visible, retire, jobs, sema, lpc, job, left,
  gameAt, cur, audioAt, closing, fed,
  \* LogWriter
  hasLog, hasIo, g_writer_up, buf, g_panic, log_mtx, io_mtx, fd, written, saved, logAt, why, out,
  issued, prior, waited, strays, lines, flushes, faults,
  \* Input
  axis, queue, s_finger_down, s_finger_id, s_wait_clear, last, pending, g_resync_at,
  g_resync_axis, g_axis_joy, pc, menu, toggling, move, held, torn, done, frames

Voice == INSTANCE VoicePool
Load == INSTANCE StreamLoad WITH
  queue <- jobs, gpc <- gameAt, apc <- audioAt, doomed <- closing
Log == INSTANCE LogWriter WITH file <- written, closed <- saved, pc <- logAt
Pad == INSTANCE Input

voice ==
  <<running, chan, stamp, gen, snd, reader, handed, slot, gpc, task, pend, apc, snaps, doomed,
    feeds, closed, owns, over, told, ended, lost>>
load ==
  <<hw, mem, file, holds, decoders, loading, cancel, visible, retire, jobs, sema, lpc, job, left,
    gameAt, cur, audioAt, closing, fed>>
log ==
  <<hasLog, hasIo, g_writer_up, buf, g_panic, log_mtx, io_mtx, fd, written, saved, logAt, why, out,
    issued, prior, waited, strays, lines, flushes, faults>>
pad ==
  <<axis, queue, s_finger_down, s_finger_id, s_wait_clear, last, pending, g_resync_at,
    g_resync_axis, g_axis_joy, pc, menu, toggling, move, held, torn, done, frames>>
vars == <<part, voice, load, log, pad>>

Init ==
  /\ part \in {"voice", "load", "log", "pad"}
  /\ Voice!Init /\ (part # "voice" => running)
  /\ Load!Init
  /\ Log!Init /\ (part # "log" => hasLog /\ g_writer_up)
  /\ Pad!Init

OnlyVoice == part = "voice" /\ UNCHANGED <<part, load, log, pad>>
OnlyLoad == part = "load" /\ UNCHANGED <<part, voice, log, pad>>
OnlyLog == part = "log" /\ UNCHANGED <<part, voice, load, pad>>
OnlyPad == part = "pad" /\ UNCHANGED <<part, voice, load, log>>

Voices == OnlyVoice /\ Voice!Next
Loads == OnlyLoad /\ Load!Next
Logs == OnlyLog /\ Log!Next
Pads == OnlyPad /\ Pad!Next

Next == Voices \/ Loads \/ Logs \/ Pads

\* Sound: the game updates it every frame and runs its callbacks to the end, and the
\* audio thread mixes for as long as it runs.
FairVoice ==
  /\ WF_voice(part = "voice" /\ Voice!Audio)
  /\ WF_voice(part = "voice" /\ \/ Voice!Sys_playSound \/ Voice!Register
                                \/ Voice!Callback \/ Voice!Delivered)
  /\ SF_voice(part = "voice" /\ Voice!Sys_update)

\* Loading: the three threads are scheduled; the game need not call.
FairLoad ==
  /\ WF_load(part = "load" /\ Load!Loader)
  /\ WF_load(part = "load" /\ Load!Calling)
  /\ WF_load(part = "load" /\ Load!Audio)

\* The log: threads run, and who waits for a mutex gets it if it is let go often enough.
FairLog ==
  /\ \A t \in Loggers \cup {Writer} :
       WF_log(part = "log" /\ Log!Step(t)) /\ SF_log(part = "log" /\ Log!Lock(t))
  /\ WF_log(part = "log" /\ Log!Writes)
  /\ SF_log(part = "log" /\ Log!WriterLocks) /\ SF_log(part = "log" /\ Log!WriterSwaps)

\* The pad: the game keeps polling and acts on what it got, and time passes.
FairPad ==
  /\ WF_pad(part = "pad" /\ Pad!Reads)
  /\ WF_pad(part = "pad" /\ Pad!MenuToggles)
  /\ WF_pad(part = "pad" /\ Pad!Passes)

Spec == Init /\ [][Next]_vars /\ FairVoice /\ FairLoad /\ FairLog /\ FairPad

-----------------------------------------------------------------------------
(* What the parts promise; each is stated, and its code named, in its module. *)

\* Every END owed is delivered or discarded in the end (audio_patch.c:1312-1347).
EndsSettle == Voice!EndsSettle

\* The loader writes to a live stream and reads an open file, closes what is left open,
\* and the audio thread never waits for it; and a spare decoder is always there for the
\* short decodes (audio_patch.c:1403-1460, 389-430).
LoadsOnLiveStream == Load!LoaderOnLiveStream /\ Load!SpareDecoder

\* A release returns and its stream is closed (audio_patch.c:438-458, 1936-1992).
ReleaseCompletes == Load!ReleaseCompletes

\* What the log's file holds is in the order it happened (log.c:110-312).
LogInOrder == Log!LogInOrder

\* Nothing waits for ever on the log, and what was logged is written (log.c:33-37).
LogNeverSticks == Log!LogNeverSticks

\* The game sees one finger at a time (input_patch.c:213-220).
OneFingerAtATime == Pad!OneFingerAtATime

\* With no menu up, the game ends up with the sticks where they are (sdl_patch.c:386-399).
SticksCatchUp == Pad!SticksCatchUp
=============================================================================
