----------------------------- MODULE StreamPlay -----------------------------
(***************************************************************************)
(* One streamed asset being played: the loader thread publishes its bytes  *)
(* (prog_thread of loader/audio_patch.c), the audio thread decodes them    *)
(* into the ring (loader/audio_mp3.c, loader/audio_ring.c) and mixes from  *)
(* the ring, the game thread plays, replays, seeks and stops.              *)
(*                                                                         *)
(* The decoder and the ring belong to the audio thread and are read and    *)
(* written between its accesses to what is shared: the mixer lock's        *)
(* regions, `restart', `done' and `loaded'.  A frame of sound is one byte  *)
(* of the asset, a grain is one frame, positions advance by one (no        *)
(* resampling); frame f of the asset is the number f.                      *)
(***************************************************************************)
EXTENDS Integers, FiniteSets

CONSTANTS
  Length,    \* frames the header promises: `want' of the load job
  MaxEs,     \* bytes a decode may need while more are on their way
  Cap,       \* RING_FRAMES
  Budget,    \* FEED_MAX_FRAMES
  HeadFrames, \* frames read before the stream opens: PROG_HEAD_BYTES
  NChans,    \* channels the stream is played on
  MaxGen,    \* bound on plays, seeks and stops
  MaxPos     \* bound on positions: a voice that reaches it stands still

StreamAssumption ==
  /\ Length \in Nat \ {0} /\ MaxEs \in Nat \ {0} /\ Cap \in Nat \ {0, 1}
  /\ Budget \in Nat \ {0} /\ HeadFrames \in 1 .. Length
  /\ NChans \in Nat \ {0} /\ MaxGen \in Nat /\ MaxPos \in Nat
  /\ MaxPos >= Length

VARIABLES
  loop,           \* Stream.loop: set when the sound is created
  loaded, done,   \* AudioStreamFeed
  lpc,            \* the loader: "read", "short" or "full" read, "idle"
  dpos, deos,     \* the decoder
  base, fill, eos, buf,   \* AudioRing
  reader, restart,
  chan,           \* Chan: playing, paused, pos, gen; whether it was repositioned
  gen,
  apc,
  at,             \* feed[i].havepos and feed[i].pos
  snap,           \* the MixSnap of the reader, if it is mixed
  left, w, chunk, got, final,   \* locals of audio_ring_feed and es_end
  finish

feed == <<loop, loaded, done, lpc>>
decoder == <<dpos, deos>>
ring == <<base, fill, eos, buf>>
voice == <<reader, chan, gen>>
locals == <<at, snap, left, w, chunk, got, final, finish>>
vars == <<feed, decoder, ring, voice, restart, apc, locals>>

-----------------------------------------------------------------------------
(* Mutants bear the name of what they replace *)

Chans == 1 .. NChans
Silent == [playing |-> FALSE, paused |-> FALSE, pos |-> 0, gen |-> 0, moved |-> FALSE]
NoSnap == [chan |-> 0, pos |-> 0, gen |-> 0]
NoPos == [have |-> FALSE, pos |-> 0]

Init ==
  /\ loop \in BOOLEAN /\ loaded = HeadFrames /\ done = FALSE /\ lpc = "read"
  /\ dpos = 0 /\ deos = FALSE
  /\ base = 0 /\ fill = 0 /\ eos = FALSE /\ buf = [i \in 0 .. Cap - 1 |-> -1]
  /\ reader = 0 /\ restart = FALSE
  /\ chan = [c \in Chans |-> Silent] /\ gen = 0
  /\ apc = "snapshot" /\ at = NoPos /\ snap = NoSnap
  /\ left = 0 /\ w = 0 /\ chunk = 0 /\ got = 0 /\ final = FALSE /\ finish = FALSE

-----------------------------------------------------------------------------
(* The loader: prog_thread *)

\* A read returns what it likes, up to what is missing; nothing at the end of
\* the file or when the handle has gone bad.
LoadChunk ==
  /\ lpc = "read" /\ loaded < Length
  /\ \/ loaded' = loaded + 1 /\ lpc' = lpc
     \/ lpc' = "end" /\ UNCHANGED loaded
  /\ UNCHANGED <<loop, done, decoder, ring, voice, restart, apc, locals>>

LoadDone_fullOnly ==
  /\ lpc = "read" /\ loaded = Length
  /\ done' = TRUE /\ lpc' = "idle"
  /\ UNCHANGED <<loop, loaded, decoder, ring, voice, restart, apc, locals>>

LoadDone ==
  /\ lpc = "end" \/ (lpc = "read" /\ loaded = Length)
  /\ done' = TRUE /\ lpc' = "idle"
  /\ UNCHANGED <<loop, loaded, decoder, ring, voice, restart, apc, locals>>

-----------------------------------------------------------------------------
(* The game *)

\* Sys_playSound: claims the stream and asks for it from the top.
Sys_playSound ==
  /\ gen < MaxGen
  /\ \E c \in Chans, p \in BOOLEAN :
       /\ chan' = [chan EXCEPT ![c] = [playing |-> TRUE, paused |-> p, pos |-> 0,
                                       gen |-> gen + 1, moved |-> FALSE]]
       /\ reader' = c
  /\ restart' = TRUE /\ gen' = gen + 1
  /\ UNCHANGED <<feed, decoder, ring, apc, locals>>

Ch_setPosition ==
  /\ gen < MaxGen
  /\ \E c \in Chans, p \in 0 .. Length :
       /\ chan[c].playing
       /\ chan' = [chan EXCEPT ![c] = [@ EXCEPT !.pos = p, !.gen = gen + 1,
                                                !.moved = TRUE]]
  /\ gen' = gen + 1
  /\ UNCHANGED <<feed, decoder, ring, reader, restart, apc, locals>>

Ch_stop ==
  /\ gen < MaxGen
  /\ \E c \in Chans :
       /\ chan[c].playing
       /\ chan' = [chan EXCEPT ![c] = [@ EXCEPT !.playing = FALSE,
                                                !.gen = gen + 1]]
  /\ gen' = gen + 1
  /\ UNCHANGED <<feed, decoder, ring, reader, restart, apc, locals>>

\* The channel keeps its gen: a grain being mixed is not disowned.
Ch_setPaused ==
  /\ gen < MaxGen
  /\ \E c \in Chans, p \in BOOLEAN :
       /\ chan[c].playing /\ chan[c].paused # p
       /\ chan' = [chan EXCEPT ![c].paused = p]
  /\ gen' = gen + 1
  /\ UNCHANGED <<feed, decoder, ring, reader, restart, apc, locals>>

-----------------------------------------------------------------------------
(* The audio thread: the first region under the lock *)

\* Channels that lost the stream to another are finished here (chan_finish).
Snapshot ==
  /\ apc = "snapshot"
  /\ at' = (IF reader # 0 /\ chan[reader].playing
            THEN [have |-> TRUE, pos |-> chan[reader].pos] ELSE NoPos)
  /\ snap' = (IF reader # 0 /\ chan[reader].playing /\ ~chan[reader].paused
              THEN [chan |-> reader, pos |-> chan[reader].pos,
                    gen |-> chan[reader].gen]
              ELSE NoSnap)
  /\ chan' = [c \in Chans |-> IF c = reader \/ chan[c].paused THEN chan[c]
                              ELSE [chan[c] EXCEPT !.playing = FALSE]]
  /\ apc' = "restart"
  /\ UNCHANGED <<feed, decoder, ring, reader, gen, restart,
                 left, w, chunk, got, final, finish>>

-----------------------------------------------------------------------------
(* Decoding, with no lock held *)

\* The test of `restart', with the rewind of the decoder and the reset of the
\* ring; the flag is cleared by a write of its own.
RestartCheck ==
  /\ apc = "restart"
  /\ IF restart
     THEN /\ dpos' = 0 /\ deos' = FALSE
          /\ base' = 0 /\ fill' = 0 /\ eos' = FALSE /\ buf' = buf
          /\ apc' = "clear"
     ELSE apc' = "retire" /\ UNCHANGED <<decoder, ring>>
  /\ UNCHANGED <<feed, voice, restart, locals>>

RestartClear ==
  /\ apc = "clear"
  /\ restart' = FALSE /\ apc' = "retire"
  /\ UNCHANGED <<feed, decoder, ring, voice, locals>>

\* audio_ring_retire: frames the reader is past are dropped.
Dropped(consumed) ==
  IF consumed <= base THEN 0
  ELSE IF consumed - base >= fill THEN fill ELSE consumed - base

Retire ==
  /\ apc = "retire"
  /\ LET drop == IF at.have THEN Dropped(at.pos) ELSE 0 IN
       /\ base' = base + drop
       /\ fill' = (IF drop > fill THEN 0 ELSE fill - drop)
  /\ left' = Budget /\ at' = NoPos /\ apc' = "feed"
  /\ UNCHANGED <<feed, decoder, eos, buf, voice, restart, snap, w, chunk,
                 got, final, finish>>

Least(S) == CHOOSE x \in S : \A y \in S : x <= y

\* audio_ring_feed: as far as the end of the buffer at a time.
Start_fromZero == fill % Cap
Start == (base + fill) % Cap
Chunk == Least({Cap - fill, Cap - Start, left})

Feed ==
  /\ apc = "feed"
  /\ IF fill < Cap /\ left > 0 /\ ~eos
     THEN /\ w' = Start
          /\ chunk' = Chunk
          /\ apc' = "done" /\ left' = left
     ELSE /\ left' = 0 /\ apc' = "mix" /\ UNCHANGED <<w, chunk>>
  /\ UNCHANGED <<feed, decoder, ring, voice, restart, at, snap, got, final,
                 finish>>

\* The callback's frames go into the ring; it may be called again for the rest.
Absorb(n, ended) ==
  /\ fill' = fill + n /\ eos' = (eos \/ ended)
  /\ IF ended \/ n = 0 THEN apc' = "mix" /\ left' = 0
                       ELSE apc' = "feed" /\ left' = left - n
  /\ w' = 0 /\ chunk' = 0 /\ got' = 0 /\ final' = FALSE

\* es_end reads `done' first ...
ReadDone ==
  /\ apc = "done"
  /\ IF got < chunk THEN final' = done /\ apc' = "loaded"
          /\ UNCHANGED <<fill, left, eos, w, chunk, got>>
     ELSE Absorb(got, FALSE)
  /\ UNCHANGED <<feed, decoder, base, buf, voice, restart, at, snap, finish>>

\* ... and `loaded' after it; then audio_mp3_stream_read decodes one frame, or
\* starves, or has reached the end and stream_fill_cb rewinds a looping stream.
Avail == IF dpos < loaded THEN loaded - dpos ELSE 0
Starved == ~deos /\ ~final /\ Avail < MaxEs
AtEnd == deos \/ (final /\ Avail = 0)

DecodeFrame ==
  /\ apc = "loaded" /\ ~AtEnd /\ ~Starved
  /\ buf' = [buf EXCEPT ![w + got] = dpos]
  /\ dpos' = dpos + 1 /\ got' = got + 1 /\ apc' = "done"
  /\ UNCHANGED <<feed, deos, base, fill, eos, voice, restart, at, snap, left, w,
                 chunk, final, finish>>

Starve ==
  /\ apc = "loaded" /\ ~AtEnd /\ Starved
  /\ Absorb(got, FALSE)
  /\ UNCHANGED <<feed, decoder, base, buf, voice, restart, at, snap, finish>>

End ==
  /\ apc = "loaded" /\ AtEnd
  /\ IF got = 0 /\ loop /\ loaded > 0
     THEN /\ dpos' = 0 /\ deos' = FALSE /\ apc' = "done"
          /\ UNCHANGED <<fill, left, eos, w, chunk, got, final>>
     ELSE /\ deos' = TRUE /\ dpos' = dpos
          /\ Absorb(got, got = 0)
  /\ UNCHANGED <<feed, base, buf, voice, restart, at, snap, finish>>

-----------------------------------------------------------------------------
(* Mixing, and the second region under the lock *)

Holds(i) == base <= i /\ i < base + fill

\* A frame is interpolated from two; outside the window the voice finishes once
\* the decoder is done and the window drained, else keeps time in silence.
Drained_eosAlone == eos
Drained == eos /\ snap.pos + 1 >= base + fill

Mix ==
  /\ apc = "mix"
  /\ IF snap.chan = 0 THEN UNCHANGED <<snap, finish>>
     ELSE /\ finish' = (~(Holds(snap.pos) /\ Holds(snap.pos + 1)) /\ Drained)
          /\ snap' = (IF finish' \/ snap.pos = MaxPos THEN snap
                      ELSE [snap EXCEPT !.pos = @ + 1])
  /\ apc' = "reconcile"
  /\ UNCHANGED <<feed, decoder, ring, voice, restart, at, left, w, chunk, got,
                 final>>

Current == /\ snap.chan # 0 /\ chan[snap.chan].gen = snap.gen
           /\ chan[snap.chan].playing

Reconcile ==
  /\ apc = "reconcile"
  /\ chan' = (IF Current
              THEN [chan EXCEPT ![snap.chan] =
                      [@ EXCEPT !.pos = snap.pos, !.playing = ~finish]]
              ELSE chan)
  /\ apc' = "snapshot" /\ snap' = NoSnap /\ finish' = FALSE
  /\ UNCHANGED <<feed, decoder, ring, reader, gen, restart, at, left, w, chunk,
                 got, final>>

-----------------------------------------------------------------------------
Loader == LoadChunk \/ LoadDone
Game == Sys_playSound \/ Ch_setPosition \/ Ch_stop \/ Ch_setPaused
Audio == \/ Snapshot \/ RestartCheck \/ RestartClear \/ Retire
         \/ Feed \/ ReadDone \/ DecodeFrame \/ Starve \/ End
         \/ Mix \/ Reconcile
Next == Loader \/ Game \/ Audio
Spec == Init /\ [][Next]_vars

\* The audio thread runs once per grain; the loader runs when the others sleep.
FairSpec == Spec /\ WF_vars(Audio) /\ WF_vars(Loader)

-----------------------------------------------------------------------------
(* Properties *)

\* Every variable has its type; the ring's window fits it, and a callback writes
\* inside the buffer and beside the window.
TypeOK ==
  /\ loop \in BOOLEAN /\ loaded \in HeadFrames .. Length /\ done \in BOOLEAN
  /\ lpc \in {"read", "end", "idle"}
  /\ dpos \in 0 .. Length /\ deos \in BOOLEAN
  /\ base \in Nat /\ fill \in 0 .. Cap /\ eos \in BOOLEAN
  /\ buf \in [0 .. Cap - 1 -> -1 .. Length - 1]
  /\ reader \in Chans \cup {0} /\ restart \in BOOLEAN
  /\ chan \in [Chans -> [playing : BOOLEAN, paused : BOOLEAN, pos : Nat,
                         gen : 0 .. gen, moved : BOOLEAN]]
  /\ gen \in 0 .. MaxGen
  /\ apc \in {"snapshot", "restart", "clear", "retire", "feed", "done", "loaded",
              "mix", "reconcile"}
  /\ left \in 0 .. Budget /\ w \in 0 .. Cap - 1 /\ chunk \in 0 .. Cap
  /\ got \in 0 .. chunk /\ final \in BOOLEAN /\ finish \in BOOLEAN
  /\ apc \in {"done", "loaded"} => w + chunk <= Cap /\ fill + chunk <= Cap

\* The decoder writes inside the buffer and beside the window (TypeOK), and frame f of
\* the window is frame f of the track (of the pass it is in, when the
\* stream loops): whatever is mixed at a position is what belongs there.
WindowHoldsTrack ==
  /\ TypeOK
  /\ \A f \in base .. base + fill - 1 :
       buf[f % Cap] = (IF loop /\ done THEN f % loaded ELSE f)

\* A voice that was never repositioned is never behind the window, where it could
\* hear nothing for the length of the track (log170-172).
ReaderInWindow ==
  \A c \in Chans :
    c = reader /\ chan[c].playing /\ ~chan[c].moved /\ ~restart
      => base <= chan[c].pos

\* A voice mixed to its end has reached the last frame the file had, and the file
\* was read to its end: no END cuts a track short, by an end of stream latched
\* in an earlier play, seen before the window drained, or taken from a load that
\* had yet to catch up.
EndAfterLastFrame ==
  [][\A c \in Chans :
       chan[c].playing /\ ~chan'[c].playing /\ apc = "reconcile"
       /\ apc' = "snapshot"
         => done /\ snap.pos + 1 >= loaded]_vars

\* What the game set while a grain was mixed is not undone: no position goes back
\* to, or on from, where it was before a seek.
SeeksStand ==
  [][\A c \in Chans :
       apc = "reconcile" /\ apc' = "snapshot"
       /\ chan'[c].pos # chan[c].pos
         => chan'[c].pos = chan[c].pos + 1]_vars

\* A voice that does not loop and is not left paused ends, short or late as its file may be.
TracksEnd == \A c \in Chans :
  ~loop /\ chan[c].playing ~> ~chan[c].playing \/ chan[c].paused
=============================================================================
