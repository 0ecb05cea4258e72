------------------------------ MODULE VoicePool ------------------------------
(***************************************************************************)
(* The voices of loader/audio_patch.c and the END each one owes: the game  *)
(* thread plays, stops, pauses, releases and calls System::update; the     *)
(* audio thread snapshots the voices under the lock, mixes without it and  *)
(* reconciles under the lock.                                              *)
(*                                                                         *)
(* One action per region of code under the mixer lock.  What only the game *)
(* thread touches rides along with the region before it.  Sample positions *)
(* are left out: a mixed voice may or may not reach its end in a grain.    *)
(* The companion's slots (FModAudioSystemChannelInfo) are not in the       *)
(* repository: they are modelled from how audio_patch.c and main.c use     *)
(* them.                                                                   *)
(***************************************************************************)
EXTENDS Integers, Sequences, FiniteSets

CONSTANTS
  NPlay,      \* g_nchannels, the voices that can be played on
  NRetire,    \* RETIRE_SLOTS, channels kept for ENDs of stolen voices
  NSounds,    \* MAX_SOUNDS
  NSlots,     \* the companion's channel slots: as many as NPlay (main.c)
  Restarts,   \* whether HandleChannelEnd replays a looping sound
  MaxPlays,   \* bound on the calls of playSound
  MaxGen,     \* bound on g_chan_gen: plays, stops, releases and seeks
  MaxStreams  \* bound on the streams opened

ASSUME PoolAssumption ==
  /\ NPlay \in Nat \ {0} /\ NRetire \in Nat /\ NSounds \in Nat \ {0}
  /\ NSlots \in Nat \ {0} /\ Restarts \in BOOLEAN
  /\ MaxPlays \in Nat /\ MaxGen \in Nat /\ MaxStreams \in Nat

VARIABLES
  running,  \* g_running: the output port and the audio thread came up
  chan,     \* g_chan: the playable channels, then the retire slots
  stamp,    \* g_chan_stamp
  gen,      \* g_chan_gen
  snd,      \* g_snd: each sound in use and the stream it owns
  reader,   \* the channel each stream feeds
  handed,   \* g_stream_retire
  slot,     \* the companion's slots
  \* The game thread.
  gpc, task,
  pend,     \* the completions Sys_update has collected and not delivered
  \* The audio thread.
  apc,
  snaps,    \* g_msnap
  doomed, feeds,
  closed,   \* streams closed and freed
  \* History.  A voice is one playSound; its number is its stamp.
  owns,     \* the slot each voice was played for
  over,     \* voices that finished
  told,     \* the ENDs delivered: the voice, and the slot that heard of it
  ended,    \* voices that were stopped, released or reclaimed
  lost      \* voices stolen while playing, or with no retire slot free for the END

voices == <<chan, stamp, gen>>
game == <<gpc, task, pend>>
audio == <<apc, snaps, doomed, feeds, closed>>
history == <<owns, over, told, ended, lost>>
vars == <<running, voices, snd, reader, handed, slot, game, audio, history>>

-----------------------------------------------------------------------------
(* Data; mutants, here and below, bear the name of what they replace *)

PlayChans == 1 .. NPlay
RetireChans == NPlay + 1 .. NPlay + NRetire
Chans == PlayChans \cup RetireChans
Sounds == 1 .. NSounds
Slots == 1 .. NSlots
Streams == 1 .. MaxStreams
Voices == 1 .. MaxPlays

\* memset(c, 0, ...); `voice' is history: the playSound the channel serves.
Blank == [used |-> FALSE, playing |-> FALSE, paused |-> FALSE, snd |-> 0,
          owner |-> 0, cb |-> FALSE, endPending |-> FALSE, stamp |-> 0,
          gen |-> 0, voice |-> 0]
NoSound == [used |-> FALSE, st |-> 0]
FreeSlot == [inUse |-> FALSE, looping |-> FALSE, ended |-> FALSE, chan |-> 0,
             snd |-> 0, voice |-> 0]
NoTask == [slot |-> 0, snd |-> 0, paused |-> FALSE, looping |-> FALSE,
           chan |-> 0, back |-> "idle"]

\* chan_finish
Finished(c) == [c EXCEPT !.playing = FALSE, !.endPending = TRUE]

\* What Ch_stop, Snd_release and a reclaimed slot do to a channel.
Killed(c, g) == [c EXCEPT !.playing = FALSE, !.used = FALSE,
                          !.endPending = FALSE, !.cb = FALSE, !.gen = g]

Init ==
  /\ running \in BOOLEAN
  /\ chan = [c \in Chans |-> Blank] /\ stamp = 0 /\ gen = 0
  /\ snd = [s \in Sounds |-> NoSound]
  /\ reader = [st \in Streams |-> 0] /\ handed = <<>>
  /\ slot = [o \in Slots |-> FreeSlot]
  /\ gpc = "idle" /\ task = NoTask /\ pend = <<>>
  /\ apc = "idle" /\ snaps = {} /\ doomed = {} /\ feeds = {} /\ closed = {}
  /\ owns = [v \in Voices |-> 0]
  /\ over = {} /\ told = {} /\ ended = {} /\ lost = {}

-----------------------------------------------------------------------------
(* The game thread: sounds *)

Opened == {snd[s].st : s \in Sounds} \cup {st \in Streams : reader[st] # 0}
            \cup closed \cup doomed \cup {handed[i] : i \in DOMAIN handed}

\* createSound: a decoded sound, or one with a stream of its own.
Sys_createSound ==
  /\ gpc = "idle"
  /\ \E s \in Sounds, st \in {0} \cup (Streams \ Opened) :
       /\ ~snd[s].used /\ \A r \in 1 .. s - 1 : snd[r].used
       /\ \A u \in Streams \ Opened : st <= u
       /\ snd' = [snd EXCEPT ![s] = [used |-> TRUE, st |-> st]]
  /\ UNCHANGED <<running, voices, reader, handed, slot, game, audio, history>>

ClosedHere_always(st) == {st} \ {0}

\* The stream of a released sound is handed over when the audio thread runs and
\* the list has room, else freed by the game thread.
Handing(st) == st # 0 /\ running /\ Len(handed) < NSounds
ClosedHere(st) == IF Handing(st) THEN {} ELSE {st} \ {0}
HandedOver(st) == IF Handing(st) THEN Append(handed, st) ELSE handed

ChansOf(s) == {c \in PlayChans : chan[c].used /\ chan[c].snd = s}

\* Voices of the sound go without an END: its source is gone.
Snd_release ==
  /\ gpc = "idle" /\ gen < MaxGen
  /\ \E s \in Sounds :
       LET killed == ChansOf(s)
           st == snd[s].st
           Bump(c) == gen + Cardinality({d \in killed : d <= c})
       IN
       /\ snd[s].used
       /\ chan' = [c \in Chans |-> IF c \in killed
                                   THEN Killed(chan[c], Bump(c)) ELSE chan[c]]
       /\ gen' = gen + Cardinality(killed)
       /\ ended' = ended \cup {chan[c].voice : c \in killed}
       /\ snd' = [snd EXCEPT ![s] = NoSound]
       /\ handed' = HandedOver(st) /\ closed' = closed \cup ClosedHere(st)
  /\ UNCHANGED <<running, stamp, reader, slot, game, apc, snaps, doomed, feeds,
                 owns, over, told, lost>>

-----------------------------------------------------------------------------
(* The game thread: playing *)

\* slot_rank: how dead the voice of a slot is.
Rank(o) ==
  LET c == chan[slot[o].chan] IN
  CASE slot[o].chan = 0 -> 0
    [] ~c.used \/ c.owner # o -> 0
    [] c.endPending -> 3
    [] ~c.playing \/ slot[o].ended -> 1
    [] c.paused -> 2
    [] OTHER -> 3
StampOf(o) == IF slot[o].chan = 0 THEN 0 ELSE chan[slot[o].chan].stamp
Deader(o, p) ==
  \/ Rank(o) < Rank(p)
  \/ Rank(o) = Rank(p) /\ StampOf(o) < StampOf(p)
  \/ Rank(o) = Rank(p) /\ StampOf(o) = StampOf(p) /\ o < p
Reclaimed == {o \in Slots : /\ \A p \in Slots : slot[p].inUse
                            /\ Rank(o) < 3
                            /\ \A p \in Slots \ {o} : Deader(o, p)}

\* The companion's own scan: the first slot not in use, or the sound is refused.
PickSlot(t) ==
  LET free == {o \in Slots : ~slot'[o].inUse} IN
  IF free = {} THEN gpc' = "idle" /\ task' = NoTask
  ELSE /\ gpc' = "play"
       /\ task' = [t EXCEPT !.slot = CHOOSE o \in free : \A p \in free : o <= p]

\* audio_slots_ensure_free, before the companion looks for a slot: with every
\* slot in use the deadest is taken from its owner.
EnsureFree ==
  /\ gpc = "idle" /\ stamp < MaxPlays /\ gen < MaxGen
  /\ \/ /\ Reclaimed = {} /\ UNCHANGED <<voices, slot, ended>>
     \/ \E o \in Reclaimed :
          LET c == slot[o].chan IN
          /\ slot' = [slot EXCEPT ![o] = [FreeSlot EXCEPT !.chan = c]]
          /\ IF Rank(o) > 0
             THEN /\ chan' = [chan EXCEPT ![c] = Killed(@, gen + 1)]
                  /\ gen' = gen + 1
                  /\ ended' = ended \cup {chan[c].voice}
             ELSE UNCHANGED <<chan, gen, ended>>
          /\ UNCHANGED stamp
  /\ \E s \in Sounds, paused \in BOOLEAN, looping \in {FALSE, Restarts} :
       /\ snd[s].used
       /\ PickSlot([NoTask EXCEPT !.snd = s, !.paused = paused,
                                  !.looping = looping])
  /\ UNCHANGED <<running, snd, reader, handed, pend, audio, owns, over, told,
                 lost>>

\* chan_alloc: a free channel, else the oldest finished one, else the oldest.
Oldest(S) == {c \in S : \A d \in S : chan[c].stamp <= chan[d].stamp}
Allocated ==
  LET free == {c \in PlayChans : ~chan[c].used}
      done == {c \in PlayChans : ~chan[c].playing}
  IN IF free # {} THEN {CHOOSE c \in free : \A d \in free : c <= d}
     ELSE IF done # {} THEN Oldest(done) ELSE Oldest(PlayChans)

\* chan_retire: an END still owed moves to a retire slot.
Owes(c) == c.used /\ c.endPending /\ c.cb
FreeRetire == {r \in RetireChans : ~chan[r].used}
Retired_noCallback(c) == [Blank EXCEPT !.used = TRUE, !.endPending = TRUE,
                                       !.owner = c.owner, !.voice = c.voice]
Retired(c) == [Blank EXCEPT !.used = TRUE, !.cb = TRUE, !.endPending = TRUE,
                            !.owner = c.owner, !.voice = c.voice]
Retiring(c) ==
  IF Owes(chan[c]) /\ FreeRetire # {}
  THEN {CHOOSE r \in FreeRetire : \A q \in FreeRetire : r <= q} ELSE {}

\* chan_take and the rest of playSound's locked region.
Taken(c) ==
  [used |-> TRUE, playing |-> TRUE, paused |-> task.paused, snd |-> task.snd, owner |-> 0,
   cb |-> FALSE, endPending |-> FALSE, stamp |-> stamp + 1, gen |-> gen + 1,
   voice |-> stamp + 1]

\* System::playSound for the slot that was picked.
Sys_playSound ==
  /\ gpc = "play"
  /\ \E c \in Allocated :
       /\ chan' = [d \in Chans |->
                     IF d = c THEN Taken(c)
                     ELSE IF d \in Retiring(c) THEN Retired(chan[c]) ELSE chan[d]]
       /\ lost' = (IF (Owes(chan[c]) /\ FreeRetire = {})
                      \/ (chan[c].used /\ chan[c].playing)
                   THEN lost \cup {chan[c].voice} ELSE lost)
       /\ LET st == snd[task.snd].st IN
            reader' = (IF st # 0 THEN [reader EXCEPT ![st] = c] ELSE reader)
       /\ task' = [task EXCEPT !.chan = c]
  /\ stamp' = stamp + 1 /\ gen' = gen + 1
  /\ gpc' = "register"
  /\ UNCHANGED <<running, snd, handed, slot, pend, audio, owns, over, told,
                 ended>>

\* setUserData and setCallback on the new voice, back in the companion.
Register ==
  /\ gpc = "register"
  /\ chan' = [chan EXCEPT ![task.chan].owner = task.slot, ![task.chan].cb = TRUE]
  /\ slot' = [slot EXCEPT ![task.slot] =
                [inUse |-> TRUE, looping |-> task.looping, ended |-> FALSE,
                 chan |-> task.chan, snd |-> task.snd,
                 voice |-> chan[task.chan].voice]]
  /\ owns' = [owns EXCEPT ![chan[task.chan].voice] = task.slot]
  /\ gpc' = task.back /\ task' = NoTask
  /\ UNCHANGED <<running, stamp, gen, snd, reader, handed, pend, audio, over,
                 told, ended, lost>>

-----------------------------------------------------------------------------
(* The game thread: a voice's own calls, through the slot that holds it *)

\* The companion keeps a slot's Channel* after the sound ended, so each of these
\* may reach a channel that serves another slot by now.
Held(o) == slot[o].inUse

Foreign_ignored(c, o) == FALSE

\* Ch_stop under g_stop_owner: another slot's voice is left alone.
Foreign(c, o) == c.used /\ c.owner # o

\* StopChannel: audio_slot_stop_begin, Ch_stop, ChannelInfo::Reset, and
\* audio_slot_stop_end.
StopChannel ==
  /\ gpc = "idle" /\ gen < MaxGen
  /\ \E o \in Slots :
       LET c == slot[o].chan IN
       /\ Held(o)
       /\ IF Foreign(chan[c], o)
          THEN UNCHANGED <<chan, gen>>
          ELSE /\ chan' = [chan EXCEPT ![c] = Killed(@, gen + 1)]
               /\ gen' = gen + 1
       /\ ended' = ended \cup {slot[o].voice}
       /\ slot' = [slot EXCEPT ![o] = [FreeSlot EXCEPT !.chan = c]]
  /\ UNCHANGED <<running, stamp, snd, reader, handed, gpc, task, pend, audio,
                 owns, over, told, lost>>

Ch_setPaused ==
  /\ gpc = "idle"
  /\ \E o \in Slots, paused \in BOOLEAN :
       /\ Held(o)
       /\ chan' = [chan EXCEPT ![slot[o].chan].paused = paused]
  /\ UNCHANGED <<running, stamp, gen, snd, reader, handed, slot, game, audio,
                 history>>

Ch_setPosition ==
  /\ gpc = "idle" /\ gen < MaxGen
  /\ \E o \in Slots :
       /\ Held(o) /\ chan[slot[o].chan].snd # 0
       /\ chan' = [chan EXCEPT ![slot[o].chan].gen = gen + 1]
  /\ gen' = gen + 1
  /\ UNCHANGED <<running, stamp, snd, reader, handed, slot, game, audio,
                 history>>

-----------------------------------------------------------------------------
(* The game thread: System::update *)

\* Sys_update collects every completion that has a callback, then calls the
\* callbacks with the lock released.
Collected == {c \in Chans : chan[c].endPending /\ chan[c].cb}
InOrder(S) ==
  {q \in [1 .. Cardinality(S) -> S] : \A i, j \in DOMAIN q : i < j => q[i] < q[j]}

Sys_update ==
  /\ gpc = "idle"
  /\ \E q \in InOrder(Collected) :
       pend' = [i \in 1 .. Cardinality(Collected) |->
                  [chan |-> q[i], voice |-> chan[q[i]].voice]]
  /\ chan' = [c \in Chans |-> IF c \in Collected
                              THEN [chan[c] EXCEPT !.endPending = FALSE]
                              ELSE chan[c]]
  /\ gpc' = (IF Collected = {} THEN "idle" ELSE "deliver")
  /\ UNCHANGED <<running, stamp, gen, snd, reader, handed, slot, task, audio,
                 history>>

\* One callback.  HandleChannelEnd finds its slot with getUserData; it replays a
\* looping sound for the same slot, and marks the slot of any other as ended.
Callback ==
  /\ gpc = "deliver" /\ pend # <<>>
  /\ LET o == chan[Head(pend).chan].owner
         again == /\ o # 0 /\ slot[o].inUse /\ slot[o].looping
                  /\ Restarts /\ snd[slot[o].snd].used
                  /\ stamp < MaxPlays /\ gen < MaxGen
     IN /\ told' = told \cup {[voice |-> Head(pend).voice, owner |-> o,
                                 chan |-> Head(pend).chan]}
        /\ IF again
           THEN /\ gpc' = "play" /\ slot' = slot
                /\ task' = [slot |-> o, snd |-> slot[o].snd, paused |-> FALSE,
                            looping |-> TRUE, chan |-> 0, back |-> "called"]
           ELSE /\ gpc' = "called" /\ task' = task
                /\ slot' = (IF o = 0 THEN slot
                            ELSE [slot EXCEPT ![o].ended = TRUE])
  /\ UNCHANGED <<running, voices, snd, reader, handed, pend, audio, owns, over,
                 ended, lost>>

\* Back in Sys_update: a retire slot that has been delivered is free again.
Delivered ==
  /\ gpc = "called"
  /\ LET c == Head(pend).chan IN
       chan' = (IF c \in RetireChans
                THEN [chan EXCEPT ![c].used = FALSE, ![c].cb = FALSE] ELSE chan)
  /\ pend' = Tail(pend)
  /\ gpc' = (IF Tail(pend) = <<>> THEN "idle" ELSE "deliver")
  /\ UNCHANGED <<running, stamp, gen, snd, reader, handed, slot, task, audio,
                 history>>

-----------------------------------------------------------------------------
(* The audio thread: mix_grain *)

Mixable(c) == /\ chan[c].used /\ chan[c].playing /\ ~chan[c].paused
              /\ chan[c].snd # 0
StreamOf(c) == snd[chan[c].snd].st
\* A channel whose stream feeds another channel is finished, not mixed.
Deposed(c) == Mixable(c) /\ StreamOf(c) # 0 /\ reader[StreamOf(c)] # c

Doomed == {handed[i] : i \in DOMAIN handed}

\* The first locked region.
Snapshot ==
  /\ running /\ apc = "idle"
  /\ doomed' = Doomed /\ handed' = <<>>
  /\ feeds' = {snd[s].st : s \in {s \in Sounds : snd[s].used}} \ {0}
  /\ LET out == {c \in PlayChans : Deposed(c)}
         in == {c \in PlayChans : Mixable(c) /\ ~Deposed(c)}
     IN /\ snaps' = {[chan |-> c, gen |-> chan[c].gen, st |-> StreamOf(c),
                      voice |-> chan[c].voice] : c \in in}
        /\ chan' = [c \in Chans |-> IF c \in out THEN Finished(chan[c])
                                    ELSE chan[c]]
        /\ over' = over \cup {chan[c].voice : c \in out}
  /\ apc' = "close"
  /\ UNCHANGED <<running, stamp, gen, snd, reader, slot, game, closed, owns,
                 told, ended, lost>>

\* Unlocked: the streams of released sounds are closed here, and only here while
\* the thread runs; then the others are fed.
CloseAndFeed ==
  /\ apc = "close"
  /\ closed' = closed \cup doomed /\ doomed' = {}
  /\ apc' = "mix"
  /\ UNCHANGED <<running, voices, snd, reader, handed, slot, game, snaps, feeds,
                 history>>

Current_anyGen(m) ==
  LET c == chan[m.chan] IN
  c.used /\ c.playing /\ c.snd # 0

\* Whether a snapshot still speaks of what its channel is doing.
Current(m) ==
  LET c == chan[m.chan] IN
  c.gen = m.gen /\ c.used /\ c.playing /\ c.snd # 0

\* The second locked region, after the mix: those that reached their end finish.
Reconcile ==
  /\ apc = "mix"
  /\ \E done \in SUBSET {m \in snaps : Current(m)} :
       /\ chan' = [c \in Chans |-> IF c \in {m.chan : m \in done}
                                   THEN Finished(chan[c]) ELSE chan[c]]
       /\ over' = over \cup {chan[m.chan].voice : m \in done}
  /\ apc' = "idle" /\ snaps' = {} /\ feeds' = {}
  /\ UNCHANGED <<running, stamp, gen, snd, reader, handed, slot, game, doomed,
                 closed, owns, told, ended, lost>>

-----------------------------------------------------------------------------
Game ==
  \/ Sys_createSound \/ Snd_release \/ EnsureFree \/ Sys_playSound \/ Register
  \/ StopChannel \/ Ch_setPaused \/ Ch_setPosition
  \/ Sys_update \/ Callback \/ Delivered
Audio == Snapshot \/ CloseAndFeed \/ Reconcile
Next == Game \/ Audio
Spec == Init /\ [][Next]_vars

-----------------------------------------------------------------------------
(* Properties *)

Channel ==
  [used : BOOLEAN, playing : BOOLEAN, paused : BOOLEAN, snd : Sounds \cup {0},
   owner : Slots \cup {0}, cb : BOOLEAN, endPending : BOOLEAN,
   stamp : 0 .. stamp, gen : 0 .. gen, voice : 0 .. stamp]

\* Every variable has its type; retire slots never play.
TypeOK ==
  /\ running \in BOOLEAN
  /\ chan \in [Chans -> Channel] /\ stamp \in 0 .. MaxPlays /\ gen \in Nat
  /\ \A r \in RetireChans : ~chan[r].playing
  /\ snd \in [Sounds -> [used : BOOLEAN, st : Streams \cup {0}]]
  /\ reader \in [Streams -> PlayChans \cup {0}] /\ handed \in Seq(Streams)
  /\ slot \in [Slots -> [inUse : BOOLEAN, looping : BOOLEAN, ended : BOOLEAN,
                         chan : PlayChans \cup {0}, snd : Sounds \cup {0},
                         voice : 0 .. stamp]]
  /\ gpc \in {"idle", "play", "register", "deliver", "called"}
  /\ pend \in Seq([chan : Chans, voice : 1 .. stamp])
  /\ apc \in {"idle", "close", "mix"}
  /\ doomed \subseteq Streams /\ feeds \subseteq Streams /\ closed \subseteq Streams
  /\ owns \in [Voices -> Slots \cup {0}]
  /\ over \subseteq 1 .. stamp /\ ended \subseteq 1 .. stamp
  /\ lost \subseteq 1 .. stamp

Heard == {e.voice : e \in told}
Flagged == {c \in Chans : chan[c].endPending}
Queued == {pend[i].voice : i \in DOMAIN pend}

\* The END of a finished voice is in one place, on a channel or collected, until
\* it is delivered, once: finishing, stealing (chan_retire), collecting and
\* stopping neither drop nor double one, and nothing else has one.  (And every variable
\* has its type.)
EndsAccounted ==
  /\ TypeOK
  /\ over \ (Heard \cup ended \cup lost)
       \subseteq {chan[c].voice : c \in Flagged} \cup Queued
  /\ \A c, d \in Flagged : chan[c].voice = chan[d].voice => c = d
  /\ \A c \in Flagged : /\ chan[c].voice \in over
                        /\ chan[c].voice \notin Heard \cup Queued
  /\ \A i \in DOMAIN pend :
       /\ pend[i].voice \in over
       /\ pend[i].voice \in Heard => i = 1 /\ gpc # "deliver"

\* A voice falls silent only because it finished, its own slot stopped it, its
\* sound was released, its slot was reclaimed, or it was stolen: never because
\* another slot stopped the channel it kept from before (log193).
NoVoiceVanishes ==
  \A v \in 1 .. stamp :
    \/ v \in over \cup ended \cup lost
    \/ \E c \in PlayChans : chan[c].voice = v /\ chan[c].playing

\* Neither a sound nor its END is lost, doubled or cut off by another's: however voices are
\* stolen, stopped, released and replayed between two grains or during one, every voice
\* goes on or has ended for a reason, and every END is owed once and in one place
\* (audio_patch.c:1219-1236, 1312-1347, 2015-2045).
VoicesAccounted == EndsAccounted /\ NoVoiceVanishes

\* Every END reaches the slot its voice was played for.
EndToItsOwner == \A e \in told : e.owner = owns[e.voice]

\* "An explicit stop must NOT raise END" (Ch_stop): a slot hears nothing of a
\* voice after it has stopped it.
StopIsFinal ==
  [][\A e \in told' \ told : e.voice \notin ended]_vars

\* What an unlocked mix found is written back only to the voice that was mixed:
\* a channel stopped and reused meanwhile is left alone.
MixedVoicesOnly ==
  [][apc = "mix" /\ apc' = "idle" =>
       over' \ over \subseteq {m.voice : m \in snaps}]_vars

\* A stream has one owner at a time: its sound, the hand-over list, the audio
\* thread about to close it; it is freed once (Snd_release, mix_grain).
StreamsHeldOnce ==
  /\ \A s, r \in Sounds : snd[s].st = snd[r].st /\ s # r => snd[s].st = 0
  /\ \A i, j \in DOMAIN handed : handed[i] = handed[j] => i = j
  /\ LET held == {snd[s].st : s \in Sounds} \ {0}
         given == {handed[i] : i \in DOMAIN handed}
     IN /\ held \cap (given \cup doomed \cup closed) = {}
        /\ given \cap (doomed \cup closed) = {} /\ doomed \cap closed = {}

\* A stream is never freed while the audio thread, which has let the lock go, is
\* decoding it or mixing from it (audio_patch.c:356-359).
MixedStreamsOpen == feeds \cap closed = {} /\ \A m \in snaps : m.st \notin closed

\* However sounds are made and released between two grains or during one, each stream
\* is closed once, by whoever owns it, when nobody uses it (audio_patch.c:806, 1971-1990).
StreamsOwned == StreamsHeldOnce /\ MixedStreamsOpen

\* Every END owed is delivered or discarded in the end: voices that have ended do not
\* become others', and there are only so many of them.
EndsSettle == <>[](over \subseteq Heard \cup ended \cup lost)

=============================================================================
