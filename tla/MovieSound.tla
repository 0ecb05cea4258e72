----------------------------- MODULE MovieSound -----------------------------
(***************************************************************************)
(* The sound of a movie (loader/opensl_patch.c, loader/bink_audio_queue.c, *)
(* loader/bink_patch.c): Bink creates players, queues buffers on them and  *)
(* destroys them on the movie's thread; the audio thread mixes the queued  *)
(* buffers and calls back for each it has used up; a hook lends the movie's*)
(* thread the handle Bink's own worker no longer services.                 *)
(*                                                                         *)
(* g_mutex is taken for one region at a time, which is one step here;      *)
(* g_callback_mutex is held across steps.  Positions count in units of a   *)
(* source frame, so that one output frame is Step units.                   *)
(***************************************************************************)
EXTENDS Integers, Sequences, FiniteSetsExt

CONSTANTS
  NPlayers,    \* BINK_SL_MAX_PLAYERS
  Caps,        \* queue sizes Bink asks for
  Frames,      \* output frames of one bink_opensl_mix
  Step,        \* source units per output frame
  Lens,        \* buffer lengths, in units
  MaxGen,      \* bound on players created
  MaxBufs,     \* bound on buffers queued
  MaxMovies,   \* bound on movies played
  MaxGate      \* bound on the frames decoded of a movie

\* No movie's rate is above the output's, and a buffer holds many frames: an
\* output frame never uses up more than one buffer.
ASSUME MovieAssumption ==
  /\ NPlayers \in Nat \ {0} /\ Frames \in Nat \ {0} /\ Step \in Nat \ {0}
  /\ Caps \subseteq Nat \ {0} /\ Lens \subseteq Nat
  /\ \A l \in Lens : l >= Step
  /\ {MaxGen, MaxBufs, MaxMovies, MaxGate} \subseteq Nat

VARIABLES
  player,      \* g_players
  generation, queued,   \* counters: players created, buffers queued
  active,      \* g_active_players
  cbLock,      \* who holds g_callback_mutex
  apc, i, offset, job,  \* bink_opensl_mix: where, its locals, the CallbackJob
  mpc, doomed, \* object_destroy: where, and of which player
  movie, phase, \* the movie on: "open", "closed" by Bink, or "none" is on
  sndBink,     \* g_snd_bink
  lastGate     \* g_snd_last_gate

sound == <<player, generation, queued, active>>
audio == <<apc, i, offset, job>>
destroy == <<mpc, doomed>>
pump == <<movie, phase, sndBink, lastGate>>
vars == <<sound, cbLock, audio, destroy, pump>>

Players == 1 .. NPlayers
None == 0
Stopped == -1            \* BINK_SND_STOPPED
NoBuffer == [id |-> 0, len |-> 0]
NoJob == [player |-> 1, gen |-> 0]

-----------------------------------------------------------------------------
(* bink_audio_queue.c *)

\* Buffers are kept by their place; `fifo' is what was queued and is not used up,
\* `done' and `told' count those used up and those called back for.
NewQueue(capacity) ==
  [buffers |-> [s \in 0 .. capacity - 1 |-> NoBuffer], front |-> 0, count |-> 0,
   capacity |-> capacity, pos |-> 0, fifo |-> <<>>, done |-> 0, told |-> 0]

Rear(q) == (q.front + q.count) % q.capacity

Enqueued(q, b) ==
  [q EXCEPT !.buffers[Rear(q)] = b, !.count = @ + 1, !.fifo = Append(@, b)]

Cleared(q) == [q EXCEPT !.front = 0, !.count = 0, !.pos = 0, !.fifo = <<>>]

\* The n-th queued buffer, and the units of the first n.
At(q, n) == q.buffers[(q.front + n - 1) % q.capacity]
Units(q, n) ==
  LET sum[m \in 0 .. n] == IF m = 0 THEN 0 ELSE sum[m - 1] + At(q, m).len IN sum[n]

Ceil(a, b) == (a + b - 1) \div b

FramesToCompletion(q) == IF q.count = 0 THEN 0 ELSE Ceil(At(q, 1).len - q.pos, Step)

\* n output frames are taken from the queue, or as many as it has; the buffers
\* used up by then leave it.  A remainder is carried into the next buffer.
Mixed(q, n) ==
  LET has    == Units(q, q.count)
      frames == IF q.count = 0 THEN 0 ELSE Min({n, Ceil(has - q.pos, Step)})
      end    == q.pos + frames * Step
      used   == Max({k \in 0 .. q.count : Units(q, k) <= end})
  IN  [q EXCEPT !.buffers = [s \in DOMAIN @ |->
                    IF \E k \in 1 .. used : s = (q.front + k - 1) % q.capacity
                    THEN NoBuffer ELSE @[s]],
                !.front = (@ + used) % q.capacity, !.count = @ - used,
                !.pos = end - Units(q, used), !.done = @ + used,
                !.fifo = SubSeq(@, used + 1, Len(@))]

-----------------------------------------------------------------------------
(* opensl_patch.c: the calls of Bink, each under g_mutex *)

Free == [used |-> FALSE, gen |-> 0, playing |-> FALSE, callback |-> FALSE,
         queue |-> NewQueue(1)]

Init ==
  /\ player = [p \in Players |-> Free] /\ generation = 0 /\ queued = 0
  /\ active = 0 /\ cbLock = "free"
  /\ apc = "idle" /\ i = 1 /\ offset = 0 /\ job = NoJob
  /\ mpc = "idle" /\ doomed = 1
  /\ movie = 0 /\ phase = "none" /\ sndBink = None /\ lastGate = 0

Used == {p \in Players : player[p].used}

engine_create_player ==
  /\ mpc = "idle" /\ phase = "open" /\ Used # Players /\ generation < MaxGen
  /\ \E c \in Caps :
       player' = [player EXCEPT ![Min(Players \ Used)] =
                    [Free EXCEPT !.used = TRUE, !.gen = generation + 1,
                                 !.queue = NewQueue(c)]]
  /\ generation' = generation + 1 /\ active' = active + 1
  /\ UNCHANGED <<queued, cbLock, audio, destroy, pump>>

\* Any thread of Bink queues a buffer: the movie's, its worker, a callback.
queue_enqueue ==
  /\ queued < MaxBufs
  /\ \E p \in Used, l \in Lens :
       /\ player[p].queue.count < player[p].queue.capacity
       /\ player' = [player EXCEPT ![p].queue =
                       Enqueued(@, [id |-> queued + 1, len |-> l])]
  /\ queued' = queued + 1
  /\ UNCHANGED <<generation, active, cbLock, audio, destroy, pump>>

queue_clear ==
  /\ mpc = "idle"
  /\ \E p \in Used : player' = [player EXCEPT ![p].queue = Cleared(@)]
  /\ UNCHANGED <<generation, queued, active, cbLock, audio, destroy, pump>>

queue_register_callback ==
  /\ mpc = "idle"
  /\ \E p \in Used : ~player[p].callback
                    /\ player' = [player EXCEPT ![p].callback = TRUE]
  /\ UNCHANGED <<generation, queued, active, cbLock, audio, destroy, pump>>

play_set_state ==
  /\ mpc = "idle"
  /\ \E p \in Used : player' = [player EXCEPT ![p].playing = ~@]
  /\ UNCHANGED <<generation, queued, active, cbLock, audio, destroy, pump>>

-----------------------------------------------------------------------------
(* object_destroy *)

Destroy ==
  /\ mpc = "idle"
  /\ \E p \in Used : doomed' = p
  /\ mpc' = "lock"
  /\ UNCHANGED <<sound, cbLock, audio, pump>>

DestroyLock ==
  /\ mpc = "lock" /\ cbLock = "free"
  /\ cbLock' = "movie" /\ mpc' = "body"
  /\ UNCHANGED <<sound, audio, doomed, pump>>

\* bink_patch_stop_audio_pump
PumpStopped_never(q) == sndBink
PumpStopped(q) == IF q.capacity > 2 THEN Stopped ELSE sndBink

DestroyBody ==
  /\ mpc = "body"
  /\ sndBink' = PumpStopped(player[doomed].queue)
  /\ player' = [player EXCEPT ![doomed] = Free]
  /\ active' = active - 1 /\ mpc' = "unlock"
  /\ UNCHANGED <<generation, queued, cbLock, audio, doomed, movie, phase,
                 lastGate>>

\* It logs before it lets the lock go.
DestroyUnlock ==
  /\ mpc = "unlock"
  /\ cbLock' = "free" /\ mpc' = "idle" /\ doomed' = 1
  /\ UNCHANGED <<sound, audio, pump>>

-----------------------------------------------------------------------------
(* bink_opensl_mix *)

MixBegin ==
  /\ apc = "idle" /\ active > 0
  /\ apc' = "mix" /\ i' = 1 /\ offset' = 0
  /\ UNCHANGED <<sound, cbLock, job, destroy, pump>>

Chunk(q) ==
  LET n == FramesToCompletion(q)
  IN  IF n = 0 \/ n > Frames - offset THEN Frames - offset ELSE n

\* A region under g_mutex: it mixes up to the end of a buffer at most.
MixChunk ==
  LET q == player[i].queue
      r == Mixed(q, Chunk(q))
  IN  /\ apc = "mix" /\ player[i].used /\ player[i].playing /\ offset < Frames
      /\ player' = [player EXCEPT ![i].queue = r]
      /\ offset' = offset + Chunk(q)
      /\ IF r.done = q.done
         THEN apc' = apc /\ job' = job
         ELSE apc' = "lock" /\ job' = [player |-> i, gen |-> player[i].gen]
      /\ UNCHANGED <<generation, queued, active, cbLock, i, destroy, pump>>

MixNext ==
  /\ apc = "mix"
  /\ ~(player[i].used /\ player[i].playing /\ offset < Frames)
  /\ IF i < NPlayers THEN i' = i + 1 /\ apc' = apc ELSE i' = 1 /\ apc' = "idle"
  /\ offset' = 0 /\ job' = NoJob
  /\ UNCHANGED <<sound, cbLock, destroy, pump>>

CallbackLock ==
  /\ apc = "lock" /\ cbLock = "free"
  /\ cbLock' = "audio" /\ apc' = "check"
  /\ UNCHANGED <<sound, i, offset, job, destroy, pump>>

Valid_anyGen == player[job.player].used
Valid == player[job.player].used /\ player[job.player].gen = job.gen

\* The player may be gone, or be another, since its buffer was used up.
CallbackCheck ==
  /\ apc = "check"
  /\ apc' = (IF Valid /\ player[job.player].callback THEN "call" ELSE "unlock")
  /\ player' = (IF Valid THEN [player EXCEPT ![job.player].queue.told = @ + 1]
                ELSE player)
  /\ UNCHANGED <<generation, queued, active, cbLock, i, offset, job, destroy,
                 pump>>

CallbackUnlock_ifCalled ==
  /\ apc \in {"call", "unlock"}
  /\ cbLock' = (IF apc = "call" THEN "free" ELSE cbLock) /\ apc' = "mix"
  /\ UNCHANGED <<sound, i, offset, job, destroy, pump>>

\* Bink's callback, if there was one, has returned; meanwhile it may have queued buffers.
CallbackUnlock ==
  /\ apc \in {"call", "unlock"}
  /\ cbLock' = "free" /\ apc' = "mix"
  /\ UNCHANGED <<sound, i, offset, job, destroy, pump>>

-----------------------------------------------------------------------------
(* bink_patch.c *)

\* MacPlayBinkGL_real, up to the game's own player, which opens the movie.
PlayMovie ==
  /\ mpc = "idle" /\ phase = "none" /\ movie < MaxMovies
  /\ movie' = movie + 1 /\ phase' = "open"
  /\ sndBink' = None /\ lastGate' = 0
  /\ UNCHANGED <<sound, cbLock, audio, destroy>>

\* Bink's worker services its handle while it has a player of more than two
\* buffers: the hook keeps the first handle it sees, none once it was stopped.
Captured == IF sndBink = None THEN movie ELSE sndBink

BinkSndPump_trap ==
  /\ phase = "open" /\ \E p \in Used : player[p].queue.capacity > 2
  /\ sndBink' = Captured
  /\ UNCHANGED <<sound, cbLock, audio, destroy, movie, phase, lastGate>>

\* Pumped from the movie's thread whenever the frame sequence Bink keeps behind the
\* handle (bink + 0x570) has advanced.
bink_snd_pump_on_swap ==
  /\ mpc = "idle" /\ phase # "none" /\ sndBink \notin {None, Stopped}
  /\ \E gate \in 1 .. MaxGate : gate > lastGate /\ lastGate' = gate
  /\ UNCHANGED <<sound, cbLock, audio, destroy, movie, phase, sndBink>>

\* Bink destroys its players before it closes the movie; frames are shown until
\* the game's player returns and after.
CloseMovie ==
  /\ mpc = "idle" /\ phase = "open" /\ Used = {}
  /\ phase' = "closed"
  /\ UNCHANGED <<sound, cbLock, audio, destroy, movie, sndBink, lastGate>>

EndMovie ==
  /\ mpc = "idle" /\ phase = "closed"
  /\ sndBink' = Stopped /\ phase' = "none"
  /\ UNCHANGED <<sound, cbLock, audio, destroy, movie, lastGate>>

-----------------------------------------------------------------------------
Bink == \/ engine_create_player \/ queue_enqueue \/ queue_clear
        \/ queue_register_callback \/ play_set_state \/ Destroy
Destroying == DestroyLock \/ DestroyBody \/ DestroyUnlock
Audio == \/ MixBegin \/ MixChunk \/ MixNext
         \/ CallbackLock \/ CallbackCheck \/ CallbackUnlock
Movie == \/ PlayMovie \/ BinkSndPump_trap \/ bink_snd_pump_on_swap
         \/ CloseMovie \/ EndMovie
Next == Bink \/ Destroying \/ Audio \/ Movie
Spec == Init /\ [][Next]_vars

\* The audio thread runs and the callback returns to it; a mutex released goes to
\* a thread that waits for it in the end.
FairSpec == /\ Spec
            /\ WF_vars(Audio)
            /\ WF_vars(Destroying) /\ SF_vars(DestroyLock)

-----------------------------------------------------------------------------
(* Properties *)

Queue(p) == player[p].queue

\* Every variable has its type, and the ring of a player holds what was queued
\* and is not used up, in the order it was queued.
TypeOK ==
  /\ generation \in 0 .. MaxGen /\ queued \in 0 .. MaxBufs
  /\ active = Cardinality(Used)
  /\ cbLock \in {"free", "audio", "movie"}
  /\ apc \in {"idle", "mix", "lock", "check", "call", "unlock"}
  /\ i \in Players /\ offset \in 0 .. Frames
  /\ job.player \in Players /\ job.gen \in 0 .. generation
  /\ mpc \in {"idle", "lock", "body", "unlock"} /\ doomed \in Players
  /\ movie \in 0 .. MaxMovies /\ phase \in {"none", "open", "closed"}
  /\ lastGate \in 0 .. MaxGate
  /\ sndBink \in {None, Stopped} \cup 1 .. movie
  /\ \A p \in Used :
       /\ player[p].gen \in 1 .. generation
       /\ Queue(p).front \in 0 .. Queue(p).capacity - 1 /\ Queue(p).pos \in Nat
       /\ Queue(p).fifo = [n \in 1 .. Queue(p).count |-> At(Queue(p), n)]
       /\ Queue(p).count > 0 => Queue(p).pos < At(Queue(p), 1).len

\* "No callback can use Bink context after this function returns" (object_destroy),
\* nor reach the player that has taken the place of the one it was meant for.
NoCallbackAfterDestroy ==
  apc = "call" => /\ cbLock = "audio" /\ player[job.player].used
                  /\ player[job.player].gen = job.gen

\* bink_opensl_mix stops at the end of each buffer and reports it before it mixes on:
\* a player is never owed more than the one report under way, however many buffers
\* one mix uses up, and no report is made twice (a callback is one per buffer); and the
\* ring holds, in order, what was queued and is not used up (TypeOK).
CalledBackOnce ==
  /\ TypeOK
  /\ \A p \in Used :
    Queue(p).done - Queue(p).told =
      IF apc \in {"lock", "check"} /\ job = [player |-> p, gen |-> player[p].gen]
      THEN 1 ELSE 0

\* Bink is called back once for each buffer that was used up, for a player that is still
\* there (bink_patch.c, opensl_patch.c:541-580).
CallbacksExact == NoCallbackAfterDestroy /\ CalledBackOnce

\* The movie's thread pumps the sound of the movie that is open, never a handle
\* Bink has closed, which it could still be holding from before.
PumpsOpenMovie ==
  [][lastGate' \notin {0, lastGate} => phase = "open" /\ sndBink = movie]_vars

\* Destroying a player waits for a callback, but returns: the callback lock is let
\* go whatever became of the player meanwhile.
DestroyReturns == mpc # "idle" ~> mpc = "idle"
=============================================================================
