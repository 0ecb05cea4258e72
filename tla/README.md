# VitaKotor: TLA+ models, checks and proofs

VitaKotor runs the Android build of *Knights of the Old Republic* on a PS Vita.
The loader (`loader/`) maps the game's ARM libraries, resolves their imports
against its own C code and supplies what Android would have: GL, sound, video,
files, memory, threads, text input. The game's code is neither ours nor in the
repository: in every model below it is the environment, free to call what the
loader exports in any order the loader's own locking allows.

Contents: 1 inventory · 2 hard behaviours · 3 modules and how they correspond to
the code · 4 runs and bounds · 5 fairness · 6 proofs · 7 findings · 8 observations
· 9 what stays with TLC · 10 what is not modelled.

## 1. Inventory

### Threads

| thread | made by | what it does |
|---|---|---|
| game | `main.c` | runs the game; makes every GL, FMOD and Bink call; writes the GL ring; polls the pad |
| `gl_render` | `gl_thread_init` | replays the GL ring into vitaGL |
| `kotor_snd` | `audio_start` | mixes a grain at a time: FMOD voices, then Bink's players; decodes streams |
| `kotor_sndload` | `prog_start` | reads the rest of a streamed file behind a playing sound |
| `kotor_log` | `log_init` | writes full log buffers to the card |
| Bink's worker | the game's companion library | fills Bink's sound buffers |
| game workers | SDL / pthread imports | open files, read archives, allocate |
| watchdog | `main.c` | samples the game thread every 3 s, flushes the log |

### Components

| component | state | operations | what makes it correct | model |
|---|---|---|---|---|
| GL ring (`gl_thread.c`) | ring of words, `g_head`, `g_tail`, private cursors, two sleep flags, two semaphores, `g_glq_on`, frame counters | `glq_put`, `glq_put_copy`, `glq_rpc`, `gl_thread_swap`, start, stop; `render_thread` | calls run once, in order, with their own words; an RPC returns its own value; one thread in vitaGL at a time; no lost wake | GLQueue, GLStream |
| GL patches (`gl_patch.c`, viewports in `main.c`) | shadow of vitaGL's state, bound textures and formats, client arrays, highest indices | one wrapper per GL call; `glq_reseed`; GUI viewports | what the game reads back and draws is what it would be with no queue and no filter | GLState, GLTextures, GLDraws |
| Shader patcher (`gxm_patcher.c`) | memo, table of programs with reference counts, frames of last use | create, bind, evict, compact, unregister | a request is answered with its own program; nothing in use is released | GxmPatcher |
| FMOD voices (`audio_patch.c`, hooks in `main.c`) | channels, retire slots, sounds, generations; the companion's slots | `playSound`, `Ch_stop`, `setPaused`, `setPosition`, `Snd_release`, `Sys_update`; `mix_grain` | each voice's END is delivered once to who played it; a voice is silenced only for a reason | VoicePool |
| Streamed playback (`audio_patch.c`, `audio_mp3.c`, `audio_ring.c`) | ring window, decoder position, `loaded`/`done`, `restart`, voice position | feed, mix, restart, seek, end | what is heard is the track, to its end, and it ends | StreamPlay |
| Progressive loading (`audio_patch.c`) | streams, job queue, semaphore, decoder count, hand-over list | `createSound`, `prog_thread`, `stream_close`, `Snd_release` | nobody touches a freed stream or file; the audio thread never waits; decoders do not run out | StreamLoad |
| Movie and its sound (`bink_patch.c`, `opensl_patch.c`, `bink_audio_queue.c`) | player slots with generation, ring of buffers, two mutexes, captured Bink handle | create, destroy, enqueue, clear, register; mix with callbacks; pump on swap | a callback never reaches a dead player; one report per buffer; only the open movie is pumped | MovieSound |
| Archive reads (`dynlib.c`, `obb_index.c`, `obb_cache.c`) | shared archives with reader counts, virtual handles, recorded index, RAM ring | `fopen`/`fread`/`fseek`/`fclose` shims, record, finish, replay | every handle reads its archive as if it had it alone, over boots and power cuts | ObbFiles, RamRing, StdioFiles |
| Files by name (`sdl_patch.c`, `fs_patch.c`, `translation.c`, `modset.c`) | two tables of hashes of what is not there | open, unlink, rename, forget | the tables never hide a file | AssetOpen |
| Settings (`main.c`, `ini.c`, `ini_write.c`, `modset.c`) | `swkotor.ini` and its temporary, mod set, menu request, memo of written keys | start-up reads and repairs, menus, the engine's writes | what was chosen is what the next start reads | Settings |
| Large blocks (`bigalloc.c`) | segments tiled by headers | alloc, free, realloc, grow | blocks tile their segment; no two free neighbours | BigPool |
| Heap and sound cache (`heap.c`, `dynlib.c`, `audio_patch.c`) | newlib and pool blocks, cache entries with references, deferred frees | `operator new`, `malloc`, `realloc`, `free`; insert, evict, purge | every block has one owner; samples being mixed stay; the handler gives up in the end | Heap |
| Log (`log.c`, `crash.c`) | two buffers, two locks, kick semaphore, panic flag | log a line, writer, flush, fault | lines reach the file in order; a fault never hangs on it | LogWriter |
| Pad (`sdl_patch.c`, `input_patch.c`) | finger followed, keyboard state, stick filter, re-sync | poll, peep, frame | one finger at a time; the game ends up with the sticks where they are | Input |
| Boot screen (`loadscreen.c`, `langsel.c`, `font.c`, `tga.c`, `hints.c`, `obbzip.c`) | where its thread is, what loading holds, textures, the bar, the times of earlier starts | menus; load; tick, note of GL and end from any thread | frames are whole; what was taken is given back; it stops where the game begins | BootScreen |
| Shader text, boot and linking, Java and IME, diagnosis, script fix, MP3 decoding | — | — | — | section 10 |

### How they interact

The game thread's GL calls go through the patches into the ring; only the render
thread's `g_tail`, `g_swaps_done` and RPC slots come back, and after each RPC the
patches read vitaGL's state again. Bink's frame hook hangs on the present
(`sdl_patch.c:75`). The audio thread owns both sound back ends: each grain it
snapshots voices under the mixer lock, decodes and mixes without it, reconciles
under it, then lets `bink_opensl_mix` add the movie's players. The game hears of
finished voices only in `Sys_update`, by callbacks that may play again. The loader
thread meets the others through a queue, a semaphore and three words per stream
(`loaded`, `done`, `loading`). Allocations of every thread may run the new-handler,
which purges the cache the audio thread mixes from. Archive reads run under
`kotor_io`; the tables of misses have a lock of their own, and the card is asked
outside it. A fault anywhere takes the log over.

## 2. Hard behaviours

`PROJECT.json` lists each at its line with the properties about it. In short: flags and
semaphores read on two threads without a lock (GL ring, stream feed); state read
under a lock and used after it (voices mixed from a snapshot, a finished buffer's
player, END collected and delivered later, a file looked for while another thread
makes it); objects freed while another thread is in them; what is remembered of
somebody else's state (shadow, bind filter, formats, memo, misses, recorded index)
and goes stale; limits (ring, pool, retire slots, job queue, decoders, tables);
positions that wrap; power cuts in the middle of a write, faults in the middle of a
log line; and everything that must eventually happen (a call returns, a track ends,
an END settles, a release completes, the log reaches the card).

## 3. Modules

Each action is one region the code makes atomic: an access to a variable two
threads share, or a region under a lock, with the thread-private work next to it.

### GL

**GLQueue** (`gl_thread.c`), refining **GLStream**. Each read or write of a shared
word is a step. `ppc`/`cpc` say where the game and render threads stand; `Request`
… `Reserve` … `Write` … `Flush*` is `glq_put`, `glq_rpc` or `gl_thread_swap`;
`Test`, `Arm`, `Recheck`, `Disarm`, `Woken` are `wait_until` with its 1 ms timeout;
`Look`, `Doze`, `LookAgain`, `Asleep`, `Load` … `Publish` the render thread's loop.
A ring word is a record naming the call it belongs to. Positions grow, and
are cut to 32 bits wherever the code compares them. Memory is sequentially
consistent except that the unfenced read of `g_prod_waiting` after a record
(`:151`) may see an older value. GLStream promises what a caller may rely on:
calls run once, in order; an RPC returns its own answer; a present waits for the
last one. `pending` and `ran` are history and give the refinement its queue.
**GLQueueInv** states the inductive invariant of section 6.

**Graphics** composes five parts. In the first four the queue is the sequence of calls not run yet
(what GLQueue establishes); a call that needs an answer is a step with nothing pending.

* **GLState** (`gl_patch.c`): the shadow, its getters, the program filter, the re-read
  after every RPC (`glq_reseed`), and `main.c`'s GUI viewports that clip by scissor. `plain`
  is what vitaGL would be with each call made at once.
* **GLTextures** (`gl_patch.c`): the redundant-bind filter per unit, what an upload goes
  by, the conversion to 16 bits and its repetition by sub-uploads; `unfiltered` is what
  the units would hold without the filter.
* **GLDraws** (`gl_patch.c`): draws from client memory, copied into the queue with a
  length bounded by the highest index known. The game's arrays have versions.
* **GxmPatcher** (`gxm_patcher.c`): memo, open-addressed table with tombstones, eviction
  of the idle, compaction. The shader patcher and vitaGL's use of it are external.
* **BootScreen** (`loadscreen.c` and what it calls), before there is a queue. `pc` is where the thread that began
  the screen is: it loads in steps any of which may fail, and its hooks tick it in the middle of them; other threads tick it, call GL
  (`loadscreen_note_gl`) or draw the game's first frame (`loadscreen_end`) between any two. `held` is what somebody has
  to give back, `texture` what vitaGL has of each picture, `frame` what a step put on the screen.

### Sound

**VoicePool** (`audio_patch.c`, the voices). One action per region under the mixer
lock: `Sys_playSound` (allocation, stealing and `chan_retire`), `Register`,
`StopChannel`, `Ch_setPaused`, `Ch_setPosition`, `Snd_release`, `Sys_update`
(collect), `Callback`/`Delivered` (one END, which may replay), and for the audio
thread `Snapshot`, `CloseAndFeed`, `Reconcile`. The companion's slots are external
and are modelled from the functions that read and repair them (`ensure_free_slot`,
`StopChannel` hook). A voice is one `playSound`; `over`, `told`, `ended`, `lost`
remember its fate.

**StreamPlay** (`audio_mp3.c`, `audio_ring.c`, `audio_patch.c`): one streamed asset.
Frame f is the number f, so that the ring's content can be compared with the
track. The three threads meet in `loaded`, `done`, `restart` and the mixer lock.

**StreamLoad** (`audio_patch.c`): many streams, opened, loaded, released, recreated.
The loader's six steps, `createSound`'s stream path with every way it can fail,
`Snd_release`, and the audio thread's closing of handed-over streams.

**MovieSound** (`opensl_patch.c`, `bink_audio_queue.c`, `bink_patch.c`): the state
mutex is one step at a time, the callback mutex is held across steps. Bink itself
is external: it makes, feeds and destroys players while its movie is open, closes
the movie once it has none; frames may be shown until the game's player returns.

**Audio** composes VoicePool and StreamPlay; **Progress** composes VoicePool,
StreamLoad, LogWriter and Input, the four parts in which something is owed.

### Files and settings

**ObbFiles** (`dynlib.c`, `obb_index.c`), with the ring **RamRing** (`obb_cache.c`; the ring
of `lzma_cache.c` has the same code), implements **StdioFiles**: each handle a position of its own in an
unchanging file. A read is served from the index, the ring or the card; the index is
recorded by one boot, finished when the archives are mounted, replayed by the next;
the power may go at any time, also while the index file is being written.

**AssetOpen** (`sdl_patch.c` with `fs_patch.c`, `translation.c`, `modset.c`): an open asks the
translation, the package, the mod set, the root and the archives in turn, and leaves a
hash in a table of misses; another thread may make, remove or rename files between
two questions. **Settings** (`main.c`, `ini.c`, `ini_write.c`, `modset.c`): start-up, menus and
the engine's writes, with the power going between any two operations of the card.
**Storage** composes the three; Settings takes part twice, as `menus` and as `writes`,
whose variables are the same.

### Memory, log, pad

**BigPool** (`bigalloc.c`): `blk[s]` maps the offsets at which segment s has a header to
what the header says. **Heap** (`dynlib.c`, `heap.c`, `audio_patch.c`) uses it: one action per call of the
pool or of newlib and per region under the mixer lock. **LogWriter** (`log.c`, `crash.c`):
what runs without a lock after a fault is split where another thread can come
between. **Input** (`input_patch.c`, `sdl_patch.c`): one front panel, one axis or more, and
the menu whose closing has the pad sent again.

### Composition

`part`, chosen in the initial state, picks whose behaviours a composed run shows. The
parts of one composition have disjoint variables: a step of one is a stutter of the others, so any
interleaving satisfies a property of one part exactly if that part alone does. Disjointness
is a fact about the code: archives are read-only and never remembered as missing, nor
are the settings' files (`miss_cacheable`); the voices know a stream by its owner only; the GL
parts share the queue, whose order is all that matters to each. Where sharing does matter the
parts are one module (Heap with its cache and mixer, ObbFiles with its ring and index).

**MCStorage**, **MCHeap** and **MCGraphics** give TLC functions and symmetry. Operators that
end in a suffix such as `_kept` or `_replaced` are the mutants of the definition before
the suffix, used by `PROJECT.json` only.

## 4. Runs and bounds

| run | bounds | shows |
|---|---|---|
| `glq_safety` | ring of 8 words, positions mod 16, records of 3–5 words (5 is too big for the ring's records), 4 calls, timeouts on | unread words intact, exact RPCs, one frame in flight, exclusive vitaGL, refinement of GLStream |
| `glq_live` | ring of 5, positions mod 10, records of 2, 3 calls, **no timeout** | every call returns and everything published runs though no wait is rescued by its timeout |
| `graphics` | GLState: 2 programs, 2 values, 2 queued calls, a viewport stack of 1 and viewports nested 2 deep, one family of wrappers at a time; GLTextures: 2 textures, 2 tracked units and one past them; GLDraws: a shadowed attribute and one past, a table for 1 buffer; GxmPatcher: 4 slots, 3 addresses of which two hash alike, a memo of 1; BootScreen: 3 rows of which 2 are shown, pictures of 2 pixels, 1 hint, 1 menu, 1 other thread | the shadow is transparent, binds and uploads exact, queued draws read their own, answers of the memo, viewports restore, nothing in use is released; boot frames are whole and loading gives back what it took, the screen hands over |
| `gl_client_draw` | as GLDraws above | finding 4 |
| `audio` | VoicePool: 2 channels, 1 retire slot, 1 sound that may own a stream, 2 slots, 3 plays, 4 generations; StreamPlay: a track of 4 frames, looping or not, over a ring of 3, fed 2 at a time, 2 channels, 2 plays or seeks | ENDs neither dropped nor doubled, streams owned once, writes back only to mixed voices; the window holds the track, no early END, seeks stand, tracks end |
| `voice_restart`, `voice_stop` | 4 plays / 3 plays | findings 1 and 2 |
| `movie` | 2 slots, 2 movies, queue of 3, buffers of 3 units played in steps of 2, 2 buffers, 2 generations | callbacks reach the right player, once; the pump follows the movie; Destroy returns |
| `storage` | ObbFiles: 2 archives (3 bytes and none), 2 shared and 2 virtual handles, a ring of 3 bytes and 2 entries, 2 boots; AssetOpen: 2 threads, 5 files of which two share a hash, tables of 4 slots, 1 failure of the card; Settings: 2 languages, a translation, a mod set, a memo of 1, 2 starts | the ring is never stale and sharing exact (`ArchivesKept`), handles read as if alone, settings stand, the tables hide nothing |
| `settings_power` | Settings, 1 start | finding 3 |
| `heap` | 1 segment of 6 units, newlib with room for 1 block, 2 threads, 2 assets over a cache of 2 entries, one larger than a segment | the pool tiled and one owner per block (`BlocksSound`), mixed samples stay, cache counts exact, `operator new` returns |
| `progress` | VoicePool: 3 generations, no streams; StreamLoad: 2 streams, a queue of 1, 1 decoder and a spare, 2 chunks; LogWriter: one thread and the writer, buffers of 2, 3 lines, 1 flush, 1 fault; Input: one axis, two fingers, an SDL queue of 2 | the loader touches what is there, the log in order, one finger at a time; ENDs settle, releases complete, the log never sticks, the sticks catch up |

Why these are enough: the GL ring wraps, pads, fills and passes its 32-bit limit
within the calls allowed, with a record too large for it. Two channels and one
retire slot are the least in which a callback of one voice can steal the other's
channel while its END is owed. The track is longer than its ring, and the head
shorter than both. In `progress` the second job finds the queue full and the second
stream finds the cap reached, and a fault meets each thread at each step. In `movie` a slot is reused between a
buffer's end and its callback, and one mix uses up two buffers. In `storage` the ring wraps over what
it holds, an index is torn, and the third name forgotten leaves a tombstone in front of
another's entry. In `heap` the new-handler purges what a grain is mixing. In `graphics` a name
is deleted and given again while binds of it are queued, and a table is compacted; of the boot screen every step of loading fails somewhere, and the other thread notes GL first.
The mutants in `PROJECT.json` confirm that each property fails, under the same bounds,
when the code it rests on has the plausible bug.

`storage` ends the behaviours in which a file changed while another thread was opening one
(`MCUndisturbed`): `TablesTellTrue` says nothing of them, and the proof does not need the cut.
`CHECK_DEADLOCK FALSE` is where a bound (calls, plays, boots) runs out and the system
stops.

Bounds that are constants of the modules (`MaxCalls`, `MaxPlays`, `MaxGen`, `MaxTurns`,
`MaxPending`, `MaxScopes`, `MaxOpens`, `MaxStarts` …) are in guards only. No theorem fixes one.

## 5. Fairness

* GLQueue: the render thread and a game thread inside a call are scheduled. The
  game need not call. The timeout is no part of the fairness.
* Voices (`FairVoice`): the audio thread runs; a callback returns; `Sys_update` gets strong
  fairness because the game calls it every frame, though not in the middle of
  another call.
* Streams (`Audio!Fair`): the audio thread and the loader run. Loading (`FairLoad`): also a
  call of the game that has begun.
* MovieSound: the audio thread runs and Bink's callback returns to it; of the two
  threads that contend for the callback mutex the one waiting in Destroy gets it
  in the end (strong fairness of `DestroyLock`; the kernel queues waiters). A
  callback that waits for a lock of Bink's held by the destroying thread would not
  return: that is Bink's contract and outside these sources.
* Heap: every thread that has begun an allocation runs on.
* Log (`FairLog`): threads inside the log run; who waits for a mutex that is let go again and
  again gets it; the writer's timed wait ends.
* Pad (`FairPad`): the game keeps polling and acts on what it got; time passes.

Fairness is on the threads, never on a branch of one: no property
depends on a read succeeding or a timeout firing.

## 6. Proofs

Every theorem holds for all values of the constants that the named assumptions of the
modules allow; the assumptions say what the code's macros do (`g_ring` at least twice
the largest record and the range of positions a multiple of it, a non-empty table, a
header at least one unit long …) and TLC evaluates them in the runs. Each proof has the same
plan: an inductive invariant, stated as a conjunction of named parts and checked by TLC
before it was proved; that `Init` implies it; one lemma per action, with one step per
part the action disturbs; and the theorems that follow. `Numbers` has the facts the provers lack: quotient and
remainder from their definition (when positions share a ring index), least elements, counting up to n, and sums over a prefix.

**GLQueueProofs.** A bound on cursors alone is not inductive: to know that the render
thread reads a record and not its middle, one must know that the words between
its cursor and the game thread's are a *chain* of whole records (`Chain`), and that
every position ever published is a joint of it (`Cursors`). `GameAt` and `RenderAt`
say what each thread knows where it stands. `Write` extends the chain (`PushKeeps`), `Exec`
takes its first link (`PopKeeps`); the others move cursors among its joints. From `Invariance`:
`RecordsIntact`, `OneThreadInVitaGL`, `CallerParked`, `CursorsOrdered`; with which call is where (`IInvMore`): `OneFrame`,
`AnswersExact`; and `RingImplementsStream`: every step of the ring is a step of
GLStream or a stutter.

**GraphicsProofs.** While calls are queued, what the game's side knows says nothing of vitaGL, only of what
it will be. Each invariant says so with a run of states: the queued calls lead
vitaGL through them to an end, and the knowledge is about that end. A call
appended extends the run, the render thread takes its first state away.
* `GLStateInvariant`: the end is `plain`, and the shadow is `plain`'s; a viewport that is open and
  tracked has its opener's scissor on the stack. Hence `ShadowIsTransparent`, `ViewportsRestore`;
  `ShadowInGraphics` carries both over to the composition.
* `TexturesInvariant`: at the end each unit holds every texture the game has bound there, and every entry
  of the filter is what its unit holds; uploads go by what the game bound last; the
  note of a packed texture is its image's format. Hence `BindsAndUploadsAreExact`.
* `DrawsInvariant`: at the end the attributes that do not read client memory are as the game left them; on the way, every
  queued draw finds a copy of each of the game's arrays it uses, of the time it was made and as long as its indices reach; the
  figure of an element buffer bounds its indices, or the table is full, and it never empties. Hence `QueuedDrawsReadTheirOwn`.
* `ProgramsInvariant`: no walk of the table for a tracked program passes an empty slot before its own, so it is found (a tombstone
  does not end a walk, and a compaction puts the slots in again one by one); a slot's program is alive, of its shader, and bound no later than the slot
  says; a memo entry that counts leads to a program made for its request; the fixed function asked once for what it keeps, so its
  slot never counts as idle. Hence `TheMemoIsRight`, `OnlyTheIdleIsReleased`.
* `ScreenInvariant`: where the screen's thread is says what may be held (`Room`); a picture is noted exactly while its texture has
  content; hints counted have the memory they are in; the bar is behind the clock; and the estimates are what the card says, or what is being
  written to it. Hence `TheScreenIsSound`, `TheScreenHandsOver`.

**AudioProofs.** `VoiceInvariant`: a live channel, one that plays or has an END to give, is in use, has a callback once
its play returned, and serves a voice no other channel serves; what `Sys_update` holds while
the callbacks run is on no channel. From that follows where each END is: `NoVoiceOrEndIsLost`, `MixWritesBackToMixed` (a channel played again has
another generation). `OneOwnerPerStream`; and `NoStreamClosedInTheMix`, which needs that the hand-over
list is never full while a grain is mixed, and says so (section 8). `StreamInvariant`: the cells of the window hold the track's frames, of
the pass they are in when it loops; an end of stream means the whole file was decoded; a followed
voice is not behind the window, nor will the pending retire put it there. Hence `WindowIsTheTrack`, `EndsAndSeeksHold`.

**MovieProofs.** `MovieInvariant`: a ring of buffers is sums of lengths; its owed reports are its `done` less
what was told; only the thread in the callback mutex owes one, and to the player whose
generation it took. Hence `CallbacksAreExact`, `OpenMovieIsPumped`.

**ProgressProofs.** `LoadInvariant`: a stream is held by its sound, the loader's job or the hand-over, the semaphore counts the queue, and decoders
counted are those of live streams: `LoaderTouchesWhatIsThere`. `LogInvariant`: until a fault, file, what the writer took and the buffer are the lines
in order; after one, every earlier line is in the buffer, on its way or written, unless somebody strays (section 8): `LogKeepsOrder`.
`PadInvariant`: the finger events still queued form a chain from the finger the game holds to the one
`input_patch.c` follows: `OneFingerFollowed`.

**StorageProofs.** `ArchivesStayKept`, from `RingNeverStale`: the ring's entries tile the bytes behind its head, and each lies in its archive, and `SharingStaysExact`; `NoneLeftIdle`.
`ReadsAsIfAlone` is the refinement of StdioFiles: each record of an index stands for bytes of the archive that lie in the blob that was written, and a torn file is refused by its
length or its sums; so the bytes handed over are the archive's wherever they come from. `TablesHideNothing`: nothing ends the probes before an entry, no hash is there
twice (`Tidy`), adding again what is there finds it (`Firm`), and while an open is undisturbed the card is what it was
when the open began. `ChoicesStand`: what has been chosen is in the file or in what is being written over it, and what the filter remembers as written is in the file.

**HeapProofs.** `BlocksStaySound` has two parts. Walking a segment from its base by sizes reaches exactly its headers; splitting and
merging both ways keep it so (`HeapTiled`). Every block in use has one owner among the callers, the cache's entries, the deferred frees and the sounds
(`EachHasOneOwner`); the budget's bytes are the sum over the entries (`CacheCountsExact`); what a grain reads is in an entry or waits for the grain's end (`MixedSamplesKept`).

## 7. Findings

1. **An END delivered to the wrong slot** (`voice_restart`). `Sys_update` clears
   `end_pending` on every finished voice before it makes the first callback
   (`audio_patch.c:1328`). A callback that replays a looping sound may steal one of
   those channels; `chan_retire` finds no END pending and parks none; the collected
   END is then delivered on the reused channel to its new owner, and the old owner
   never hears, against `audio_patch.c:1201`.
2. **An END after an explicit stop** (`voice_stop`). A finished voice is stolen, its
   END parked in a retire slot; its slot then stops it. `Ch_stop` rightly leaves the
   channel alone, which is another's, but nothing clears the parked END
   (`audio_patch.c:1230`), against `audio_patch.c:2011`.
3. **A power cut that costs the settings** (`settings_power`). The file is removed before its
   replacement is renamed (`main.c:1353`), and nothing looks for `swkotor.ini.new` at the next
   start, against `main.c:1336`.
4. **A draw from another draw's vertices** (`gl_client_draw`). A copied draw leaves
   vitaGL pointing into the ring; the next client draw, if it cannot be copied, is handed
   over as it is (`gl_patch.c:581`) and points nothing again, against `gl_patch.c:511`.

## 8. Observations

Met while modelling or proving; no run is about them.

* Log: a thread the fault meets between the two locks (an overflow or `log_flush`) drains
  without `g_io_mtx` (`log.c:110-136`, `156-158`), against "Caller holds both locks, or is panicking" (`:96`). The writer may close the file under it, and what it was writing,
  logged before the fault, is lost though the handler got the card. `DumpAfterEarlier` excludes it (`strays`); it was found because
  the proof would not go through without.
* Streams: when the hand-over list is full, `Snd_release` closes the stream itself, whatever the audio
  thread is doing (`audio_patch.c:1979-1990`); the comment at `:1987` gives only the case of no audio thread. It takes
  128 releases between two grains; `NoStreamClosedInTheMix` names the condition, and the run's
  bounds do not reach it. `setPosition` on a streamed voice moves the reader and not the decoder (`:2107`):
  a voice sent back of the window hears nothing until it has caught up (`moved` in StreamPlay). Comments `:1904` ("the feeder runs under this same lock": it decodes without it)
  and `:442` ("a few ms": a release also waits for the job ahead of its own) say more than the code does.
* Memory: a purge frees pool blocks, but `operator new` then retries newlib only (`dynlib.c:693`); bytes whose free is deferred count as freed
  (`heap.c:200-208`); a request larger than a segment takes a segment for nothing (`bigalloc.c:229-234`); a full retire list leaks.
* Archives: recording goes on when the index cannot be opened, and after the mount (`obb_index.c:171-183`); an archive replaced by one of the
  same size is trusted (`:78`).
* Settings: an ini that is too large or unreadable is read as empty (`main.c:1269-1287`); a key past the first 4 KB is not found
  by the language's lookup (`:1176-1184`); the filter's snapshot is stale after a failed write or a full memo, and two threads' writes have no order (`ini_write.c:104-127`).
* Files: a file made while another thread looks for it may be remembered as missing, against `sdl_patch.c:635-637`; a name may be in a table twice after a
  tombstone is used again; a transient failure is remembered; `fs_rename` never forgets.
* Pad: a finger that landed while the keyboard was up becomes a landing when it closes (`input_patch.c:195-206`); `SDL_PeepEvents` bypasses the stick filter; a full SDL queue leaves
  a finger down.
* GL: binding texture 0 is skipped after a cube bind or a delete has forgotten the unit's entry, against `gl_patch.c:967`; `glCopyTexImage2D` never
  notes the format, though `:1245-1248` says every level-0 path must; `glGetError_e` calls vitaGL on the game thread (`:1572`); what is written through `glMapBufferOES` escapes the
  highest-index figures; when memory fails in `glTexSubImage2D_body` bytes go into a 16-bit texture as they are; viewports nested past the sixteenth do
  not restore. Boot screen: when another thread is the first to call GL, the pictures, the font and the hints are never freed (`first` in
  `loadscreen_note_gl`), which `foreign` excuses; the comment `loadscreen.c:379-381` on when `g_tex` is set does not fit: it is set after the upload. `gxm_patcher.c`: after an eviction and a second failure vitaGL binds "its previous program" (`:257-259`), which may have been released; programs made before arming are never released.

## 9. What stays with TLC

* Liveness (`CallReturns`, `ImplementsFairStream`, `TracksEnd`, `DestroyReturns`, `NewReturns`, `EndsSettle`, `ReleaseCompletes`,
  `LogNeverSticks`, `SticksCatchUp`): fairness and ENABLED are out of the prover's reach.
* That the bounds are enough is an argument (section 4), not a theorem; safety that is proved does not depend on it.

## 10. What is not modelled, and why

* GL ring: nesting of queued calls inside a function run by RPC beyond the inline
  rule, the statistics, the thunks generated per GL call, weak memory beyond the one
  unfenced read, wrap of `g_swaps_done` after 2^32 frames.
* GL patches: the rewriting of shaders (`glsl_prep.c`), uniforms, mip levels, what only logs or counts, which
  wrapper reaches vitaGL directly. Boot screen: coordinates, the font's metrics, what a hint says.
* Voices: volumes and 3D, callbacks that do anything but replay a looping sound. Streams: resampling, decode
  errors and resynchronisation, whole-file decodes, the MP3 header. Loading: reads of the game thread that nobody can observe are one step
  with the open; the case of no audio thread.
* Movies: volume and pan, interpolation, the interface objects, Bink's own sound
  worker beyond the queue calls it makes, buffers shorter than one output frame
  (`MovieAssumption`; Bink's are thousands of frames long), a callback replaced while
  it runs (Bink sets it once).
* Archives: the path tracking for the log, the write side, which refuses, what the game's own FILEs read. Files: directory listings, the asset manager, case and slashes of names, the write buffer.
* Settings: parsing, the menus' drawing. Heap: newlib's arena and the census. Log: what a line says. Pad: coordinates,
  tilt, the census of the sticks.
* `so_util.c`, `jni_patch.c`, `ime_patch.c`, `trname.c`, `script_fix.c`, `gameprof.c`, `threads.c`, `sce_pad.c` and most of `main.c`: sequential, on one thread, with no
  state a step of another actor can disturb. Several have host tests in `tools/`.
* `patches/` (vitaGL), the packaging scripts and `elf.h`: third-party or build code.
