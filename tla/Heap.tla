-------------------------------- MODULE Heap --------------------------------
(***************************************************************************)
(* Where memory comes from and who gives it back: the game's allocations   *)
(* (loader/dynlib.c), which try the pool of BigPool.tla, then newlib, then *)
(* the pool again; operator new's handler (loader/heap.c), which gives     *)
(* back decoded sounds; and the cache of decoded sounds                    *)
(* (loader/audio_patch.c), which the mixer reads without the lock.         *)
(*                                                                         *)
(* One action per call of the pool or of newlib and per region under the   *)
(* mixer lock; a loop under that lock takes a step per entry.  newlib is   *)
(* outside src/: it may refuse at any time.  Which of the entries that     *)
(* nothing refers to has the oldest stamp is left open.                    *)
(***************************************************************************)
EXTENDS BigPool, Sequences, Functions

CONSTANTS
  Threads,   \* the threads that allocate
  Game,      \* the one that also creates sounds
  Sizes,     \* how much each thread asks for
  NLib,      \* the blocks newlib can hold
  MaxHeld,   \* bound on what the game holds
  NCache,    \* MAX_CACHE
  NSounds,   \* MAX_SOUNDS
  Clips,     \* the decoded size of each asset
  Keep,      \* PCM_CACHE_KEEP
  Budget,    \* PCM_BUDGET_BYTES
  MaxLoads   \* bound on the sounds created

ASSUME HeapAssumption ==
  /\ Game \in Threads /\ Sizes \in [Threads -> SUBSET (Nat \ {0})]
  /\ NLib \in Nat /\ MaxHeld \in Nat
  /\ NCache \in Nat \ {0} /\ NSounds \in Nat \ {0}
  /\ Clips \in Seq(Nat \ {0}) /\ Keep \in Nat /\ Budget \in Nat /\ MaxLoads \in Nat

VARIABLES
  nl,       \* the blocks newlib has handed out
  held,     \* what the game has and will delete
  handler,  \* the new-handler is installed
  pc, job,  \* each thread: what it does, and for what request
  lock,     \* who has the mixer lock over a loop
  cache,    \* g_cache
  snd,      \* the entry each Sound refers to, 0 when it is not in use
  pcm_bytes,
  mixing,   \* g_mix_active
  reads,    \* the samples the grain being mixed reads
  retire,   \* g_pcm_retire
  ret,      \* the audio thread's copy of it, to be freed
  leaked,   \* samples the full list had no room for
  loads     \* how many sounds were created

sound == <<cache, snd, pcm_bytes, loads>>
mixer == <<mixing, reads, retire, ret, leaked>>
vars == <<pool, nl, held, handler, pc, job, lock, sound, mixer>>

\* Memory is newlib's block <<0, i>> or the pool's, in segment s at a: <<s, a>>.
None == <<0, 0>>
Unused == [clip |-> 0, refs |-> 0, mem |-> None]
Idle == [op |-> "none", n |-> 0, old |-> None, mem |-> None, clip |-> 0, slot |-> 0, got |-> FALSE]

Init ==
  /\ PoolInit
  /\ nl = {} /\ held = {} /\ handler = TRUE
  /\ pc = [t \in Threads |-> "idle"] /\ job = [t \in Threads |-> Idle]
  /\ lock = "free"
  /\ cache = [c \in 1 .. NCache |-> Unused]
  /\ snd = [h \in 1 .. NSounds |-> 0] /\ pcm_bytes = 0 /\ loads = 0
  /\ mixing = FALSE /\ reads = {} /\ retire = <<>> /\ ret = <<>> /\ leaked = {}

-----------------------------------------------------------------------------
(* Blocks of either kind.                                                  *)

bigalloc_owns(m) == m[1] > 0

big_free(m) ==
  IF bigalloc_owns(m) THEN bigfree(m) /\ UNCHANGED nl
  ELSE nl' = nl \ {m[2]} /\ UNCHANGED pool

audio_pcm_free(m) == IF m = None THEN UNCHANGED <<pool, nl>> ELSE big_free(m)

malloc(i) == i \notin nl /\ nl' = nl \cup {i}

\* A request of thread t has got m.
Got_noFree(t, m) ==
  /\ held' = (IF job[t].op = "decode" THEN held ELSE held \cup {m})
  /\ pc' = [pc EXCEPT ![t] = IF job[t].op = "decode" THEN "trim" ELSE "idle"]
  /\ job' = [job EXCEPT ![t] = IF job[t].op = "decode" THEN [@ EXCEPT !.mem = m] ELSE Idle]
Got(t, m) ==
  \/ /\ job[t].op \in {"new", "malloc"}
     /\ held' = held \cup {m}
     /\ pc' = [pc EXCEPT ![t] = "idle"] /\ job' = [job EXCEPT ![t] = Idle]
  \/ /\ job[t].op = "realloc"          \* copied, and the old block goes
     /\ held' = held \cup {m}
     /\ pc' = [pc EXCEPT ![t] = "free"] /\ UNCHANGED job
  \/ /\ job[t].op = "decode"
     /\ pc' = [pc EXCEPT ![t] = "trim"]
     /\ job' = [job EXCEPT ![t].mem = m] /\ UNCHANGED held

\* Neither newlib nor the pool has room: new loops, the others return NULL.
Refused(t) ==
  \/ /\ job[t].op = "new"
     /\ pc' = [pc EXCEPT ![t] = "loop"] /\ UNCHANGED <<job, held>>
  \/ /\ job[t].op \in {"malloc", "realloc"}
     /\ held' = held \cup ({job[t].old} \ {None})
     /\ pc' = [pc EXCEPT ![t] = "idle"] /\ job' = [job EXCEPT ![t] = Idle]
  \/ /\ job[t].op = "decode"           \* createSound fails, or substitutes silence
     /\ UNCHANGED held
     /\ \/ pc' = [pc EXCEPT ![t] = "idle"] /\ job' = [job EXCEPT ![t] = Idle]
        \/ pc' = [pc EXCEPT ![t] = "trim"] /\ UNCHANGED job

-----------------------------------------------------------------------------
(* Requests.                                                               *)

Asks(t, req) ==
  /\ pc[t] = "idle"
  /\ pc' = [pc EXCEPT ![t] = IF req.n >= MinBytes THEN "bigalloc" ELSE "malloc"]
  /\ job' = [job EXCEPT ![t] = req]
  /\ UNCHANGED <<pool, nl, handler, lock, mixer>>

Room == Cardinality(held) < MaxHeld

Znwj_diag(t, n) == Room /\ Asks(t, [Idle EXCEPT !.op = "new", !.n = n]) /\ UNCHANGED <<held, sound>>
malloc_diag(n) == Room /\ Asks(Game, [Idle EXCEPT !.op = "malloc", !.n = n]) /\ UNCHANGED <<held, sound>>

\* big_realloc.  A pool block that is large enough already is returned as it is.
SizeOf(m) == blk[m[1]][m[2]].size - Header
realloc_diag(m, n) ==
  /\ m \in held /\ (bigalloc_owns(m) => n > SizeOf(m))
  /\ Asks(Game, [Idle EXCEPT !.op = "realloc", !.n = n, !.old = m])
  /\ held' = held \ {m}
  /\ UNCHANGED sound

\* The delete operators and free.
ZdlPv_diag(t, m) ==
  /\ pc[t] = "idle" /\ m \in held
  /\ big_free(m) /\ held' = held \ {m}
  /\ UNCHANGED <<handler, pc, job, lock, sound, mixer>>

Bigalloc(t) ==
  /\ pc[t] = "bigalloc"
  /\ \/ \E m \in Segs \X (0 .. SegSize - 1) : takes(job[t].n, m) /\ Got(t, m)
     \/ takeFails(job[t].n) /\ pc' = [pc EXCEPT ![t] = "malloc"] /\ UNCHANGED <<job, held>>
  /\ UNCHANGED <<nl, handler, lock, sound, mixer>>

\* newlib's realloc, when the old block is its own, resizes that or leaves it alone.
Resizes(t) == job[t].op = "realloc" /\ ~bigalloc_owns(job[t].old)

Malloc(t) ==
  /\ pc[t] = "malloc"
  /\ \/ ~Resizes(t) /\ \E i \in 1 .. NLib : malloc(i) /\ Got(t, <<0, i>>)
     \/ /\ Resizes(t)
        /\ held' = held \cup {job[t].old}
        /\ pc' = [pc EXCEPT ![t] = "idle"] /\ job' = [job EXCEPT ![t] = Idle]
        /\ UNCHANGED nl
     \/ pc' = [pc EXCEPT ![t] = "rescue"] /\ UNCHANGED <<nl, job, held>>
  /\ UNCHANGED <<pool, handler, lock, sound, mixer>>

bigalloc_rescue(t) ==
  /\ pc[t] = "rescue"
  /\ \/ \E m \in Segs \X (0 .. SegSize - 1) : takes(job[t].n, m) /\ Got(t, m)
     \/ takeFails(job[t].n) /\ Refused(t)
  /\ UNCHANGED <<nl, handler, lock, sound, mixer>>

FreeOld(t) ==
  /\ pc[t] = "free"
  /\ big_free(job[t].old)
  /\ pc' = [pc EXCEPT ![t] = "idle"] /\ job' = [job EXCEPT ![t] = Idle]
  /\ UNCHANGED <<held, handler, lock, sound, mixer>>

\* real_Znwj: malloc, else the handler, else bad_alloc, which nothing catches.
Loop(t) ==
  /\ pc[t] = "loop"
  /\ \/ \E i \in 1 .. NLib : malloc(i) /\ Got(t, <<0, i>>) /\ UNCHANGED lock
     \/ /\ handler /\ lock = "free" /\ lock' = t
        /\ pc' = [pc EXCEPT ![t] = "purge"]
        /\ job' = [job EXCEPT ![t].got = FALSE] /\ UNCHANGED <<nl, held>>
     \/ /\ ~handler
        /\ pc' = [pc EXCEPT ![t] = "threw"] /\ UNCHANGED <<nl, job, held, lock>>
  /\ UNCHANGED <<pool, handler, sound, mixer>>

-----------------------------------------------------------------------------
(* The cache of decoded sounds.                                            *)

Bytes(c) == IF cache[c].mem = None THEN 0 ELSE Clips[cache[c].clip]
Evictable == {c \in 1 .. NCache : cache[c].clip # 0 /\ cache[c].refs = 0}

audio_pcm_free_deferred_now(m) == audio_pcm_free(m) /\ UNCHANGED <<retire, leaked>>
\* audio_pcm_free_deferred: what a grain may be reading waits for its end.
audio_pcm_free_deferred(m) ==
  IF mixing
  THEN /\ IF Len(retire) < NCache THEN retire' = Append(retire, m) /\ UNCHANGED leaked
          ELSE leaked' = leaked \cup ({m} \ {None}) /\ UNCHANGED retire
       /\ UNCHANGED <<pool, nl>>
  ELSE audio_pcm_free(m) /\ UNCHANGED <<retire, leaked>>

Evict(c) ==
  /\ pcm_bytes' = IF pcm_bytes > Bytes(c) THEN pcm_bytes - Bytes(c) ELSE 0
  /\ audio_pcm_free_deferred(cache[c].mem)
  /\ cache' = [cache EXCEPT ![c] = Unused]
  /\ UNCHANGED <<snd, loads, mixing, reads, ret>>

\* audio_cache_purge, called by the new-handler with the lock taken.
audio_cache_purge(t) ==
  /\ pc[t] = "purge"
  /\ \E c \in Evictable :
       /\ Evict(c)
       /\ job' = [job EXCEPT ![t].got = @ \/ Bytes(c) > 0]
  /\ UNCHANGED <<held, handler, pc, lock>>

heap_new_handler_stays(t) ==
  /\ pc[t] = "purge" /\ Evictable = {}
  /\ lock' = "free"
  /\ pc' = [pc EXCEPT ![t] = "loop"]
  /\ UNCHANGED <<pool, nl, held, handler, job, sound, mixer>>
\* heap_new_handler returns, or stands down for good.
heap_new_handler(t) ==
  /\ pc[t] = "purge" /\ Evictable = {}
  /\ lock' = "free"
  /\ handler' = (handler /\ job[t].got)
  /\ pc' = [pc EXCEPT ![t] = "loop"]
  /\ UNCHANGED <<pool, nl, held, job, sound, mixer>>

\* createSound: found, decoded, or timed silence with no samples.
Found(k) == {c \in 1 .. NCache : cache[c].clip = k}
createSound(k) ==
  /\ pc[Game] = "idle" /\ loads < MaxLoads /\ lock = "free"
  /\ loads' = loads + 1
  /\ UNCHANGED <<held, snd, pcm_bytes>>
  /\ \/ \E c \in Found(k) :                      \* under the lock
          /\ cache' = [cache EXCEPT ![c].refs = @ + 1]
          /\ pc' = [pc EXCEPT ![Game] = "sound"]
          /\ job' = [job EXCEPT ![Game].slot = c]
          /\ UNCHANGED <<pool, nl, handler, lock, mixer>>
     \/ /\ Found(k) = {}
        /\ Asks(Game, [Idle EXCEPT !.op = "decode", !.n = Clips[k], !.clip = k])
        /\ UNCHANGED cache
     \/ /\ Found(k) = {}                          \* a stream that is too large
        /\ pc' = [pc EXCEPT ![Game] = "trim"]
        /\ job' = [job EXCEPT ![Game].clip = k]
        /\ UNCHANGED <<pool, nl, handler, lock, mixer, cache>>

InsertBegins ==
  /\ pc[Game] = "trim" /\ lock = "free"
  /\ lock' = Game /\ pc' = [pc EXCEPT ![Game] = "insert"]
  /\ UNCHANGED <<pool, nl, held, handler, job, sound, mixer>>

\* cache_insert: trim toward Keep, refuse beyond Budget, take a free slot or evict for one.
NewBytes == IF job[Game].mem = None THEN 0 ELSE Clips[job[Game].clip]
Empty == {c \in 1 .. NCache : cache[c].clip = 0}
Trims == pcm_bytes + NewBytes > Keep /\ Evictable # {}
Full == pcm_bytes + NewBytes > Budget

InsertEvicts ==
  /\ pc[Game] = "insert"
  /\ Trims \/ (~Full /\ Empty = {})
  /\ \E c \in Evictable : Evict(c)
  /\ UNCHANGED <<held, handler, pc, job, lock>>

Insert ==
  /\ pc[Game] = "insert" /\ ~Trims /\ ~Full
  /\ \E c \in Empty :
       /\ \A d \in Empty : c <= d
       /\ cache' = [cache EXCEPT ![c] = [clip |-> job[Game].clip, refs |-> 1, mem |-> job[Game].mem]]
       /\ job' = [job EXCEPT ![Game] = [Idle EXCEPT !.slot = c]]
  /\ pcm_bytes' = pcm_bytes + NewBytes
  /\ lock' = "free" /\ pc' = [pc EXCEPT ![Game] = "sound"]
  /\ UNCHANGED <<pool, nl, held, handler, snd, loads, mixer>>

InsertRefused ==
  /\ pc[Game] = "insert" /\ ~Trims
  /\ Full \/ (Empty = {} /\ Evictable = {})
  /\ lock' = "free" /\ pc' = [pc EXCEPT ![Game] = "drop"]
  /\ UNCHANGED <<pool, nl, held, handler, job, sound, mixer>>

Drop ==
  /\ pc[Game] = "drop"
  /\ audio_pcm_free(job[Game].mem)
  /\ pc' = [pc EXCEPT ![Game] = "idle"] /\ job' = [job EXCEPT ![Game] = Idle]
  /\ UNCHANGED <<held, handler, lock, sound, mixer>>

NewSound_keepsRef ==
  /\ pc[Game] = "sound" /\ lock = "free"
  /\ \/ \E h \in 1 .. NSounds : snd[h] = 0 /\ snd' = [snd EXCEPT ![h] = job[Game].slot]
     \/ (\A h \in 1 .. NSounds : snd[h] # 0) /\ UNCHANGED snd
  /\ pc' = [pc EXCEPT ![Game] = "idle"] /\ job' = [job EXCEPT ![Game] = Idle]
  /\ UNCHANGED <<pool, nl, held, handler, lock, cache, pcm_bytes, loads, mixer>>
\* snd_alloc, or cache_release when there is no Sound left.
NewSound ==
  /\ pc[Game] = "sound" /\ lock = "free"
  /\ \/ \E h \in 1 .. NSounds :
          /\ snd[h] = 0 /\ \A g \in 1 .. h - 1 : snd[g] # 0
          /\ snd' = [snd EXCEPT ![h] = job[Game].slot] /\ UNCHANGED cache
     \/ /\ \A h \in 1 .. NSounds : snd[h] # 0
        /\ cache' = [cache EXCEPT ![job[Game].slot].refs = @ - 1] /\ UNCHANGED snd
  /\ pc' = [pc EXCEPT ![Game] = "idle"] /\ job' = [job EXCEPT ![Game] = Idle]
  /\ UNCHANGED <<pool, nl, held, handler, lock, pcm_bytes, loads, mixer>>

Snd_release(h) ==
  /\ pc[Game] = "idle" /\ lock = "free" /\ snd[h] # 0
  /\ cache' = [cache EXCEPT ![snd[h]].refs = @ - 1]
  /\ snd' = [snd EXCEPT ![h] = 0]
  /\ UNCHANGED <<pool, nl, held, handler, pc, job, lock, pcm_bytes, loads, mixer>>

-----------------------------------------------------------------------------
(* The audio thread: mix_grain.                                            *)

\* The samples of the sounds in use, of which it reads those that play.
Playable == {cache[snd[h]].mem : h \in {g \in 1 .. NSounds : snd[g] # 0}} \ {None}

MixBegin ==
  /\ ~mixing /\ ret = <<>> /\ lock = "free"
  /\ mixing' = TRUE /\ reads' \in SUBSET Playable
  /\ UNCHANGED <<pool, nl, held, handler, pc, job, lock, sound, retire, ret, leaked>>

MixEnd ==
  /\ mixing /\ lock = "free"
  /\ mixing' = FALSE /\ reads' = {}
  /\ ret' = retire /\ retire' = <<>>
  /\ UNCHANGED <<pool, nl, held, handler, pc, job, lock, sound, leaked>>

MixFrees ==
  /\ ret # <<>> /\ ret' = Tail(ret)
  /\ audio_pcm_free(Head(ret))
  /\ UNCHANGED <<held, handler, pc, job, lock, sound, mixing, reads, retire, leaked>>

-----------------------------------------------------------------------------

Serves(t) ==
  \/ Bigalloc(t) \/ Malloc(t) \/ bigalloc_rescue(t) \/ FreeOld(t) \/ Loop(t)
  \/ audio_cache_purge(t) \/ heap_new_handler(t)

Creates == InsertBegins \/ InsertEvicts \/ Insert \/ InsertRefused \/ Drop \/ NewSound

Mixes == MixBegin \/ MixEnd \/ MixFrees

Next ==
  \/ \E t \in Threads : \E n \in Sizes[t] : Znwj_diag(t, n)
  \/ \E t \in Threads, m \in held : ZdlPv_diag(t, m)
  \/ \E n \in Sizes[Game] : malloc_diag(n) \/ \E m \in held : realloc_diag(m, n)
  \/ \E t \in Threads : Serves(t)
  \/ \E k \in DOMAIN Clips : createSound(k)
  \/ Creates
  \/ \E h \in 1 .. NSounds : Snd_release(h)
  \/ Mixes

Spec == Init /\ [][Next]_vars

\* Every thread that allocates runs; the audio thread owes nobody anything.
FairSpec == Spec /\ (\A t \in Threads : WF_vars(Serves(t))) /\ WF_vars(Creates)

-----------------------------------------------------------------------------

InUse == {<<0, i>> : i \in nl} \cup Live(nseg, blk)

\* Who is to give m back.
Owners(m) ==
  {<<"cache", c>> : c \in {d \in 1 .. NCache : cache[d].mem = m}}
  \cup {<<"retire", i>> : i \in {j \in DOMAIN retire : retire[j] = m}}
  \cup {<<"ret", i>> : i \in {j \in DOMAIN ret : ret[j] = m}}
  \cup {<<"job", t>> : t \in {u \in Threads : m \in {job[u].mem, job[u].old}}}
  \cup {<<"game", i>> : i \in {j \in {0} : m \in held}}
  \cup {<<"leaked", i>> : i \in {j \in {0} : m \in leaked}}

\* Whatever is handed out has exactly one owner who will give it back, through realloc,
\* evictions, deferred and refused inserts, and nothing is owned that was given back.
OneOwner ==
  /\ \A m \in InUse : Cardinality(Owners(m)) = 1
  /\ \A m \in held \cup leaked \cup Range(retire) \cup Range(ret)
             \cup {cache[c].mem : c \in 1 .. NCache}
             \cup UNION {{job[t].mem, job[t].old} : t \in Threads} :
       m = None \/ m \in InUse

\* The pool is whole and nothing in it, or of newlib's, is lost or shared
\* (bigalloc.c:183-309, dynlib.c:677-707).
BlocksSound == PoolTiled /\ OneOwner

\* The samples a grain reads without the lock are neither freed nor handed to anybody
\* until it ends, whoever evicts or purges them (audio_patch.c:276-296, 519-533).
MixedSamplesStay ==
  \A m \in reads : \E o \in Owners(m) : o[1] \in {"cache", "retire", "leaked"}

\* The sum of f over the entries.
Total(f) == LET s[c \in 0 .. NCache] == IF c = 0 THEN 0 ELSE s[c - 1] + f[c] IN s[NCache]

\* An entry has as many references as Sounds refer to it, and the bytes counted
\* against the budgets are those of the entries, which stay within the larger budget
\* (audio_patch.c:299-343, 1626-1652, 1967).
CacheExact ==
  /\ \A c \in 1 .. NCache :
       cache[c].refs = Cardinality({h \in 1 .. NSounds : snd[h] = c})
                       + (IF pc[Game] = "sound" /\ job[Game].slot = c THEN 1 ELSE 0)
  /\ pcm_bytes = Total([c \in 1 .. NCache |-> Bytes(c)]) /\ pcm_bytes <= Budget

\* operator new always gets its memory or throws: the handler never makes it retry
\* for nothing (heap.c:191-209).
NewReturns ==
  \A t \in Threads : pc[t] = "loop" ~> pc[t] \in {"idle", "threw"}
=============================================================================
