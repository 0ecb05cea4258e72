------------------------------ MODULE GLQueue ------------------------------
(***************************************************************************)
(* The GL ring of loader/gl_thread.c: the game thread writes records, the  *)
(* render thread replays them, two semaphores and two flags put either to  *)
(* sleep.                                                                  *)
(*                                                                         *)
(* Every read or write of a variable both threads touch is a step of its   *)
(* own; work on thread-private data rides along with the step before it.   *)
(* The interleaving is sequentially consistent except where the code has   *)
(* no fence (see Advance).  Positions are kept as naturals and cut to the  *)
(* uint32_t the code holds wherever the code compares or indexes (U32), so *)
(* wrapping of g_wpos, g_head and g_tail happens in every comparison.      *)
(***************************************************************************)
EXTENDS Integers, Sequences

CONSTANTS
  RingWords,   \* RING_WORDS
  PosMod,      \* 2^32, the range of a position; a multiple of RingWords
  RecMax,      \* REC_MAX, the largest record that is copied into the ring
  RpcWords,    \* RPC_WORDS
  FlushWords,  \* GL_THREAD_FLUSH_WORDS
  PubEvery,    \* the consumer publishes its tail every so many records (64)
  PutWords,    \* sizes of the records of glq_put
  CopyWords,   \* sizes glq_put_copy computes, some above RecMax
  MaxCalls,    \* bound on the calls the game makes
  Timeouts     \* whether the 1 ms timeout of wait_until may fire

ASSUME RingAssumption ==
  /\ RingWords \in Nat \ {0} /\ PosMod \in Nat
  /\ PosMod % RingWords = 0 /\ PosMod >= 2 * RingWords
  /\ RecMax \in Nat /\ 2 * RecMax <= RingWords
  /\ RpcWords \in 2 .. RecMax
  /\ PutWords \subseteq 2 .. RecMax
  /\ CopyWords \subseteq Nat \ {0, 1}
ASSUME PolicyAssumption ==
  /\ FlushWords \in Nat \ {0} /\ PubEvery \in Nat \ {0}
  /\ MaxCalls \in Nat /\ Timeouts \in BOOLEAN

VARIABLES
  ringOk,       \* gl_thread_init made the ring, the semaphores and the thread
  mode,         \* g_glq_on: "queued" when set, "loading" before, "fatal" after
  inRpc,        \* g_glq_in_rpc
  head, tail,   \* g_head, g_tail
  consSleeping, prodWaiting,
  workSema, prodSema,
  swapsDone,    \* g_swaps_done
  ring,         \* g_ring: each word names the record it belongs to
  \* The game thread: the producer.
  ppc,
  goal,         \* what it flushes or waits for
  cur,          \* the call it is making
  wpos, pub, tailSeen,
  swapsQueued,
  slot,         \* r of glq_rpc: where its record starts
  got,          \* the call whose return value it read last, 0 before
  \* The render thread: the consumer.
  cpc,
  t, h, k,      \* render_thread's locals
  rec,          \* the record it is executing
  after,        \* where wake_producer returns to
  \* History: the calls made and not yet run, the number of the last one run.
  pending, ran

signals == <<consSleeping, prodWaiting, workSema, prodSema>>
producer == <<ppc, goal, cur, wpos, pub, tailSeen, swapsQueued, slot,
              got>>
consumer == <<cpc, t, h, k, rec, after>>
vars == <<ringOk, mode, inRpc, head, tail, swapsDone, ring,
          signals, producer, consumer, pending, ran>>

-----------------------------------------------------------------------------
(* Positions *)

U32(x) == x % PosMod
Idx(p) == U32(p) % RingWords
Cells == 0 .. RingWords - 1

\* Mutants, here and below, bear the name of what they replace.
Pad_noWrap(need) == 0

\* Words skipped so that a record of `need' words does not straddle the end.
Pad(need) == IF Idx(wpos) + need > RingWords THEN RingWords - Idx(wpos) ELSE 0

\* Positions compared, not their 32-bit distance.

\* W_SPACE of cond_met against a tail.
Fits(seen) == U32(wpos + Pad(cur.words) + cur.words - seen) <= RingWords

\* A present waits for the last but one.
Met_twoFrames ==
  CASE goal = "space" -> Fits(tail)
    [] goal \in {"answer", "stop"} -> U32(tail) = U32(wpos)
    [] OTHER -> swapsDone + 1 >= swapsQueued

\* cond_met re-reading what the other thread publishes. (Its first test of
\* W_SPACE, against tailSeen, has failed already whenever a wait for space is
\* entered or repeated: only the re-read can succeed.)
Met ==
  CASE goal = "space" -> Fits(tail)
    [] goal \in {"answer", "stop"} -> U32(tail) = U32(wpos)
    [] OTHER -> swapsDone >= swapsQueued
Seen == IF goal = "swap" THEN tailSeen ELSE tail

\* The test of glq_put, glq_put_copy and glq_rpc; gl_thread_swap looks at
\* g_glq_on alone.
Inline(kind) == mode # "queued" \/ (kind # "swap" /\ inRpc)

-----------------------------------------------------------------------------
(* The calls of the game *)

\* glq_put_copy sends what is too big for the ring as an RPC; an IME present
\* (swap_sync) and every glq_make_rpc_thunks thunk are RPCs too.
Requests ==
  [kind : {"put"}, words : PutWords \cup {w \in CopyWords : w <= RecMax}]
    \cup [kind : {"rpc"}, words : {RpcWords}]
    \cup [kind : {"swap"}, words : {2}]

Idle == [kind |-> "none", words |-> 0]

\* The number of calls made so far, and the history of a call and of its run.
made == ran + Len(pending)
Entry(kind, words, pos) ==
  [id |-> made + 1, kind |-> kind, words |-> words, pos |-> pos]
Ran(id) ==
  /\ ran' = id
  /\ pending' = (IF pending # <<>> /\ Head(pending).id = id
                 THEN Tail(pending) ELSE pending)

\* What a word of the ring can say: header and body of a record, the return
\* value of an RPC, and zero: memset's, or the wrap marker.
Word(id, kind, words) == [id |-> id, kind |-> kind, words |-> words]
Zero == Word(0, "zero", 0)

Init ==
  /\ ringOk \in BOOLEAN
  /\ mode = "loading" /\ inRpc = FALSE
  /\ head = 0 /\ tail = 0
  /\ consSleeping = FALSE /\ prodWaiting = FALSE
  /\ workSema = 0 /\ prodSema = 0
  /\ swapsDone = 0 /\ swapsQueued = 0
  /\ ring = [i \in Cells |-> Zero]
  /\ ppc = "idle" /\ goal = "none" /\ cur = Idle
  /\ wpos = 0 /\ pub = 0 /\ tailSeen = 0 /\ got = 0 /\ slot = 0
  /\ cpc = (IF ringOk THEN "load" ELSE "none")
  /\ t = 0 /\ h = 0 /\ k = 0 /\ rec = Zero /\ after = "load"
  /\ pending = <<>> /\ ran = 0

shared == <<ringOk, mode, inRpc, head, tail, swapsDone, ring>>
ringState == <<wpos, pub, swapsQueued, slot, got>>

\* gl_thread_start, once glq_begin has seeded the mirror.
Start ==
  /\ ppc = "idle" /\ mode = "loading" /\ ringOk
  /\ mode' = "queued"
  /\ UNCHANGED <<ringOk, inRpc, head, tail, swapsDone, ring,
                 signals, producer, consumer, pending, ran>>

Stop_withoutSync ==
  /\ ppc = "idle" /\ mode = "queued"
  /\ ppc' = "stop" /\ UNCHANGED goal
  /\ UNCHANGED <<shared, signals, consumer, pending, ran,
                 cur, ringState, tailSeen>>

\* gl_thread_stop, called by fatal_error on the game thread.
Stop ==
  /\ ppc = "idle" /\ mode = "queued"
  /\ IF inRpc THEN ppc' = "stop" /\ UNCHANGED goal
              ELSE ppc' = "flush" /\ goal' = "stop"
  /\ UNCHANGED <<shared, signals, consumer, pending, ran,
                 cur, ringState, tailSeen>>
StopDone ==
  /\ ppc = "stop"
  /\ mode' = "fatal"
  /\ ppc' = "idle" /\ goal' = "none"
  /\ UNCHANGED <<ringOk, inRpc, head, tail, swapsDone, ring, signals,
                 consumer, pending, ran, cur, ringState, tailSeen>>

\* A GL call: on the spot, or into the ring. A present first waits for the
\* one before it.
Request(r) ==
  /\ ppc = "idle" /\ made < MaxCalls
  /\ cur' = r
  /\ IF Inline(r.kind)
     THEN /\ pending' = Append(pending, Entry(r.kind, 0, 0))
          /\ ppc' = "inline" /\ UNCHANGED goal
     ELSE /\ IF r.kind = "swap" THEN ppc' = "test" /\ goal' = "swap"
                                ELSE ppc' = "reserve" /\ UNCHANGED goal
          /\ UNCHANGED pending
  /\ UNCHANGED <<shared, signals, consumer, ran, ringState, tailSeen>>

InlineRun ==
  /\ ppc = "inline"
  /\ Ran(made)
  /\ got' = (IF cur.kind = "rpc" THEN made ELSE got)
  /\ ppc' = "idle" /\ cur' = Idle
  /\ UNCHANGED <<shared, signals, consumer,
                 goal, wpos, pub, tailSeen, swapsQueued, slot>>

-----------------------------------------------------------------------------
(* reserve, commit *)

Reserve_unchecked ==
  /\ ppc = "reserve" /\ ppc' = "write"
  /\ UNCHANGED <<shared, signals, consumer, pending, ran, cur, ringState,
                 tailSeen, goal>>

\* reserve: g_tail is read only when tailSeen says there is no room.
Reserve ==
  /\ ppc = "reserve"
  /\ tailSeen' = (IF Fits(tailSeen) THEN tailSeen ELSE tail)
  /\ IF Fits(tailSeen')
     THEN ppc' = "write" /\ UNCHANGED goal
     ELSE ppc' = "flush" /\ goal' = "space"
  /\ UNCHANGED <<shared, signals, consumer, pending, ran, cur, ringState>>

\* The ring with the marker and the record of the call being made.
Written(pad) ==
  LET first == Idx(wpos + pad)
  IN  [i \in Cells |->
         IF i \in first .. first + cur.words - 1
         THEN Word(made + 1, cur.kind, cur.words)
         ELSE IF pad > 0 /\ i = Idx(wpos) THEN Zero ELSE ring[i]]


\* commit flushes at FLUSH_WORDS; glq_rpc and gl_thread_swap always do.
FlushNow(used) == cur.kind \in {"rpc", "swap"} \/ U32(used - pub) >= FlushWords

Write ==
  /\ ppc = "write"
  /\ LET pad == Pad(cur.words)
         end == wpos + pad + cur.words
     IN  /\ ring' = Written(pad)
         /\ wpos' = end
         /\ slot' = (IF cur.kind = "rpc" THEN wpos + pad ELSE slot)
         /\ pending' = Append(pending, Entry(cur.kind, cur.words, wpos + pad))
         /\ ppc' = (IF FlushNow(end) THEN "flush" ELSE "idle")
  /\ goal' = (IF cur.kind = "rpc" THEN "answer" ELSE "none")
  /\ cur' = Idle
  /\ UNCHANGED <<ringOk, mode, inRpc, head, tail, swapsDone, signals, consumer,
                 ran, pub, tailSeen, swapsQueued, got>>

-----------------------------------------------------------------------------
(* glq_flush *)

AfterFlush == IF goal = "none" THEN "idle" ELSE "test"

Flush ==
  /\ ppc = "flush"
  /\ IF pub = wpos
     THEN ppc' = AfterFlush /\ UNCHANGED <<pub, head>>
     ELSE ppc' = "flushed" /\ pub' = wpos /\ head' = wpos
  /\ UNCHANGED <<ringOk, mode, inRpc, tail, swapsDone, ring, signals, consumer,
                 pending, ran, goal, cur, wpos, tailSeen, swapsQueued, slot, got>>

FlushCheck ==
  /\ ppc = "flushed"
  /\ ppc' = (IF consSleeping THEN "rouse" ELSE AfterFlush)
  /\ UNCHANGED <<shared, signals, consumer, pending, ran,
                 goal, cur, ringState, tailSeen>>

FlushClear ==
  /\ ppc = "rouse"
  /\ consSleeping' = FALSE
  /\ ppc' = "signal"
  /\ UNCHANGED <<shared, prodWaiting, workSema, prodSema, consumer, pending, ran,
                 goal, cur, ringState, tailSeen>>

FlushSignal ==
  /\ ppc = "signal"
  /\ workSema' = workSema + 1
  /\ ppc' = AfterFlush
  /\ UNCHANGED <<shared, consSleeping, prodWaiting, prodSema, consumer, pending,
                 ran, goal, cur, ringState, tailSeen>>

-----------------------------------------------------------------------------
(* wait_until *)

\* wait_until returns and its caller goes on.
Proceed ==
  /\ ppc' = (CASE goal = "space" -> "write" [] goal = "swap" -> "reserve"
               [] OTHER -> goal)
  /\ goal' = "none"
  /\ swapsQueued' = (IF goal = "swap" THEN swapsQueued + 1 ELSE swapsQueued)

\* The first test, the GL_THREAD_SPIN tests after it and the loop's condition
\* are all this test; prodWaiting may be left set when it succeeds.
Test ==
  /\ ppc = "test"
  /\ tailSeen' = Seen
  /\ IF Met THEN Proceed ELSE ppc' = "arm" /\ UNCHANGED <<goal, swapsQueued>>
  /\ UNCHANGED <<shared, signals, consumer, pending, ran, cur, wpos, pub, slot, got>>

Arm ==
  /\ ppc = "arm"
  /\ prodWaiting' = TRUE
  /\ ppc' = "recheck"
  /\ UNCHANGED <<shared, consSleeping, workSema, prodSema, consumer, pending,
                 ran, goal, cur, ringState, tailSeen>>

\* Arming only after the last look at the tail.
Recheck_missing ==
  /\ ppc = "recheck"
  /\ ppc' = "sleep"
  /\ UNCHANGED <<shared, signals, consumer, pending, ran, goal, cur, ringState,
                 tailSeen>>

Recheck ==
  /\ ppc = "recheck"
  /\ tailSeen' = Seen
  /\ ppc' = (IF Met THEN "disarm" ELSE "sleep")
  /\ UNCHANGED <<shared, signals, consumer, pending, ran, goal, cur, ringState>>

Disarm ==
  /\ ppc = "disarm"
  /\ prodWaiting' = FALSE
  /\ Proceed
  /\ UNCHANGED <<shared, consSleeping, workSema, prodSema, consumer, pending,
                 ran, cur, wpos, pub, slot, got, tailSeen>>

\* The semaphore is taken even when the wait timed out.
Woken ==
  /\ ppc = "sleep"
  /\ \/ prodSema > 0 /\ prodSema' = prodSema - 1
     \/ Timeouts /\ UNCHANGED prodSema
  /\ ppc' = "test"
  /\ UNCHANGED <<shared, consSleeping, prodWaiting, workSema, consumer, pending,
                 ran, goal, cur, ringState, tailSeen>>

\* The value is read from the first word.
Answer_firstWord ==
  /\ ppc = "answer"
  /\ LET r11 == ring[Idx(slot)]
     IN  got' = (IF r11.kind = "value" THEN r11.id ELSE 0)
  /\ ppc' = "reseed"
  /\ UNCHANGED <<shared, signals, consumer, pending, ran,
                 goal, cur, wpos, pub, swapsQueued, slot, tailSeen>>

\* glq_rpc reads the return value from the last word of its record.
Answer ==
  /\ ppc = "answer"
  /\ LET r11 == ring[Idx(slot + RpcWords - 1)]
     IN  got' = (IF r11.kind = "value" THEN r11.id ELSE 0)
  /\ ppc' = "reseed"
  /\ UNCHANGED <<shared, signals, consumer, pending, ran,
                 goal, cur, wpos, pub, swapsQueued, slot, tailSeen>>

\* g_glq_after_rpc: glq_reseed reads GL state on the game thread.
Reseed ==
  /\ ppc = "reseed"
  /\ ppc' = "idle"
  /\ UNCHANGED <<shared, signals, consumer, pending, ran,
                 goal, cur, ringState, tailSeen>>

-----------------------------------------------------------------------------
(* The render thread *)

unseen == <<ringOk, mode>>

\* The top of the loop: everything up to the head is done, or there is work.
Load ==
  /\ cpc = "load"
  /\ h' = head
  /\ cpc' = (IF U32(head) = U32(t) THEN "caughtUp" ELSE "fetch")
  /\ UNCHANGED <<shared, signals, producer, pending, ran, t, k, rec, after>>

CaughtUp ==
  /\ cpc = "caughtUp"
  /\ tail' = t
  /\ cpc' = "wake" /\ after' = "look"
  /\ UNCHANGED <<unseen, inRpc, head, swapsDone, ring, signals, producer,
                 pending, ran, t, h, k, rec>>

\* wake_producer: read the flag, clear it, signal.
Wake ==
  /\ cpc = "wake"
  /\ cpc' = (IF prodWaiting THEN "wakeClear" ELSE after)
  /\ UNCHANGED <<shared, signals, producer, pending, ran, t, h, k, rec, after>>
WakeClear ==
  /\ cpc = "wakeClear"
  /\ prodWaiting' = FALSE
  /\ cpc' = "wakeSignal"
  /\ UNCHANGED <<shared, consSleeping, workSema, prodSema, producer,
                 pending, ran, t, h, k, rec, after>>
WakeSignal ==
  /\ cpc = "wakeSignal"
  /\ prodSema' = prodSema + 1
  /\ cpc' = after
  /\ UNCHANGED <<shared, consSleeping, prodWaiting, workSema, producer,
                 pending, ran, t, h, k, rec, after>>

\* The spin before sleeping.
Look ==
  /\ cpc = "look"
  /\ cpc' = (IF U32(head) # U32(t) THEN "load" ELSE "doze")
  /\ UNCHANGED <<shared, signals, producer, pending, ran, t, h, k, rec, after>>
Doze ==
  /\ cpc = "doze"
  /\ consSleeping' = TRUE
  /\ cpc' = "lookAgain"
  /\ UNCHANGED <<shared, prodWaiting, workSema, prodSema, producer,
                 pending, ran, t, h, k, rec, after>>
LookAgain_missing ==
  /\ cpc = "lookAgain"
  /\ cpc' = "asleep"
  /\ UNCHANGED <<shared, signals, producer, pending, ran, t, h, k, rec, after>>

LookAgain ==
  /\ cpc = "lookAgain"
  /\ cpc' = (IF U32(head) = U32(t) THEN "asleep" ELSE "awake")
  /\ UNCHANGED <<shared, signals, producer, pending, ran, t, h, k, rec, after>>
Asleep ==
  /\ cpc = "asleep" /\ workSema > 0
  /\ workSema' = workSema - 1
  /\ cpc' = "awake"
  /\ UNCHANGED <<shared, consSleeping, prodWaiting, prodSema, producer,
                 pending, ran, t, h, k, rec, after>>
Awake ==
  /\ cpc = "awake"
  /\ consSleeping' = FALSE
  /\ cpc' = "load"
  /\ UNCHANGED <<shared, prodWaiting, workSema, prodSema, producer,
                 pending, ran, t, h, k, rec, after>>

\* `while (t != h)': go on with the batch or reload the head.
More(pos) == IF U32(pos) = U32(h) THEN "load" ELSE "fetch"

SkipPad ==
  /\ cpc = "fetch" /\ ring[Idx(t)] = Zero
  /\ t' = t + RingWords - Idx(t)
  /\ cpc' = More(t')
  /\ UNCHANGED <<shared, signals, producer, pending, ran, h, k, rec, after>>

Fetch ==
  /\ cpc = "fetch" /\ ring[Idx(t)] # Zero
  /\ rec' = ring[Idx(t)]
  /\ inRpc' = (rec'.kind = "rpc")
  /\ cpc' = "exec"
  /\ UNCHANGED <<unseen, head, tail, swapsDone, ring, signals, producer,
                 pending, ran, t, h, k, after>>

\* The call runs. A present counts itself; an RPC stores its return value.
Exec ==
  /\ cpc = "exec"
  /\ Ran(rec.id)
  /\ swapsDone' = (IF rec.kind = "swap" THEN swapsDone + 1 ELSE swapsDone)
  /\ ring' = (IF rec.kind = "rpc"
              THEN [ring EXCEPT ![Idx(t + RpcWords - 1)] = Word(rec.id, "value", 0)]
              ELSE ring)
  /\ cpc' = (IF rec.kind = "rpc" THEN "leaveRpc" ELSE "advance")
  /\ UNCHANGED <<unseen, inRpc, head, tail, signals, producer,
                 t, h, k, rec, after>>

LeaveRpc ==
  /\ cpc = "leaveRpc"
  /\ inRpc' = FALSE
  /\ cpc' = "advance"
  /\ UNCHANGED <<unseen, head, tail, swapsDone, ring, signals, producer,
                 pending, ran, t, h, k, rec, after>>

\* Step over the record; publish when the producer waits and every PubEvery
\* records. Nothing orders this read of g_prod_waiting after the stores the
\* record made, so a flag just set may be missed here (it cannot be missed in
\* Wake after CaughtUp, where the code has a full barrier).
Advance ==
  /\ cpc = "advance"
  /\ t' = t + rec.words
  /\ rec' = Zero
  /\ k' = (k + 1) % PubEvery
  /\ \/ /\ prodWaiting \/ k' = 0
        /\ cpc' = "publish" /\ after' = More(t')
     \/ k' # 0 /\ cpc' = More(t') /\ UNCHANGED after
  /\ UNCHANGED <<shared, signals, producer, pending, ran, h>>

Publish ==
  /\ cpc = "publish"
  /\ tail' = t
  /\ cpc' = "wake"
  /\ UNCHANGED <<unseen, inRpc, head, swapsDone, ring, signals, producer,
                 pending, ran, t, h, k, rec, after>>

-----------------------------------------------------------------------------
Requesting == \E r \in Requests : Request(r)

\* What the game thread does inside a call, and the render thread.
GameStep ==
  \/ InlineRun \/ StopDone \/ Reserve \/ Write
  \/ Flush \/ FlushCheck \/ FlushClear \/ FlushSignal
  \/ Test \/ Arm \/ Recheck \/ Disarm \/ Woken \/ Answer \/ Reseed
RenderStep ==
  \/ Load \/ CaughtUp \/ Wake \/ WakeClear \/ WakeSignal
  \/ Look \/ Doze \/ LookAgain \/ Asleep \/ Awake
  \/ SkipPad \/ Fetch \/ Exec \/ LeaveRpc \/ Advance \/ Publish

Next == Start \/ Stop \/ Requesting \/ GameStep \/ RenderStep

Spec == Init /\ [][Next]_vars

\* Both threads are scheduled (each has a core of its own); the game may make
\* no further call, and the timeout may never fire.
Fairness == WF_vars(GameStep) /\ WF_vars(RenderStep)
FairSpec == Spec /\ Fairness

-----------------------------------------------------------------------------
(* Correctness *)

ProducerPcs ==
  {"idle", "inline", "reserve", "write", "flush", "flushed", "rouse", "signal",
   "test", "arm", "recheck", "disarm", "sleep", "answer", "reseed", "stop"}
ConsumerPcs ==
  {"none", "load", "caughtUp", "wake", "wakeClear", "wakeSignal", "look", "doze",
   "lookAgain", "asleep", "awake", "fetch", "exec", "leaveRpc", "advance",
   "publish"}
Requested == Requests \cup {Idle}
Words == [id : Nat, kind : {"put", "rpc", "swap", "value", "zero"},
          words : 0 .. RecMax]
Entries == [id : Nat, kind : {"put", "rpc", "swap"}, words : 0 .. RecMax,
            pos : Nat]

\* Types, and that the flags, cursors and counters stay what the code declares.
TypeOK ==
  /\ ringOk \in BOOLEAN /\ mode \in {"loading", "queued", "fatal"}
  /\ inRpc \in BOOLEAN /\ consSleeping \in BOOLEAN /\ prodWaiting \in BOOLEAN
  /\ head \in Nat /\ tail \in Nat /\ workSema \in Nat /\ prodSema \in Nat
  /\ swapsDone \in Nat /\ swapsQueued \in Nat
  /\ ring \in [Cells -> Words]
  /\ ppc \in ProducerPcs /\ cur \in Requested
  /\ goal \in {"none", "space", "answer", "stop", "swap"}
  /\ wpos \in Nat /\ pub \in Nat /\ tailSeen \in Nat
  /\ slot \in Nat /\ got \in Nat
  /\ cpc \in ConsumerPcs /\ after \in {"look", "load", "fetch"}
  /\ t \in Nat /\ h \in Nat /\ k \in 0 .. PubEvery - 1 /\ rec \in Words
  /\ pending \in Seq(Entries) /\ ran \in Nat

\* The cursors never pass one another: the render thread stays behind what was
\* published, and the game thread never writes over a word that is not free,
\* although it checks space against a tail it read long ago.
CursorOrder ==
  /\ tailSeen <= tail /\ tail <= t /\ t <= h /\ h <= head
  /\ head <= pub /\ pub <= wpos
  /\ wpos - tailSeen <= RingWords

\* A record that has not run yet is in the ring word for word: arguments and
\* copied payloads are intact when the call runs.
UnreadIntact ==
  \A i \in DOMAIN pending :
    LET e == pending[i]
    IN  \A j \in 0 .. e.words - 1 :
          ring[Idx(e.pos + j)] = Word(e.id, e.kind, e.words)

\* "One frame in flight ... but no further" (gl_thread_swap): a present is
\* queued only once the one before it has been shown.
OneFrameInFlight == swapsQueued - swapsDone \in 0 .. 1

\* "vitaGL itself only ever runs on one thread at a time": while the render
\* thread executes a record the game thread is in no GL call of its own,
\* neither an inline one nor the reads of glq_reseed.
VitaGLExclusive == cpc = "exec" => ppc \notin {"inline", "reseed"}

\* "the game thread is parked then" (g_glq_in_rpc): inside an RPC the game
\* thread is waiting for that RPC, so calls that test the flag and run inline
\* because of it are the RPC's own.
InRpcParked ==
  inRpc => goal = "answer" /\ ppc \in {"flushed", "rouse", "signal", "test",
                                       "arm", "recheck", "sleep"}

\* "the answer is exact": glq_rpc returns what its own call returned, and by
\* then everything the game queued has run.
RpcExact == ppc = "reseed" => got = made /\ pending = <<>>

\* The ring implements the stream of GLStream.
Stream == INSTANCE GLStream WITH
  pending <- [i \in DOMAIN pending |->
                [id |-> pending[i].id, kind |-> pending[i].kind]],
  waiting <- IF ppc = "inline" THEN [id |-> made, kind |-> cur.kind]
             ELSE IF goal = "answer" \/ ppc = "answer"
             THEN [id |-> made, kind |-> "rpc"]
             ELSE [id |-> 0, kind |-> "none"],
  answer <- got

\* Every call runs exactly once, in order, presents wait for one another and
\* value-returning calls get their own answer.
ImplementsStream == Stream!Spec

\* The same, and a blocked caller is served, without the help of the timeout.
ImplementsFairStream == Stream!FairSpec

\* Every GL call returns to the game: "the timeout only bounds a missed wake",
\* so no wake may be missed when it never fires.
CallReturns == ppc # "idle" ~> ppc = "idle"

=============================================================================
