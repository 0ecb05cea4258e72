--------------------------- MODULE GLQueueProofs ---------------------------
(***************************************************************************)
(* The invariant of GLQueueInv is inductive.  After the arithmetic of the  *)
(* cells comes type correctness, then one lemma per action.  Most actions  *)
(* leave the chain of records alone (ChainFrame); three change it: Write   *)
(* appends a record (PushKeeps), Exec removes one (PopKeeps), SkipPad steps *)
(* over a wrap marker.  What the ring of gl_thread.c guarantees, for every *)
(* size of ring, mix of records and number of calls, follows: the safety   *)
(* properties that the chain of records alone gives, those that also need  *)
(* to know which call is where, and that the ring implements GLStream.     *)
(***************************************************************************)
EXTENDS GLQueueInv, Numbers, SequenceTheorems, TLAPS

\* The cell of a position is its remainder by the size of the ring.
LEMMA IdxIs ==
  ASSUME NEW p \in Nat
  PROVE  Idx(p) = p % RingWords /\ Idx(p) \in Cells
<1>1. RingWords \in Nat \ {0} /\ PosMod \in Nat \ {0} /\ PosMod % RingWords = 0
  BY RingAssumption
<1>2. Idx(p) = p % RingWords
  BY <1>1, ModMod DEF Idx, U32
<1>3. p % RingWords \in 0 .. RingWords - 1
  BY <1>1, DivMod
<1> QED BY <1>2, <1>3 DEF Cells

\* Positions less than a ring apart are in different cells.
LEMMA IdxDiffer ==
  ASSUME NEW p \in Nat, NEW q \in Nat, p < q, q - p < RingWords
  PROVE  Idx(p) # Idx(q)
BY IdxIs, ModDiffer, RingAssumption

\* A record that does not reach the end of the ring is contiguous.
LEMMA IdxAdd ==
  ASSUME NEW p \in Nat, NEW j \in Nat, Idx(p) + j < RingWords
  PROVE  Idx(p + j) = Idx(p) + j
BY IdxIs, p + j \in Nat, ModAdd, RingAssumption

\* Skipping to the end of the ring reaches its first cell.
LEMMA IdxSkip ==
  ASSUME NEW p \in Nat
  PROVE  /\ p + RingWords - Idx(p) \in Nat
         /\ Idx(p + RingWords - Idx(p)) = 0
<1>1. /\ RingWords \in Nat \ {0} /\ p \div RingWords \in Nat
      /\ Idx(p) = p % RingWords /\ Idx(p) \in Cells
      /\ p = RingWords * (p \div RingWords) + (p % RingWords)
  BY RingAssumption, DivMod, IdxIs
<1>2. /\ p + RingWords - Idx(p) \in Nat
      /\ p + RingWords - Idx(p) = RingWords * ((p \div RingWords) + 1) + 0
  BY <1>1 DEF Cells
<1>3. (RingWords * ((p \div RingWords) + 1) + 0) % RingWords = 0
  BY <1>1, ModUnique
<1> QED BY <1>2, <1>3, IdxIs

\* A distance on the ring fits the 32 bits that hold it.
LEMMA U32Small ==
  ASSUME NEW x \in Nat, x < 2 * RingWords
  PROVE  U32(x) = x
BY ModSmall, RingAssumption DEF U32

\* Two cursors at most a ring apart are equal exactly when the 32 bits
\* the code compares are.
LEMMA U32Same ==
  ASSUME NEW p \in Nat, NEW q \in Nat, p <= q, q - p <= RingWords
  PROVE  U32(p) = U32(q) <=> p = q
<1>1. ASSUME p < q PROVE p % PosMod # q % PosMod
  <2>1. PosMod \in Nat \ {0} /\ q - p < PosMod
    BY RingAssumption
  <2> QED BY <1>1, <2>1, ModDiffer
<1> QED BY <1>1 DEF U32

\* The invariant holds when gl_thread_init returns.
THEOREM InitIInv == Init => IInv
<1> SUFFICES ASSUME Init PROVE IInv
  OBVIOUS
<1> USE RingAssumption, PolicyAssumption
<1>1. TypeOK
  <2>1. Zero \in Words /\ Idle \in Requested
    BY DEF Zero, Word, Words, Idle, Requested
  <2>2. ring \in [Cells -> Words] /\ rec \in Words /\ cur \in Requested
    BY <2>1 DEF Init
  <2>3. cpc \in ConsumerPcs /\ ppc \in ProducerPcs
    BY DEF Init, ConsumerPcs, ProducerPcs
  <2>4. pending \in Seq(Entries) /\ k \in 0 .. PubEvery - 1
    BY DEF Init
  <2> QED BY <2>2, <2>3, <2>4 DEF Init, TypeOK
<1>2. Queue = <<>>
  BY DEF Init, Queue
<1>3. Base = 0 /\ wpos = 0
  BY DEF Init, Base
<1>4. Chain
  BY <1>2, <1>3 DEF Chain, Before
<1>5. Cursors
  BY <1>2, <1>3 DEF Cursors, Boundary, Init
<1>6. GameAt /\ RenderAt
  BY <1>2 DEF GameAt, RenderAt, Init, Waiting
<1> QED BY <1>1, <1>4, <1>5, <1>6 DEF IInv

\* A call just made has the type of the history and of the ring.
LEMMA EntryType ==
  ASSUME TypeOK, NEW kind \in {"put", "rpc", "swap"},
         NEW words \in 0 .. RecMax, NEW pos \in Nat
  PROVE  /\ Entry(kind, words, pos) \in Entries
         /\ Append(pending, Entry(kind, words, pos)) \in Seq(Entries)
         /\ Word(made + 1, kind, words) \in Words
BY DEF TypeOK, Entry, Entries, Word, Words, made

\* So has the history after a call ran.
LEMMA RanType ==
  ASSUME TypeOK, NEW id \in Nat, Ran(id)
  PROVE  ran' \in Nat /\ pending' \in Seq(Entries)
BY DEF TypeOK, Ran

\* What the game can ask for.
LEMMA RequestType ==
  ASSUME NEW r \in Requests
  PROVE  /\ r \in Requested /\ r.kind \in {"put", "rpc", "swap"}
         /\ r.words \in 2 .. RecMax
<1>1. r \in Requested
  BY DEF Requested
<1>2. /\ 2 \in 2 .. RecMax /\ RpcWords \in 2 .. RecMax
      /\ PutWords \subseteq 2 .. RecMax
  BY RingAssumption
<1>3. ASSUME NEW w \in CopyWords, w <= RecMax
      PROVE  w \in 2 .. RecMax
  BY <1>3, RingAssumption
<1> QED BY <1>1, <1>2, <1>3 DEF Requests

\* The padding before a record is a length.
LEMMA PadType ==
  ASSUME TypeOK, NEW need
  PROVE  Pad(need) \in Nat
<1>1. RingWords \in Nat /\ wpos \in Nat
  BY RingAssumption DEF TypeOK
<1>2. Idx(wpos) \in 0 .. RingWords - 1
  BY <1>1, IdxIs DEF Cells
<1>3. RingWords - Idx(wpos) \in Nat
  BY <1>1, <1>2
<1> QED BY <1>3 DEF Pad

\* Both threads stay at steps of their programs.
LEMMA PcStep ==
  ASSUME TypeOK, GameAt, [Next]_vars
  PROVE  ppc' \in ProducerPcs /\ cpc' \in ConsumerPcs
<1> USE DEF TypeOK, producer, consumer
<1>1. CASE Requesting
  BY <1>1 DEF Requesting, Request, ProducerPcs
<1>2. CASE Start
  BY <1>2 DEF Start, ProducerPcs
<1>3. CASE Stop
  BY <1>3 DEF Stop, ProducerPcs
<1>4. CASE InlineRun
  BY <1>4 DEF InlineRun, ProducerPcs
<1>5. CASE StopDone
  BY <1>5 DEF StopDone, ProducerPcs
<1>6. CASE Reserve
  BY <1>6 DEF Reserve, ProducerPcs
<1>7. CASE Write
  BY <1>7 DEF Write, ProducerPcs
<1>8. CASE Flush
  BY <1>8 DEF Flush, AfterFlush, ProducerPcs
<1>9. CASE FlushCheck
  BY <1>9 DEF FlushCheck, AfterFlush, ProducerPcs
<1>10. CASE FlushClear
  BY <1>10 DEF FlushClear, ProducerPcs
<1>11. CASE FlushSignal
  BY <1>11 DEF FlushSignal, AfterFlush, ProducerPcs
<1>12. CASE Test
  <2>1. goal \in {"space", "answer", "stop", "swap"}
    BY <1>12 DEF Test, GameAt, Waiting
  <2> QED BY <1>12, <2>1 DEF Test, Proceed, ProducerPcs
<1>13. CASE Arm
  BY <1>13 DEF Arm, ProducerPcs
<1>14. CASE Recheck
  BY <1>14 DEF Recheck, ProducerPcs
<1>15. CASE Disarm
  <2>1. goal \in {"space", "answer", "stop", "swap"}
    BY <1>15 DEF Disarm, GameAt, Waiting
  <2> QED BY <1>15, <2>1 DEF Disarm, Proceed, ProducerPcs
<1>16. CASE Woken
  BY <1>16 DEF Woken, ProducerPcs
<1>17. CASE Answer
  BY <1>17 DEF Answer, ProducerPcs
<1>18. CASE Reseed
  BY <1>18 DEF Reseed, ProducerPcs
<1>19. CASE Load
  BY <1>19 DEF Load, ConsumerPcs
<1>20. CASE CaughtUp
  BY <1>20 DEF CaughtUp, ConsumerPcs
<1>21. CASE Wake
  BY <1>21 DEF Wake, ConsumerPcs
<1>22. CASE WakeClear
  BY <1>22 DEF WakeClear, ConsumerPcs
<1>23. CASE WakeSignal
  BY <1>23 DEF WakeSignal, ConsumerPcs
<1>24. CASE Look
  BY <1>24 DEF Look, ConsumerPcs
<1>25. CASE Doze
  BY <1>25 DEF Doze, ConsumerPcs
<1>26. CASE LookAgain
  BY <1>26 DEF LookAgain, ConsumerPcs
<1>27. CASE Asleep
  BY <1>27 DEF Asleep, ConsumerPcs
<1>28. CASE Awake
  BY <1>28 DEF Awake, ConsumerPcs
<1>29. CASE SkipPad
  BY <1>29 DEF SkipPad, More, ConsumerPcs
<1>30. CASE Fetch
  BY <1>30 DEF Fetch, ConsumerPcs
<1>31. CASE Exec
  BY <1>31 DEF Exec, ConsumerPcs
<1>32. CASE LeaveRpc
  BY <1>32 DEF LeaveRpc, ConsumerPcs
<1>33. CASE Advance
  BY <1>33 DEF Advance, More, ConsumerPcs
<1>34. CASE Publish
  BY <1>34 DEF Publish, ConsumerPcs
<1>35. CASE UNCHANGED vars
  BY <1>35 DEF vars
<1> QED
  BY <1>1, <1>2, <1>3, <1>4, <1>5, <1>6, <1>7, <1>8, <1>9, <1>10, <1>11,
     <1>12, <1>13, <1>14, <1>15, <1>16, <1>17, <1>18, <1>19, <1>20, <1>21,
     <1>22, <1>23, <1>24, <1>25, <1>26, <1>27, <1>28, <1>29, <1>30, <1>31,
     <1>32, <1>33, <1>34, <1>35
     DEF Next, GameStep, RenderStep

\* Every step keeps every type.
THEOREM TypeStep == TypeOK /\ GameAt /\ [Next]_vars => TypeOK'
<1> SUFFICES ASSUME TypeOK, GameAt, [Next]_vars PROVE TypeOK'
  OBVIOUS
<1> USE RingAssumption, PolicyAssumption, PcStep
<1> USE DEF TypeOK, shared, signals, producer, consumer, ringState, unseen
<1>1. CASE Requesting
  <2>1. PICK r \in Requests : Request(r)
    BY <1>1 DEF Requesting
  <2>2. pending' \in Seq(Entries) /\ cur' \in Requested
    BY <2>1, EntryType, RequestType, 0 \in Nat, 0 \in 0 .. RecMax, SMTT(60) DEF Request
  <2>3. goal' \in {"none", "space", "answer", "stop", "swap"}
    BY <2>1 DEF Request
  <2> QED BY <2>1, <2>2, <2>3 DEF Request
<1>2. CASE Start
  BY <1>2 DEF Start
<1>3. CASE Stop
  BY <1>3 DEF Stop
<1>4. CASE InlineRun
  <2>1. made \in Nat
    BY DEF made
  <2>2. Idle \in Requested
    BY DEF Requested
  <2>3. pending' \in Seq(Entries) /\ ran' \in Nat
    BY <1>4, <2>1, RanType DEF InlineRun
  <2>4. got' \in Nat
    BY <1>4, <2>1 DEF InlineRun
  <2> QED BY <1>4, <2>2, <2>3, <2>4 DEF InlineRun
<1>5. CASE StopDone
  BY <1>5 DEF StopDone
<1>6. CASE Reserve
  BY <1>6 DEF Reserve
<1>7. CASE Write
  <2>1. cur \in Requests
    BY <1>7 DEF Write, GameAt
  <2>2. cur.kind \in {"put", "rpc", "swap"} /\ cur.words \in 2 .. RecMax
    BY <2>1, RequestType
  <2>3. Pad(cur.words) \in Nat
    BY PadType
  <2>4. pending' \in Seq(Entries)
    BY <1>7, <2>2, <2>3, EntryType DEF Write
  <2>5. Zero \in Words /\ Word(made + 1, cur.kind, cur.words) \in Words
    BY <2>2, EntryType DEF Zero, Word, Words
  <2>6. ring' \in [Cells -> Words]
    BY <1>7, <2>5 DEF Write, Written
  <2>7. wpos' \in Nat /\ slot' \in Nat
    BY <1>7, <2>2, <2>3, SMTT(60) DEF Write
  <2>8. Idle \in Requested /\ goal' \in {"none", "answer"}
    BY <1>7 DEF Write, Requested
  <2> QED BY <1>7, <2>4, <2>6, <2>7, <2>8 DEF Write
<1>8. CASE Flush
  BY <1>8 DEF Flush, AfterFlush
<1>9. CASE FlushCheck
  BY <1>9 DEF FlushCheck, AfterFlush
<1>10. CASE FlushClear
  BY <1>10, ZenonT(60) DEF FlushClear
<1>11. CASE FlushSignal
  BY <1>11 DEF FlushSignal, AfterFlush
<1>12. CASE Test
  <2>1. goal' \in {"none", "space", "answer", "stop", "swap"}
    BY <1>12 DEF Test, Proceed
  <2>2. swapsQueued' \in {swapsQueued, swapsQueued + 1}
    BY <1>12 DEF Test, Proceed
  <2>3. tailSeen' \in {tailSeen, tail}
    BY <1>12 DEF Test, Seen
  <2> QED BY <1>12, <2>1, <2>2, <2>3 DEF Test
<1>13. CASE Arm
  BY <1>13 DEF Arm
<1>14. CASE Recheck
  BY <1>14 DEF Recheck, Seen
<1>15. CASE Disarm
  <2>1. goal' \in {"none", "space", "answer", "stop", "swap"}
    BY <1>15 DEF Disarm, Proceed
  <2>2. swapsQueued' \in {swapsQueued, swapsQueued + 1}
    BY <1>15 DEF Disarm, Proceed
  <2>3. tailSeen' \in {tailSeen, tail}
    BY <1>15 DEF Disarm, Seen
  <2>4. prodWaiting' \in BOOLEAN
    BY <1>15 DEF Disarm
  <2>5. UNCHANGED <<shared, consSleeping, workSema, prodSema, consumer, pending,
                    ran, cur, wpos, pub, slot, got>>
    BY <1>15 DEF Disarm
  <2> QED BY <2>1, <2>2, <2>3, <2>4, <2>5
<1>16. CASE Woken
  BY <1>16 DEF Woken
<1>17. CASE Answer
  <2>1. Idx(slot + RpcWords - 1) \in Cells
    BY IdxIs
  <2>2. got' \in Nat
    BY <1>17, <2>1 DEF Answer, Words
  <2> QED BY <1>17, <2>2 DEF Answer
<1>18. CASE Reseed
  BY <1>18 DEF Reseed
<1>19. CASE Load
  BY <1>19 DEF Load
<1>20. CASE CaughtUp
  BY <1>20 DEF CaughtUp
<1>21. CASE Wake
  BY <1>21 DEF Wake
<1>22. CASE WakeClear
  BY <1>22, ZenonT(60) DEF WakeClear
<1>23. CASE WakeSignal
  BY <1>23 DEF WakeSignal
<1>24. CASE Look
  BY <1>24 DEF Look
<1>25. CASE Doze
  BY <1>25 DEF Doze
<1>26. CASE LookAgain
  BY <1>26 DEF LookAgain
<1>27. CASE Asleep
  BY <1>27 DEF Asleep
<1>28. CASE Awake
  BY <1>28, ZenonT(60) DEF Awake
<1>29. CASE SkipPad
  <2>1. t' \in Nat
    BY <1>29, IdxSkip DEF SkipPad
  <2> QED BY <1>29, <2>1 DEF SkipPad
<1>30. CASE Fetch
  <2>1. rec' \in Words /\ inRpc' \in BOOLEAN
    BY <1>30, IdxIs DEF Fetch
  <2> QED BY <1>30, <2>1 DEF Fetch
<1>31. CASE Exec
  <2>1. rec.id \in Nat /\ Word(rec.id, "value", 0) \in Words
    BY DEF Words, Word
  <2>2. pending' \in Seq(Entries) /\ ran' \in Nat
    BY <1>31, <2>1, RanType DEF Exec
  <2>3. ring' \in [Cells -> Words]
    BY <1>31, <2>1 DEF Exec
  <2> QED BY <1>31, <2>2, <2>3 DEF Exec
<1>32. CASE LeaveRpc
  BY <1>32, ZenonT(60) DEF LeaveRpc
<1>33. CASE Advance
  <2>1. t' \in Nat
    BY <1>33 DEF Advance, Words
  <2>2. Zero \in Words
    BY DEF Zero, Word, Words
  <2>3. k' \in 0 .. PubEvery - 1
    BY <1>33, DivMod, k + 1 \in Nat DEF Advance
  <2>4. after' \in {"look", "load", "fetch"}
    BY <1>33 DEF Advance, More
  <2> QED BY <1>33, <2>1, <2>2, <2>3, <2>4 DEF Advance
<1>34. CASE Publish
  BY <1>34 DEF Publish
<1>35. CASE UNCHANGED vars
  BY <1>35 DEF vars
<1> QED
  BY <1>1, <1>2, <1>3, <1>4, <1>5, <1>6, <1>7, <1>8, <1>9, <1>10, <1>11,
     <1>12, <1>13, <1>14, <1>15, <1>16, <1>17, <1>18, <1>19, <1>20, <1>21,
     <1>22, <1>23, <1>24, <1>25, <1>26, <1>27, <1>28, <1>29, <1>30, <1>31,
     <1>32, <1>33, <1>34, <1>35
     DEF Next, GameStep, RenderStep

-----------------------------------------------------------------------------
\* Types of the records in the ring and of the base of the chain.
LEMMA QueueType ==
  ASSUME TypeOK
  PROVE  /\ Queue \in Seq(Entries) /\ Base \in Nat
         /\ \A i \in DOMAIN Queue :
              /\ Queue[i] \in Entries /\ Queue[i].pos \in Nat
              /\ Queue[i].words \in Nat /\ End(Queue[i]) \in Nat
<1>1. Queue \in Seq(Entries)
  BY DEF TypeOK, Queue
<1>2. Base \in Nat
  BY RingAssumption DEF TypeOK, Base, Words
<1>3. ASSUME NEW i \in DOMAIN Queue
      PROVE  /\ Queue[i] \in Entries /\ Queue[i].pos \in Nat
             /\ Queue[i].words \in Nat /\ End(Queue[i]) \in Nat
  <2>1. Queue[i] \in Entries
    BY <1>1
  <2> QED BY <2>1, RingAssumption DEF Entries, End
<1> QED BY <1>1, <1>2, <1>3

\* The chain starts at or before the write position.
LEMMA BaseBelow ==
  ASSUME TypeOK, Chain
  PROVE  Base <= wpos
<1>1. CASE Queue = <<>>
  BY <1>1, QueueType DEF Chain, Before
<1>2. CASE Queue # <<>>
  <2>1. 1 \in DOMAIN Queue
    BY <1>2, QueueType
  <2> QED BY <2>1, QueueType DEF Chain, TypeOK, End, Entries
<1> QED BY <1>1, <1>2

\* Its links lie between the two.
LEMMA BoundaryBetween ==
  ASSUME TypeOK, Chain, NEW p, Boundary(p)
  PROVE  p \in Nat /\ Base <= p /\ p <= wpos
<1>1. CASE p = Base
  BY <1>1, BaseBelow, QueueType
<1>2. ASSUME NEW i \in DOMAIN Queue, p = End(Queue[i])
      PROVE  p \in Nat /\ Base <= p /\ p <= wpos
  BY <1>2, QueueType DEF Chain, End, TypeOK
<1> QED BY <1>1, <1>2 DEF Boundary

\* All the cursors, in order.
LEMMA Order ==
  ASSUME TypeOK, Chain, Cursors
  PROVE  /\ t <= Base /\ Base <= h /\ h <= head /\ head = pub /\ pub <= wpos
         /\ tailSeen <= tail /\ tail <= t
         /\ wpos - tailSeen <= RingWords
<1>1. t <= Base
  BY RingAssumption DEF Base, TypeOK, Words
<1>2. Boundary(h) /\ Boundary(head)
  BY DEF Cursors
<1> QED BY <1>1, <1>2, BoundaryBetween DEF Cursors

\* Once the render thread is where the game thread writes, it is at rest.
LEMMA Drained ==
  ASSUME TypeOK, Chain, Cursors, RenderAt, t = wpos
  PROVE  /\ Queue = <<>> /\ h = t /\ head = t /\ ~inRpc
         /\ cpc \notin {"fetch", "exec", "leaveRpc", "advance"}
<1>1. h = t /\ head = t /\ Base = t
  BY Order, QueueType DEF TypeOK
<1>2. Queue = <<>>
  <2> SUFFICES ASSUME Queue # <<>> PROVE FALSE
    OBVIOUS
  <2>1. 1 \in DOMAIN Queue
    BY QueueType
  <2>2. Base <= Queue[1].pos /\ End(Queue[1]) <= wpos /\ Queue[1].words \in 2 .. RecMax
    BY <2>1 DEF Chain
  <2> QED BY <2>1, <2>2, <1>1, QueueType, RingAssumption DEF End, TypeOK
<1>3. cpc \notin {"fetch", "exec"}
  BY <1>1 DEF RenderAt
<1>4. cpc \notin {"leaveRpc", "advance"}
  <2> SUFFICES ASSUME cpc \in {"leaveRpc", "advance"} PROVE FALSE
    OBVIOUS
  <2>1. rec.words \in 2 .. RecMax /\ Base = t + rec.words
    BY DEF RenderAt, Base
  <2> QED BY <2>1, <1>1, RingAssumption DEF TypeOK
<1> QED BY <1>1, <1>2, <1>3, <1>4 DEF RenderAt

\* A step that moves neither the words, the queue nor the base keeps the chain
\* and its links.
LEMMA ChainFrame ==
  ASSUME Queue' = Queue, Base' = Base, wpos' = wpos, ring' = ring
  PROVE  /\ Chain => Chain'
         /\ h' = h /\ Boundary(h) => Boundary(h)'
         /\ head' = head /\ Boundary(head) => Boundary(head)'
BY DEF Chain, Before, Placed, Holds, Boundary, End, Idx, U32, Word, Zero

\* That holds of a step of the game thread outside inline calls, and below of one
\* of the render thread that completes no record.
LEMMA QuietGame ==
  ASSUME IInv, UNCHANGED <<ring, pending, wpos, cpc, t, rec>>,
         ppc # "inline", ppc' # "inline"
  PROVE  /\ Queue' = Queue /\ Base' = Base /\ Chain'
         /\ h' = h => Boundary(h)'
         /\ head' = head => Boundary(head)'
<1>1. Queue' = Queue /\ Base' = Base
  BY DEF Queue, Base
<1> QED BY <1>1, ChainFrame DEF IInv, Cursors

Inv3 == Chain /\ Cursors /\ GameAt /\ RenderAt

\* Inside an RPC the game thread waits for its answer.
LEMMA RpcWaits ==
  ASSUME IInv, inRpc
  PROVE  goal = "answer"
<1> USE DEF IInv, RenderAt, GameAt
<1>1. rec.kind = "rpc" /\ cpc \in {"exec", "leaveRpc"}
  OBVIOUS
<1>2. CASE cpc = "exec"
  <2>1. 1 \in DOMAIN Queue
    BY <1>2, QueueType
  <2> QED BY <1>1, <1>2, <2>1 DEF Word
<1> QED BY <1>1, <1>2

\* gl_thread_start.
LEMMA StartKeeps == IInv /\ Start => Inv3'
<1> SUFFICES ASSUME IInv, Start PROVE Inv3'
  OBVIOUS
<1> USE DEF Start, signals, producer, consumer
<1>1. /\ Queue' = Queue /\ Base' = Base /\ Chain'
      /\ Boundary(h)' /\ Boundary(head)'
  BY QuietGame
<1>2. Cursors'
  BY <1>1 DEF IInv, Cursors
<1>3. GameAt'
  BY <1>1 DEF IInv, GameAt, Waiting, Pad, Idx, U32, made
<1>4. RenderAt'
  BY <1>1 DEF IInv, RenderAt, Word
<1> QED BY <1>1, <1>2, <1>3, <1>4 DEF Inv3

\* gl_thread_stop, up to its wait.
LEMMA StopKeeps == IInv /\ Stop => Inv3'
<1> SUFFICES ASSUME IInv, Stop PROVE Inv3'
  OBVIOUS
<1> USE DEF Stop, shared, signals, consumer, ringState
<1>1. /\ Queue' = Queue /\ Base' = Base /\ Chain'
      /\ Boundary(h)' /\ Boundary(head)'
  BY QuietGame
<1>2. Cursors'
  BY <1>1 DEF IInv, Cursors
<1>3. ~inRpc
  BY RpcWaits DEF IInv, GameAt
<1>4. GameAt'
  BY <1>1, <1>3 DEF IInv, GameAt, Waiting, Pad, Idx, U32, made
<1>5. RenderAt'
  BY <1>1 DEF IInv, RenderAt, Word, GameAt
<1> QED BY <1>1, <1>2, <1>4, <1>5 DEF Inv3

\* The same for a step of the render thread that completes no record.
LEMMA QuietRender ==
  ASSUME IInv, UNCHANGED <<ring, pending, wpos, t, rec, ppc>>,
         cpc \in {"leaveRpc", "advance"} <=> cpc' \in {"leaveRpc", "advance"}
  PROVE  /\ Queue' = Queue /\ Base' = Base /\ Chain'
         /\ h' = h => Boundary(h)'
         /\ head' = head => Boundary(head)'
<1>1. Queue' = Queue /\ Base' = Base
  BY DEF Queue, Base
<1> QED BY <1>1, ChainFrame DEF IInv, Cursors

\* The 32-bit space test means that the record fits before the tail seen.
LEMMA FitsMeans ==
  ASSUME IInv, cur \in Requests, NEW seen \in {tailSeen, tail}, Fits(seen)
  PROVE  wpos + Pad(cur.words) + cur.words - seen <= RingWords
<1> DEFINE need == Pad(cur.words) + cur.words
<1>1. TypeOK
  BY DEF IInv
<1>2. cur.words \in 2 .. RecMax /\ Pad(cur.words) \in Nat
  BY <1>1, RequestType, PadType
<1>3. Pad(cur.words) < cur.words
  <2>1. Idx(wpos) \in 0 .. RingWords - 1
    BY <1>1, IdxIs DEF Cells, TypeOK
  <2> QED BY <2>1, <1>2, RingAssumption DEF Pad
<1>4. wpos - seen \in 0 .. RingWords
  BY <1>1, Order, QueueType, RingAssumption, SMTT(60) DEF IInv, TypeOK
<1>5. wpos + need - seen \in Nat /\ wpos + need - seen < 2 * RingWords
  BY <1>1, <1>2, <1>3, <1>4, RingAssumption, SMTT(60) DEF TypeOK
<1>6. U32(wpos + need - seen) = wpos + need - seen
  BY <1>5, U32Small
<1>7. wpos + need - seen = wpos + Pad(cur.words) + cur.words - seen
  BY <1>1, <1>2 DEF TypeOK
<1> QED BY <1>6, <1>7 DEF Fits

\* A tail that equals the write position means that nothing is left to run.
LEMMA DrainMeans ==
  ASSUME IInv, U32(tail) = U32(wpos)
  PROVE  tail = wpos /\ t = wpos
<1>1. /\ tail \in Nat /\ wpos \in Nat /\ t \in Nat /\ tail <= t /\ t <= wpos
      /\ wpos - tail <= RingWords
  BY Order, QueueType, RingAssumption DEF IInv, TypeOK
<1> QED BY <1>1, U32Same

\* Steps of the game thread that move no cursor of its own and no record.
QuietGameStep ==
  StopDone \/ FlushCheck \/ FlushClear \/ FlushSignal \/ Arm \/ Woken \/ Answer
    \/ Reseed

\* They keep the invariant.
LEMMA QuietGameKeeps == IInv /\ QuietGameStep => Inv3'
<1> SUFFICES ASSUME IInv, QuietGameStep PROVE Inv3'
  OBVIOUS
<1> USE DEF QuietGameStep, StopDone, FlushCheck, FlushClear, FlushSignal, Arm,
            Woken, Answer, Reseed, shared, signals, consumer, ringState
<1>1. /\ Queue' = Queue /\ Base' = Base /\ Chain'
      /\ Boundary(h)' /\ Boundary(head)'
  BY QuietGame DEF AfterFlush
<1>2. Cursors'
  BY <1>1 DEF IInv, Cursors
<1>3. GameAt'
  BY <1>1 DEF IInv, GameAt, Waiting, Pad, Idx, U32, made, AfterFlush
<1>4. RenderAt'
  BY <1>1 DEF IInv, RenderAt, Word, GameAt
<1> QED BY <1>1, <1>2, <1>3, <1>4 DEF Inv3

\* Steps of the render thread that run and step over no record.
QuietRenderStep ==
  CaughtUp \/ Wake \/ WakeClear \/ WakeSignal \/ Look \/ Doze \/ LookAgain
    \/ Asleep \/ Awake \/ Publish

\* They keep the invariant.
LEMMA QuietRenderKeeps == IInv /\ QuietRenderStep => Inv3'
<1> SUFFICES ASSUME IInv, QuietRenderStep PROVE Inv3'
  OBVIOUS
<1> USE DEF QuietRenderStep, CaughtUp, Wake, WakeClear, WakeSignal, Look, Doze,
            LookAgain, Asleep, Awake, Publish, shared, signals, producer, unseen
<1>1. /\ Queue' = Queue /\ Base' = Base /\ Chain'
      /\ Boundary(h)' /\ Boundary(head)'
  BY QuietRender DEF IInv, TypeOK
<1>2. Cursors'
  <2>1. /\ tail' \in {tail, t} /\ t' = t /\ h' = h /\ head' = head /\ pub' = pub
        /\ wpos' = wpos /\ tailSeen' = tailSeen
    OBVIOUS
  <2> HIDE DEF QuietRenderStep
  <2> QED BY <1>1, <2>1 DEF IInv, Cursors, TypeOK
<1>3. GameAt'
  BY <1>1 DEF IInv, GameAt, Waiting, Pad, Idx, U32, made
<1>4. UNCHANGED <<ringOk, mode, h, t, rec, goal, inRpc>>
  OBVIOUS
<1>5. /\ cpc \notin {"fetch", "exec", "leaveRpc", "advance", "none"}
      /\ cpc' \notin {"exec", "leaveRpc", "advance", "none"}
  BY DEF IInv, TypeOK
<1>6. /\ cpc' = "fetch" => after = "fetch" /\ cpc \in {"wake", "wakeSignal"}
      /\ after' \in {after, "look"}
      /\ cpc' \in {"publish", "wake", "wakeClear", "wakeSignal"} /\ after' = "fetch"
           => cpc \in {"publish", "wake", "wakeClear", "wakeSignal"} /\ after = "fetch"
  OBVIOUS
<1>7. RenderAt'
  <2> HIDE DEF QuietRenderStep
  <2> QED BY <1>1, <1>4, <1>5, <1>6 DEF IInv, RenderAt
<1> QED BY <1>1, <1>2, <1>3, <1>7 DEF Inv3

\* reserve: the record fits, or the wait for space starts.
LEMMA ReserveKeeps == IInv /\ Reserve => Inv3'
<1> SUFFICES ASSUME IInv, Reserve PROVE Inv3'
  OBVIOUS
<1> USE DEF Reserve, shared, signals, consumer, ringState
<1>1. /\ Queue' = Queue /\ Base' = Base /\ Chain'
      /\ Boundary(h)' /\ Boundary(head)'
  BY QuietGame DEF IInv, GameAt, TypeOK
<1>2. cur \in Requests /\ goal = "none"
  BY DEF IInv, GameAt
<1>3. /\ tailSeen' \in {tailSeen, tail}
      /\ ppc' = "write" => wpos + Pad(cur.words) + cur.words - tailSeen' <= RingWords
  BY <1>2, FitsMeans
<1>4. Cursors'
  <2>1. tailSeen' <= tail /\ wpos - tailSeen' <= RingWords
    BY <1>3, Order, QueueType, RingAssumption DEF IInv, TypeOK
  <2> QED BY <1>1, <2>1 DEF IInv, Cursors
<1>5. GameAt'
  BY <1>1, <1>2, <1>3 DEF IInv, GameAt, Waiting, Pad, Idx, U32, made
<1>6. RenderAt'
  BY <1>1, <1>2 DEF IInv, RenderAt, Word
<1> QED BY <1>1, <1>4, <1>5, <1>6 DEF Inv3

\* glq_flush publishes the end of the last record.
LEMMA FlushKeeps == IInv /\ Flush => Inv3'
<1> SUFFICES ASSUME IInv, Flush PROVE Inv3'
  OBVIOUS
<1> USE DEF Flush, AfterFlush, shared, signals, consumer, ringState
<1>1. /\ Queue' = Queue /\ Base' = Base /\ Chain'
      /\ Boundary(h)'
      /\ head' = head => Boundary(head)'
  BY QuietGame DEF IInv, GameAt, TypeOK
<1>2. Boundary(wpos)'
  <2>1. CASE Queue = <<>>
    BY <1>1, <2>1, QueueType DEF IInv, Chain, Before, Boundary
  <2>2. CASE Queue # <<>>
    <3>1. Len(Queue) \in DOMAIN Queue /\ wpos = End(Queue[Len(Queue)])
      BY <2>2, QueueType DEF IInv, Chain, Before
    <3> QED BY <1>1, <3>1 DEF Boundary, End
  <2> QED BY <2>1, <2>2
<1>3. Cursors'
  <2>1. CASE pub = wpos
    BY <1>1, <2>1 DEF IInv, Cursors
  <2>2. CASE pub # wpos
    <3>1. head' = wpos /\ pub' = wpos /\ h <= wpos /\ Boundary(head)'
      BY <1>2, <2>2, Order, QueueType DEF IInv, TypeOK, Boundary
    <3> QED BY <1>1, <2>2, <3>1 DEF IInv, Cursors
  <2> QED BY <2>1, <2>2
<1>4. GameAt'
  BY <1>1 DEF IInv, GameAt, Waiting, Pad, Idx, U32, made
<1>5. RenderAt'
  BY <1>1 DEF IInv, RenderAt, Word
<1> QED BY <1>1, <1>3, <1>4, <1>5 DEF Inv3

\* What the game thread knows when the condition it waits for holds.
LEMMA MetMeans ==
  ASSUME IInv, ppc \in {"test", "recheck"}, Met
  PROVE  /\ goal \in {"space", "answer", "stop", "swap"}
         /\ goal = "space" =>
              wpos + Pad(cur.words) + cur.words - tail <= RingWords
         /\ goal \in {"answer", "stop"} => tail = wpos
<1>1. goal \in {"space", "answer", "stop", "swap"}
  BY DEF IInv, GameAt, Waiting, TypeOK
<1>2. CASE goal = "space"
  BY <1>2, FitsMeans DEF IInv, GameAt, Met
<1>3. CASE goal \in {"answer", "stop"}
  BY <1>3, DrainMeans DEF Met
<1> QED BY <1>1, <1>2, <1>3

\* And when it then goes on.
LEMMA ProceedKeeps ==
  ASSUME IInv, Proceed, ppc \in {"test", "disarm"},
         UNCHANGED <<mode, ring, pending, wpos, pub, cpc, t, h, rec, cur, ringOk,
                     inRpc, ran, after>>,
         goal = "space" =>
           wpos + Pad(cur.words) + cur.words - tailSeen' <= RingWords,
         goal \in {"answer", "stop"} => t = wpos,
         Queue' = Queue, Base' = Base
  PROVE  GameAt' /\ RenderAt'
<1>1. goal \in {"space", "answer", "stop", "swap"}
  BY DEF IInv, GameAt, Waiting, TypeOK
<1>2. mode = "queued"
  BY DEF IInv, GameAt
<1>3. CASE goal = "space"
  <2>1. ppc' = "write" /\ goal' = "none"
    BY <1>3 DEF Proceed
  <2>2. GameAt'
    BY <1>2, <1>3, <2>1 DEF IInv, GameAt, Waiting, Pad, Idx, U32, made
  <2>3. RenderAt'
    BY <1>3, <2>1 DEF IInv, RenderAt, Word
  <2> QED BY <2>2, <2>3
<1>4. CASE goal = "swap"
  <2>1. ppc' = "reserve" /\ goal' = "none"
    BY <1>4 DEF Proceed
  <2>2. GameAt'
    BY <1>2, <1>4, <2>1 DEF IInv, GameAt, Waiting, Pad, Idx, U32, made
  <2>3. RenderAt'
    BY <1>4, <2>1 DEF IInv, RenderAt, Word
  <2> QED BY <2>2, <2>3
<1>5. CASE goal \in {"answer", "stop"}
  <2>1. ppc' = goal /\ goal' = "none"
    BY <1>5 DEF Proceed
  <2>2. Queue = <<>> /\ cpc \notin {"fetch", "exec", "leaveRpc", "advance"}
    BY <1>5, Drained DEF IInv
  <2>3. GameAt'
    BY <1>2, <1>5, <2>1, <2>2 DEF IInv, GameAt, Waiting, Pad, Idx, U32, made
  <2>4. RenderAt'
    BY <1>5, <2>1, <2>2 DEF IInv, RenderAt, Word
  <2> QED BY <2>3, <2>4
<1> QED BY <1>1, <1>3, <1>4, <1>5

\* wait_until looks.
LEMMA TestKeeps == IInv /\ Test => Inv3'
<1> SUFFICES ASSUME IInv, Test PROVE Inv3'
  OBVIOUS
<1> USE DEF Test, shared, signals, consumer
<1>1. ppc' # "inline"
  BY DEF IInv, GameAt, Waiting, TypeOK, Proceed
<1>2. /\ Queue' = Queue /\ Base' = Base /\ Chain'
      /\ Boundary(h)' /\ Boundary(head)'
  BY <1>1, QuietGame
<1>3. Cursors'
  <2>1. tailSeen' <= tail /\ wpos - tailSeen' <= RingWords
    BY Order, QueueType, RingAssumption DEF IInv, TypeOK, Seen
  <2> QED BY <1>2, <2>1 DEF IInv, Cursors
<1>4. CASE Met
  <2>1. goal \in {"answer", "stop"} => t = wpos
    BY <1>4, MetMeans, DrainMeans
  <2>2. goal = "space" =>
          wpos + Pad(cur.words) + cur.words - tailSeen' <= RingWords
    BY <1>4, MetMeans DEF Seen
  <2>3. GameAt' /\ RenderAt'
    BY <1>2, <1>4, <2>1, <2>2, ProceedKeeps
  <2> QED BY <1>2, <1>3, <2>3 DEF Inv3
<1>5. CASE ~Met
  <2>1. GameAt'
    BY <1>2, <1>5 DEF IInv, GameAt, Waiting, Pad, Idx, U32, made
  <2>2. RenderAt'
    BY <1>2, <1>5 DEF IInv, RenderAt, Word
  <2> QED BY <1>2, <1>3, <2>1, <2>2 DEF Inv3
<1> QED BY <1>4, <1>5

\* wait_until looks again once the flag is set.
LEMMA RecheckKeeps == IInv /\ Recheck => Inv3'
<1> SUFFICES ASSUME IInv, Recheck PROVE Inv3'
  OBVIOUS
<1> USE DEF Recheck, shared, signals, consumer, ringState
<1>1. /\ Queue' = Queue /\ Base' = Base /\ Chain'
      /\ Boundary(h)' /\ Boundary(head)'
  BY QuietGame
<1>2. Cursors'
  <2>1. tailSeen' <= tail /\ wpos - tailSeen' <= RingWords
    BY Order, QueueType, RingAssumption DEF IInv, TypeOK, Seen
  <2> QED BY <1>1, <2>1 DEF IInv, Cursors
<1>3. ppc' = "disarm" =>
        /\ goal = "space" =>
             wpos + Pad(cur.words) + cur.words - tailSeen' <= RingWords
        /\ goal \in {"answer", "stop"} => tailSeen' = wpos
  BY MetMeans DEF Seen
<1>4. GameAt'
  BY <1>1, <1>3 DEF IInv, GameAt, Waiting, Pad, Idx, U32, made
<1>5. RenderAt'
  BY <1>1 DEF IInv, RenderAt, Word
<1> QED BY <1>1, <1>2, <1>4, <1>5 DEF Inv3

\* wait_until takes the flag back and returns.
LEMMA DisarmKeeps == IInv /\ Disarm => Inv3'
<1> SUFFICES ASSUME IInv, Disarm PROVE Inv3'
  OBVIOUS
<1> USE DEF Disarm, shared, consumer
<1>1. ppc' # "inline"
  BY DEF IInv, GameAt, Waiting, TypeOK, Proceed
<1>2. /\ Queue' = Queue /\ Base' = Base /\ Chain'
      /\ Boundary(h)' /\ Boundary(head)'
  BY <1>1, QuietGame
<1>3. Cursors'
  BY <1>2 DEF IInv, Cursors
<1>4. goal \in {"answer", "stop"} => t = wpos
  BY Order, QueueType, RingAssumption DEF IInv, GameAt, TypeOK
<1>5. goal = "space" =>
        wpos + Pad(cur.words) + cur.words - tailSeen' <= RingWords
  BY DEF IInv, GameAt
<1>6. GameAt' /\ RenderAt'
  BY <1>2, <1>4, <1>5, ProceedKeeps
<1> QED BY <1>2, <1>3, <1>6 DEF Inv3

\* A call is made.
LEMMA RequestKeeps ==
  ASSUME IInv, NEW r \in Requests, Request(r)
  PROVE  Inv3'
<1> USE DEF Request, shared, signals, consumer, ringState
<1>1. ~inRpc /\ goal = "none" /\ ppc = "idle" /\ Queue = pending
  BY RpcWaits DEF IInv, GameAt, Queue
<1>2. CASE mode # "queued"
  <2>1. t = wpos
    BY <1>2 DEF IInv, GameAt
  <2>2. /\ Queue = <<>> /\ pending = <<>> /\ h = t /\ head = t
        /\ cpc \notin {"fetch", "exec", "leaveRpc", "advance"}
    BY <1>1, <2>1, Drained DEF IInv
  <2>3. /\ ppc' = "inline" /\ pending' = Append(pending, Entry(r.kind, 0, 0))
        /\ goal' = goal
    BY <1>2 DEF Inline
  <2>4. Queue' = Queue /\ Base' = Base
    BY <2>2, <2>3 DEF Queue, Base
  <2>5. Chain' /\ Cursors'
    BY <2>4, ChainFrame DEF IInv, Cursors
  <2>6. Len(pending') = 1 /\ pending'[1].id = made' /\ pending'[1].words = 0
    BY <2>2, <2>3 DEF Entry, made, IInv, TypeOK
  <2>7. GameAt'
    BY <1>1, <1>2, <2>1, <2>3, <2>4, <2>6
       DEF IInv, GameAt, Waiting, Pad, Idx, U32
  <2>8. RenderAt'
    BY <1>1, <2>2, <2>4 DEF IInv, RenderAt, Word
  <2> QED BY <2>5, <2>7, <2>8 DEF Inv3
<1>3. CASE mode = "queued"
  <2>1. /\ pending' = pending
        /\ \/ r.kind = "swap" /\ ppc' = "test" /\ goal' = "swap"
           \/ r.kind # "swap" /\ ppc' = "reserve" /\ goal' = goal
    BY <1>1, <1>3 DEF Inline
  <2>2. /\ Queue' = Queue /\ Base' = Base /\ Chain'
        /\ Boundary(h)' /\ Boundary(head)'
    BY <1>1, <2>1, QuietGame
  <2>3. Cursors'
    BY <2>2 DEF IInv, Cursors
  <2>4. GameAt'
    BY <1>1, <1>3, <2>1, <2>2 DEF IInv, GameAt, Waiting, Pad, Idx, U32, made
  <2>5. RenderAt'
    BY <1>1, <1>3, <2>1, <2>2 DEF IInv, RenderAt, Word
  <2> QED BY <2>2, <2>3, <2>4, <2>5 DEF Inv3
<1> QED BY <1>2, <1>3

\* A call outside the ring runs.
LEMMA InlineRunKeeps == IInv /\ InlineRun => Inv3'
<1> SUFFICES ASSUME IInv, InlineRun PROVE Inv3'
  OBVIOUS
<1> USE DEF InlineRun, shared, signals, consumer
<1>1. mode # "queued" /\ t = wpos /\ Len(pending) = 1 /\ pending[1].id = made
      /\ goal = "none" /\ ppc = "inline"
  BY DEF IInv, GameAt
<1>2. /\ Queue = <<>> /\ cpc \notin {"fetch", "exec", "leaveRpc", "advance"}
      /\ ~inRpc
  BY <1>1, Drained DEF IInv
<1>3. pending' = <<>>
  BY <1>1 DEF Ran, IInv, TypeOK
<1>4. Queue' = Queue /\ Base' = Base
  BY <1>2, <1>3 DEF Queue, Base
<1>5. Chain' /\ Cursors'
  BY <1>4, ChainFrame DEF IInv, Cursors
<1>6. GameAt'
  BY <1>1, <1>2, <1>3, <1>4 DEF IInv, GameAt, Waiting, Pad, Idx, U32
<1>7. RenderAt'
  BY <1>2, <1>4 DEF IInv, RenderAt, Word
<1> QED BY <1>5, <1>6, <1>7 DEF Inv3

\* The render thread takes a new head.
LEMMA LoadKeeps == IInv /\ Load => Inv3'
<1> SUFFICES ASSUME IInv, Load PROVE Inv3'
  OBVIOUS
<1> USE DEF Load, shared, signals, producer
<1>1. /\ Queue' = Queue /\ Base' = Base /\ Chain' /\ Boundary(head)'
  BY QuietRender
<1>2. Boundary(h)'
  BY <1>1 DEF Boundary
<1>3. cpc' = "fetch" => h' # t
  BY DEF U32
<1>4. Cursors'
  BY <1>1, <1>2 DEF IInv, Cursors, TypeOK
<1>5. GameAt'
  BY <1>1 DEF IInv, GameAt, Waiting, Pad, Idx, U32, made
<1>6. RenderAt'
  BY <1>1, <1>3 DEF IInv, RenderAt, Word, TypeOK
<1> QED BY <1>1, <1>4, <1>5, <1>6 DEF Inv3

\* An RPC returns.
LEMMA LeaveRpcKeeps == IInv /\ LeaveRpc => Inv3'
<1> SUFFICES ASSUME IInv, LeaveRpc PROVE Inv3'
  OBVIOUS
<1> USE DEF LeaveRpc, unseen, signals, producer
<1>1. /\ Queue' = Queue /\ Base' = Base /\ Chain'
      /\ Boundary(h)' /\ Boundary(head)'
  BY QuietRender
<1>2. Cursors'
  BY <1>1 DEF IInv, Cursors
<1>3. GameAt'
  BY <1>1 DEF IInv, GameAt, Waiting, Pad, Idx, U32, made
<1>4. RenderAt'
  BY <1>1 DEF IInv, RenderAt, Word
<1> QED BY <1>1, <1>2, <1>3, <1>4 DEF Inv3

\* The render thread steps over the record it ran.
LEMMA AdvanceKeeps == IInv /\ Advance => Inv3'
<1> SUFFICES ASSUME IInv, Advance PROVE Inv3'
  OBVIOUS
<1> USE DEF Advance, shared, signals, producer
<1>1. rec.words \in 2 .. RecMax /\ Base = t + rec.words /\ Base <= h /\ t' = Base
  BY DEF IInv, RenderAt, Base
<1>2. Queue' = Queue /\ Base' = Base /\ t <= t'
  <2>1. cpc' \in {"publish", "load", "fetch"}
    BY DEF More
  <2> QED BY <1>1, <2>1, RingAssumption DEF Queue, Base, IInv, TypeOK
<1>3. t # wpos
  BY Drained DEF IInv
<1>4. Chain' /\ Boundary(h)' /\ Boundary(head)'
  BY <1>2, ChainFrame DEF IInv, Cursors
<1>5. Cursors'
  BY <1>1, <1>2, <1>4, QueueType DEF IInv, Cursors, TypeOK
<1>6. /\ cpc' = "fetch" => h # t'
      /\ cpc' = "publish" /\ after' = "fetch" => h # t'
  BY DEF More, U32
<1>7. GameAt'
  BY <1>2, <1>3 DEF IInv, GameAt, Waiting, Pad, Idx, U32, made
<1>8. RenderAt'
  BY <1>2, <1>6 DEF IInv, RenderAt, Word, More
<1> QED BY <1>4, <1>5, <1>7, <1>8 DEF Inv3

\* What the render thread finds at its position.
LEMMA AtRecord ==
  ASSUME IInv, cpc = "fetch"
  PROVE  /\ 1 \in DOMAIN Queue
         /\ ring[Idx(t)] = Zero => Queue[1].pos = t + RingWords - Idx(t)
         /\ ring[Idx(t)] # Zero =>
              /\ Queue[1].pos = t
              /\ ring[Idx(t)] = Word(Queue[1].id, Queue[1].kind, Queue[1].words)
<1>1. Base = t /\ h # t /\ Before(1) = t
  BY DEF Base, IInv, RenderAt, Before
<1>2. 1 \in DOMAIN Queue
  BY <1>1, QueueType DEF IInv, Cursors, Boundary
<1>3. Placed(ring, Queue[1], t) /\ Holds(ring, Queue[1]) /\ Queue[1].words \in 2 .. RecMax
  BY <1>1, <1>2 DEF IInv, Chain
<1>4. ring[Idx(Queue[1].pos)] = Word(Queue[1].id, Queue[1].kind, Queue[1].words)
  <2>1. 0 \in 0 .. Queue[1].words - 1 /\ Queue[1].pos + 0 = Queue[1].pos
    BY <1>2, <1>3, QueueType, RingAssumption, SMTT(60) DEF IInv
  <2> QED BY <1>3, <2>1 DEF Holds
<1>5. Word(Queue[1].id, Queue[1].kind, Queue[1].words) # Zero
  BY <1>2, QueueType DEF IInv, Entries, Word, Zero
<1> QED BY <1>2, <1>3, <1>4, <1>5 DEF Placed

\* It reads the next record.
LEMMA FetchKeeps == IInv /\ Fetch => Inv3'
<1> SUFFICES ASSUME IInv, Fetch PROVE Inv3'
  OBVIOUS
<1> USE DEF Fetch, unseen, signals, producer
<1>1. Queue' = Queue /\ Base' = Base
  BY DEF Queue, Base
<1>2. Chain' /\ Boundary(h)' /\ Boundary(head)'
  BY <1>1, ChainFrame DEF IInv, Cursors
<1>3. Cursors'
  BY <1>1, <1>2 DEF IInv, Cursors
<1>4. GameAt'
  BY <1>1 DEF IInv, GameAt, Waiting, Pad, Idx, U32, made
<1>5. RenderAt'
  <2>1. /\ Queue # <<>> /\ Queue[1].pos = t
        /\ rec' = Word(Queue[1].id, Queue[1].kind, Queue[1].words)
    BY AtRecord, QueueType DEF IInv
  <2> QED BY <1>1, <2>1 DEF IInv, RenderAt, Word
<1> QED BY <1>2, <1>3, <1>4, <1>5 DEF Inv3

\* It skips the wrap marker.
LEMMA SkipPadKeeps == IInv /\ SkipPad => Inv3'
<1> SUFFICES ASSUME IInv, SkipPad PROVE Inv3'
  OBVIOUS
<1> USE DEF SkipPad, shared, signals, producer
<1>1. 1 \in DOMAIN Queue /\ t' = Queue[1].pos
  BY AtRecord
<1>2. Base = t /\ Base' = t' /\ Queue' = Queue
  BY DEF Base, Queue, More
<1>3. t <= t' /\ t' \in Nat
  BY <1>1, <1>2, QueueType DEF IInv, Chain
<1>4. t # wpos /\ h # t /\ head # t
  BY Drained, Order, QueueType DEF IInv, RenderAt, TypeOK
<1>5. Boundary(h)' /\ Boundary(head)'
  BY <1>2, <1>4 DEF IInv, Cursors, Boundary, End
<1>6. Chain'
  <2>1. ASSUME NEW i \in DOMAIN Queue
        PROVE  Placed(ring', Queue[i], Before(i)')
    <3>1. CASE i = 1
      BY <1>1, <1>2, <3>1 DEF Placed, Before
    <3>2. CASE i # 1
      <4>1. Before(i)' = Before(i) /\ Placed(ring, Queue[i], Before(i))
        BY <1>2, <3>2 DEF Before, End, IInv, Chain
      <4> QED BY <1>2, <4>1 DEF Placed, Idx, U32, Zero, Word
    <3> QED BY <3>1, <3>2
  <2>2. ASSUME NEW i \in DOMAIN Queue
        PROVE  Base' <= Queue[i].pos
    <3>1. CASE i = 1
      BY <1>1, <1>2, <1>3, <3>1
    <3>2. CASE i # 1
      <4>1. 1 < i
        BY <3>2, QueueType DEF IInv
      <4>2. End(Queue[1]) <= Queue[i].pos
        BY <1>1, <4>1 DEF IInv, Chain
      <4> QED BY <1>1, <1>2, <4>2, QueueType DEF IInv, End
    <3> QED BY <3>1, <3>2
  <2>3. wpos = Before(Len(Queue) + 1)'
    <3>1. Len(Queue) + 1 # 1
      BY <1>1, QueueType DEF IInv
    <3> QED BY <1>2, <3>1 DEF Before, IInv, Chain, End
  <2>4. \A i \in DOMAIN Queue : Holds(ring, Queue[i]) => Holds(ring', Queue[i])
    BY <1>2 DEF Holds, Idx, U32, Word
  <2> QED BY <1>2, <2>1, <2>2, <2>3, <2>4 DEF IInv, Chain, End, Idx, U32
<1>7. Cursors'
  BY <1>2, <1>3, <1>5 DEF IInv, Cursors, TypeOK
<1>8. cpc' = "fetch" => h # t'
  BY DEF More, U32
<1>9. GameAt'
  BY <1>2, <1>4 DEF IInv, GameAt, Waiting, Pad, Idx, U32, made
<1>10. RenderAt'
  BY <1>2, <1>8 DEF IInv, RenderAt, Word, More
<1> QED BY <1>6, <1>7, <1>9, <1>10 DEF Inv3

\* The chain is never longer than the ring.
LEMMA Span ==
  ASSUME IInv
  PROVE  /\ Base \in Nat /\ wpos \in Nat /\ tailSeen \in Nat
         /\ tailSeen <= Base /\ wpos <= tailSeen + RingWords
<1>1. /\ tailSeen \in Nat /\ tail \in Nat /\ t \in Nat /\ Base \in Nat
      /\ wpos \in Nat /\ RingWords \in Nat
  BY QueueType, RingAssumption DEF IInv, TypeOK
<1>2. tailSeen <= tail /\ tail <= t /\ t <= Base /\ wpos - tailSeen <= RingWords
  BY Order DEF IInv
<1> QED BY <1>1, <1>2

\* When the first record of the queue has run and no word after its end has
\* changed, the rest is a chain that starts at its end.
LEMMA PopKeeps ==
  ASSUME IInv, 1 \in DOMAIN Queue, Queue' = Tail(Queue),
         Base' = End(Queue[1]), wpos' = wpos,
         \A q \in Nat : End(Queue[1]) <= q /\ q < wpos => ring'[Idx(q)] = ring[Idx(q)]
  PROVE  /\ Chain'
         /\ \A i \in DOMAIN Queue' : Queue'[i] = Queue[i + 1] /\ i + 1 \in DOMAIN Queue
         /\ \A i \in DOMAIN Queue : i # 1 => i - 1 \in DOMAIN Queue' /\ Queue'[i - 1] = Queue[i]
<1>1. /\ Queue \in Seq(Entries) /\ Queue # <<>> /\ Len(Queue') = Len(Queue) - 1
      /\ Queue' \in Seq(Entries)
      /\ \A i \in 1 .. Len(Queue') : Queue'[i] = Queue[i + 1]
  BY QueueType, HeadTailProperties DEF IInv
<1>2. \A i \in DOMAIN Queue' : Queue'[i] = Queue[i + 1] /\ i + 1 \in DOMAIN Queue
  BY <1>1
<1>3. \A i \in DOMAIN Queue : i # 1 => i - 1 \in DOMAIN Queue' /\ Queue'[i - 1] = Queue[i]
  BY <1>1
<1>4. \A i \in 1 .. Len(Queue') + 1 : Before(i)' = Before(i + 1)
  <2> TAKE i \in 1 .. Len(Queue') + 1
  <2>1. CASE i = 1
    BY <1>1, <2>1 DEF Before, End
  <2>2. CASE i # 1
    <3>1. i - 1 \in DOMAIN Queue' /\ (i - 1) + 1 = i /\ (i + 1) - 1 = i /\ i + 1 # 1
      BY <1>1, <2>2
    <3>2. Queue'[i - 1] = Queue[i]
      BY <1>2, <3>1
    <3> QED BY <2>2, <3>1, <3>2 DEF Before, End
  <2> QED BY <2>1, <2>2
<1>5. ASSUME NEW i \in DOMAIN Queue, i # 1
      PROVE  /\ Holds(ring', Queue[i]) /\ Placed(ring', Queue[i], Before(i))
  <2>1. /\ Queue[i].pos \in Nat /\ Queue[i].words \in Nat
        /\ End(Queue[i]) = Queue[i].pos + Queue[i].words
        /\ End(Queue[1]) <= Queue[i].pos /\ End(Queue[i]) <= wpos
        /\ Queue[i].words >= 2
    <3>1. 1 < i
      BY <1>1, <1>5
    <3> QED BY <3>1, <1>5, QueueType, RingAssumption DEF IInv, Chain, End
  <2>2. End(Queue[1]) \in Nat /\ wpos \in Nat
    BY QueueType DEF IInv, TypeOK
  <2>3. Holds(ring', Queue[i])
    <3> SUFFICES ASSUME NEW j \in 0 .. Queue[i].words - 1
                 PROVE  ring'[Idx(Queue[i].pos + j)]
                          = Word(Queue[i].id, Queue[i].kind, Queue[i].words)
      BY DEF Holds
    <3>1. /\ Queue[i].pos + j \in Nat /\ End(Queue[1]) <= Queue[i].pos + j
          /\ Queue[i].pos + j < wpos
      BY <2>1, <2>2, SMTT(60)
    <3>2. Holds(ring, Queue[i])
      BY DEF IInv, Chain
    <3> QED BY <3>1, <3>2 DEF Holds
  <2>4. /\ Before(i) \in Nat /\ End(Queue[1]) <= Before(i)
        /\ Before(i) <= Queue[i].pos
    <3>1. i - 1 \in DOMAIN Queue /\ Before(i) = End(Queue[i - 1]) /\ i - 1 < i
      BY <1>1, <1>5 DEF Before
    <3>2. Before(i) \in Nat /\ Before(i) <= Queue[i].pos
      BY <3>1, QueueType DEF IInv, Chain
    <3>3. CASE i - 1 = 1
      BY <3>1, <3>2, <3>3, <2>2
    <3>4. CASE i - 1 # 1
      <4>1. 1 < i - 1
        BY <1>1, <3>1, <3>4
      <4>2. End(Queue[1]) <= Queue[i - 1].pos
        BY <3>1, <4>1 DEF IInv, Chain
      <4> QED BY <3>1, <3>2, <4>2, <2>2, QueueType, SMTT(60) DEF IInv, End
    <3> QED BY <3>3, <3>4
  <2>5. Before(i) < wpos
    BY <2>1, <2>2, <2>4
  <2>6. Placed(ring, Queue[i], Before(i))
    BY DEF IInv, Chain
  <2> QED BY <2>2, <2>3, <2>4, <2>5, <2>6 DEF Placed
<1>6. ASSUME NEW i \in DOMAIN Queue'
      PROVE  /\ Placed(ring', Queue'[i], Before(i)')
             /\ Base' <= Queue'[i].pos /\ End(Queue'[i]) <= wpos
             /\ Queue'[i].words \in 2 .. RecMax
             /\ Queue'[i].kind = "rpc" => Queue'[i].words = RpcWords
             /\ Idx(Queue'[i].pos) + Queue'[i].words <= RingWords
             /\ Holds(ring', Queue'[i])
  <2>1. PICK j \in DOMAIN Queue :
          j = i + 1 /\ j # 1 /\ 1 < j /\ Queue'[i] = Queue[j]
          /\ Before(i)' = Before(j)
    BY <1>1, <1>2, <1>4
  <2>2. /\ End(Queue[1]) <= Queue[j].pos /\ End(Queue[j]) <= wpos
        /\ Queue[j].words \in 2 .. RecMax
        /\ Queue[j].kind = "rpc" => Queue[j].words = RpcWords
        /\ Idx(Queue[j].pos) + Queue[j].words <= RingWords
    BY <2>1 DEF IInv, Chain
  <2>3. Placed(ring', Queue[j], Before(j)) /\ Holds(ring', Queue[j])
    BY <1>5, <2>1
  <2> QED BY <2>1, <2>2, <2>3
<1>7. ASSUME NEW i \in DOMAIN Queue', NEW j \in DOMAIN Queue', i < j
      PROVE  End(Queue'[i]) <= Queue'[j].pos
  <2>1. i + 1 \in DOMAIN Queue /\ j + 1 \in DOMAIN Queue /\ i + 1 < j + 1
    BY <1>1, <1>2, <1>7
  <2> QED BY <2>1, <1>2 DEF IInv, Chain
<1>8. wpos = Before(Len(Queue) + 1)'
  <2>1. /\ Len(Queue') + 1 \in 1 .. Len(Queue') + 1
        /\ (Len(Queue') + 1) + 1 = Len(Queue) + 1
    BY <1>1
  <2>2. Before(Len(Queue) + 1)' = Before(Len(Queue) + 1)
    BY <1>4, <2>1
  <2> QED BY <2>2 DEF IInv, Chain
<1>9. Chain'
  BY <1>6, <1>7, <1>8 DEF Chain, Placed, Holds, End, Idx, U32, Word, Zero
<1> QED BY <1>2, <1>3, <1>9

\* It runs the record, and an RPC writes its return value into it.
LEMMA ExecKeeps == IInv /\ Exec => Inv3'
<1> SUFFICES ASSUME IInv, Exec PROVE Inv3'
  OBVIOUS
<1> USE DEF Exec, unseen, signals, producer
<1>1. /\ t # wpos /\ ppc # "inline" /\ Queue = pending
      /\ ppc \notin {"answer", "reseed", "stop", "idle"} \/ mode = "queued"
  BY Drained DEF IInv, GameAt, Queue
<1>2. /\ 1 \in DOMAIN Queue /\ Queue[1].pos = t /\ h # t
      /\ rec = Word(Queue[1].id, Queue[1].kind, Queue[1].words)
      /\ Base = t
  BY QueueType DEF IInv, RenderAt, Base
<1>3. /\ rec.id = Queue[1].id /\ rec.kind = Queue[1].kind
      /\ rec.words = Queue[1].words /\ rec.words \in 2 .. RecMax
      /\ rec.kind = "rpc" => rec.words = RpcWords
  BY <1>2 DEF Word, IInv, Chain
<1>4. pending' = Tail(pending)
  BY <1>1, <1>2, <1>3, QueueType DEF Ran, IInv
<1>5. /\ Queue' = Tail(Queue) /\ Base' = End(Queue[1])
      /\ Base' = t + rec.words
  BY <1>1, <1>2, <1>3, <1>4 DEF Queue, Base, End
<1>6. ASSUME NEW q \in Nat, End(Queue[1]) <= q, q < wpos
      PROVE  ring'[Idx(q)] = ring[Idx(q)]
  <2>1. CASE rec.kind # "rpc"
    BY <2>1
  <2>2. CASE rec.kind = "rpc"
    <3> DEFINE p == t + RpcWords - 1
    <3>1. p \in Nat /\ Base <= p /\ p < q
      BY <1>2, <1>3, <1>5, <1>6, <2>2, RingAssumption DEF IInv, TypeOK
    <3>2. q - p < RingWords
      BY <1>2, <1>6, <3>1, Span, RingAssumption
    <3>3. Idx(p) # Idx(q) /\ Idx(q) \in Cells
      BY <3>1, <3>2, IdxDiffer, IdxIs
    <3> QED BY <2>2, <3>3 DEF IInv, TypeOK
  <2> QED BY <2>1, <2>2
<1>7. /\ Chain'
      /\ \A i \in DOMAIN Queue' : Queue'[i] = Queue[i + 1] /\ i + 1 \in DOMAIN Queue
      /\ \A i \in DOMAIN Queue :
           i # 1 => i - 1 \in DOMAIN Queue' /\ Queue'[i - 1] = Queue[i]
  BY <1>2, <1>5, <1>6, PopKeeps
<1>8. ASSUME NEW p, Boundary(p), p # t
      PROVE  p = Base' \/ \E i \in DOMAIN Queue' : p = End(Queue'[i])
  <2>1. PICK i \in DOMAIN Queue : p = End(Queue[i])
    BY <1>2, <1>8 DEF Boundary
  <2>2. CASE i = 1
    BY <1>5, <2>1, <2>2
  <2>3. CASE i # 1
    BY <1>7, <2>1, <2>3
  <2> QED BY <2>2, <2>3
<1>9. Boundary(h) /\ Boundary(head) /\ head # t
  BY <1>2, Order, QueueType DEF IInv, Cursors, TypeOK
<1>10. Cursors'
  BY <1>2, <1>8, <1>9 DEF IInv, Cursors, Boundary, End
<1>11. Base' <= h
  <2>1. PICK i \in DOMAIN Queue : h = End(Queue[i])
    BY <1>2, <1>9 DEF Boundary
  <2>2. CASE i = 1
    <3>1. h = Base' /\ h \in Nat
      BY <1>5, <2>1, <2>2 DEF IInv, TypeOK
    <3> QED BY <3>1
  <2>3. CASE i # 1
    <3>1. End(Queue[1]) <= Queue[i].pos
      BY <1>2, <2>3, QueueType DEF IInv, Chain
    <3> QED BY <1>2, <1>5, <2>1, <3>1, QueueType DEF IInv, End
  <2> QED BY <2>2, <2>3
<1>12. /\ Queue \in Seq(Entries) /\ Queue' \in Seq(Entries)
       /\ Len(Queue) \in Nat /\ Len(Queue') = Len(Queue) - 1
  BY <1>2, <1>5, QueueType, HeadTailProperties DEF IInv
<1>13. rec.kind = "rpc" => goal = "answer" /\ Queue' = <<>>
  <2>1. rec.kind = "rpc" => goal = "answer" /\ Len(Queue) = 1
    BY <1>2, <1>3 DEF IInv, GameAt
  <2> QED BY <1>12, <2>1
<1>14. GameAt'
  <2>1. \A i \in DOMAIN Queue' :
          Queue'[i].kind = "rpc" => goal = "answer" /\ i = Len(Queue')
    BY <1>7, <1>12 DEF IInv, GameAt
  <2> QED BY <1>1, <2>1 DEF IInv, GameAt, Waiting, Pad, Idx, U32
<1>15. RenderAt'
  BY <1>2, <1>3, <1>11, <1>13 DEF IInv, RenderAt, Word
<1> QED BY <1>7, <1>10, <1>14, <1>15 DEF Inv3

\* What Write puts where: the record's own words, the marker, and nothing else
\* between the render thread and the game thread.
LEMMA WritePlaces ==
  ASSUME IInv, Write, NEW pad, pad = Pad(cur.words)
  PROVE  /\ pad \in Nat /\ cur \in Requests /\ cur.words \in 2 .. RecMax
         /\ cur.kind \in {"put", "rpc", "swap"}
         /\ wpos' = wpos + pad + cur.words
         /\ wpos' - tailSeen <= RingWords
         /\ Idx(wpos + pad) + cur.words <= RingWords
         /\ \A j \in 0 .. cur.words - 1 :
              ring'[Idx(wpos + pad + j)] = Word(made + 1, cur.kind, cur.words)
         /\ pad # 0 => pad = RingWords - Idx(wpos) /\ ring'[Idx(wpos)] = Zero
         /\ \A q \in Nat : Base <= q /\ q < wpos => ring'[Idx(q)] = ring[Idx(q)]
<1> USE DEF Write
<1>1. TypeOK /\ wpos \in Nat /\ RingWords \in Nat \ {0} /\ tailSeen \in Nat
  BY RingAssumption DEF IInv, TypeOK
<1>2. /\ cur \in Requests /\ cur.words \in 2 .. RecMax
      /\ cur.kind \in {"put", "rpc", "swap"}
      /\ cur.words \in Nat /\ 2 <= cur.words /\ 2 * cur.words <= RingWords
  <2>1. /\ cur \in Requests /\ cur.words \in 2 .. RecMax
        /\ cur.kind \in {"put", "rpc", "swap"}
    BY RequestType DEF IInv, GameAt
  <2> QED BY <2>1, RingAssumption
<1>3. pad \in Nat
  BY <1>1, PadType
<1>4. wpos' = wpos + pad + cur.words /\ wpos' - tailSeen <= RingWords
  BY <1>1, <1>2, <1>3 DEF IInv, GameAt
<1>5. Idx(wpos) \in 0 .. RingWords - 1
  BY <1>1, IdxIs DEF Cells
<1>6. CASE pad = 0
  <2>1. wpos + pad = wpos /\ Idx(wpos) + cur.words <= RingWords
    BY <1>1, <1>2, <1>5, <1>6, RingAssumption DEF Pad
  <2>2. ring' = [i \in Cells |-> IF i \in Idx(wpos) .. Idx(wpos) + cur.words - 1
                                 THEN Word(made + 1, cur.kind, cur.words)
                                 ELSE ring[i]]
    BY <1>6, <2>1 DEF Written
  <2>3. ASSUME NEW j \in 0 .. cur.words - 1
        PROVE  ring'[Idx(wpos + j)] = Word(made + 1, cur.kind, cur.words)
    <3>1. j \in Nat /\ wpos + j \in Nat /\ Idx(wpos) + j < RingWords
      BY <1>1, <1>2, <1>5, <2>1, SMTT(60)
    <3>2. Idx(wpos + j) = Idx(wpos) + j /\ Idx(wpos + j) \in Cells
      BY <1>1, <3>1, IdxAdd, IdxIs
    <3> QED BY <1>2, <1>5, <2>2, <3>2
  <2>4. ASSUME NEW q \in Nat, Base <= q, q < wpos
        PROVE  ring'[Idx(q)] = ring[Idx(q)]
    <3>1. Idx(q) \in Cells
      BY IdxIs
    <3>2. ASSUME Idx(q) \in Idx(wpos) .. Idx(wpos) + cur.words - 1 PROVE FALSE
      <4>1. PICK j \in 0 .. cur.words - 1 : Idx(q) = Idx(wpos) + j
        <5>1. Idx(q) - Idx(wpos) \in 0 .. cur.words - 1
          <6>1. Idx(q) \in Int /\ Idx(wpos) \in Int /\ cur.words \in Int
            BY <1>2, <1>5, <3>1 DEF Cells
          <6> QED BY <6>1, <3>2
        <5>2. Idx(q) = Idx(wpos) + (Idx(q) - Idx(wpos))
          BY <1>5, <3>1 DEF Cells
        <5> QED BY <5>1, <5>2
      <4>2. Idx(wpos + j) = Idx(wpos) + j
        BY <1>1, <1>2, <1>5, <2>1, <4>1, IdxAdd, RingAssumption, SMTT(60)
      <4>3. wpos + j \in Nat /\ q < wpos + j /\ wpos + j < tailSeen + RingWords
        BY <1>1, <1>2, <1>4, <1>6, <2>4, <4>1, RingAssumption, SMTT(60)
      <4>4. (wpos + j) - q < RingWords
        BY <1>1, <2>4, <4>3, Span
      <4> QED BY <4>1, <4>2, <4>3, <4>4, IdxDiffer
    <3> QED BY <2>2, <3>1, <3>2
  <2> QED BY <1>2, <1>3, <1>4, <1>6, <2>1, <2>3, <2>4
<1>7. CASE pad # 0
  <2>1. /\ pad = RingWords - Idx(wpos) /\ wpos + pad = wpos + RingWords - Idx(wpos)
        /\ Idx(wpos) + cur.words > RingWords /\ Idx(wpos + pad) = 0
    BY <1>1, <1>5, <1>7, IdxSkip DEF Pad
  <2>2. cur.words <= RingWords /\ Idx(wpos) >= cur.words
    BY <1>1, <1>2, <1>5, <2>1, RingAssumption, SMTT(60)
  <2>3. ring' = [i \in Cells |-> IF i \in 0 .. 0 + cur.words - 1
                                 THEN Word(made + 1, cur.kind, cur.words)
                                 ELSE IF i = Idx(wpos) THEN Zero ELSE ring[i]]
    BY <1>3, <1>7, <2>1 DEF Written
  <2>4. ASSUME NEW j \in 0 .. cur.words - 1
        PROVE  ring'[Idx(wpos + pad + j)] = Word(made + 1, cur.kind, cur.words)
    <3>1. wpos + pad \in Nat /\ j \in Nat /\ Idx(wpos + pad) + j < RingWords
      BY <1>1, <1>2, <1>3, <2>1, <2>2, RingAssumption, SMTT(60)
    <3>2. Idx(wpos + pad + j) = j /\ j \in Cells
      BY <1>1, <2>1, <3>1, IdxAdd DEF Cells
    <3> QED BY <2>3, <3>1, <3>2, <1>2, RingAssumption
  <2>5. ring'[Idx(wpos)] = Zero
    BY <1>1, <1>2, <1>5, <2>2, <2>3, RingAssumption DEF Cells
  <2>6. ASSUME NEW q \in Nat, Base <= q, q < wpos
        PROVE  ring'[Idx(q)] = ring[Idx(q)]
    <3>1. Idx(q) \in Cells
      BY IdxIs
    <3>2. ASSUME Idx(q) \in 0 .. 0 + cur.words - 1 PROVE FALSE
      <4>1. Idx(wpos + pad + Idx(q)) = Idx(q)
        <5>1. wpos + pad \in Nat /\ Idx(q) \in Nat /\ Idx(q) < RingWords
          BY <1>1, <1>3, <3>1 DEF Cells
        <5>2. Idx(wpos + pad) + Idx(q) = Idx(q)
          BY <2>1, <5>1
        <5> QED BY <5>1, <5>2, IdxAdd
      <4>2. /\ wpos + pad + Idx(q) \in Nat /\ q < wpos + pad + Idx(q)
            /\ wpos + pad + Idx(q) < tailSeen + RingWords
        <5>1. Idx(q) \in Nat /\ Idx(q) < cur.words
          BY <1>2, <3>1, <3>2 DEF Cells
        <5>2. wpos + pad + cur.words <= tailSeen + RingWords
          BY <1>1, <1>2, <1>3, <1>4
        <5> HIDE DEF Write
        <5> QED BY <1>1, <1>2, <1>3, <2>6, <5>1, <5>2
      <4>3. (wpos + pad + Idx(q)) - q < RingWords
        BY <1>1, <2>6, <4>2, Span
      <4> QED BY <4>1, <4>2, <4>3, IdxDiffer
    <3>3. Idx(q) # Idx(wpos)
      <4>1. wpos - q < RingWords
        <5> HIDE DEF Write
        <5>1. wpos < wpos' /\ wpos' <= tailSeen + RingWords
          BY <1>1, <1>2, <1>3, <1>4
        <5>2. wpos < tailSeen + RingWords
          BY <1>1, <5>1, <1>2, <1>3, <1>4
        <5> QED BY <1>1, <2>6, <5>2, Span
      <4> QED BY <1>1, <2>6, <4>1, IdxDiffer
    <3> QED BY <2>3, <3>1, <3>2, <3>3
  <2> QED BY <1>1, <1>2, <1>3, <1>4, <2>1, <2>2, <2>4, <2>5, <2>6, RingAssumption
<1> QED BY <1>6, <1>7

\* Appending a record that was placed where the game thread stood leaves the
\* chain whole, and every link of it a link.
LEMMA PushKeeps ==
  ASSUME IInv, NEW e \in Entries, Queue' = Append(Queue, e), Base' = Base,
         Placed(ring', e, wpos), wpos <= e.pos, wpos' = End(e),
         e.words \in 2 .. RecMax, e.kind = "rpc" => e.words = RpcWords,
         Idx(e.pos) + e.words <= RingWords, Holds(ring', e),
         \A q \in Nat : Base <= q /\ q < wpos => ring'[Idx(q)] = ring[Idx(q)]
  PROVE  /\ Chain'
         /\ DOMAIN Queue \subseteq DOMAIN Queue'
         /\ \A i \in DOMAIN Queue : Queue'[i] = Queue[i]
<1>1. /\ Queue \in Seq(Entries) /\ Len(Queue) \in Nat
      /\ Queue' \in Seq(Entries) /\ Len(Queue') = Len(Queue) + 1
      /\ Queue'[Len(Queue) + 1] = e
      /\ \A i \in 1 .. Len(Queue) : Queue'[i] = Queue[i]
      /\ DOMAIN Queue = 1 .. Len(Queue) /\ DOMAIN Queue' = 1 .. Len(Queue) + 1
  BY QueueType, AppendProperties DEF IInv
<1>2. wpos \in Nat /\ Base \in Nat /\ Base <= wpos /\ e.pos \in Nat /\ e.words \in Nat
  BY BaseBelow, QueueType, RingAssumption DEF IInv, TypeOK, Entries
<1>3. \A i \in 1 .. Len(Queue) + 1 : Before(i)' = Before(i)
  <2> TAKE i \in 1 .. Len(Queue) + 1
  <2>1. CASE i = 1
    BY <2>1 DEF Before
  <2>2. CASE i # 1
    <3>1. i - 1 \in 1 .. Len(Queue)
      BY <1>1, <2>2
    <3> QED BY <1>1, <2>2, <3>1 DEF Before, End
  <2> QED BY <2>1, <2>2
<1>4. ASSUME NEW i \in DOMAIN Queue
      PROVE  Holds(ring', Queue[i]) /\ Placed(ring', Queue[i], Before(i))
  <2>1. /\ Queue[i].pos \in Nat /\ Queue[i].words \in Nat
        /\ End(Queue[i]) = Queue[i].pos + Queue[i].words
        /\ Base <= Queue[i].pos /\ End(Queue[i]) <= wpos
        /\ Queue[i].words >= 2
    BY <1>1, QueueType, RingAssumption DEF IInv, Chain, End
  <2>2. Holds(ring', Queue[i])
    <3> SUFFICES ASSUME NEW j \in 0 .. Queue[i].words - 1
                 PROVE  ring'[Idx(Queue[i].pos + j)]
                          = Word(Queue[i].id, Queue[i].kind, Queue[i].words)
      BY DEF Holds
    <3>1. /\ Queue[i].pos + j \in Nat /\ Base <= Queue[i].pos + j
          /\ Queue[i].pos + j < wpos
      BY <2>1, <1>2, SMTT(60)
    <3>2. Holds(ring, Queue[i])
      BY DEF IInv, Chain
    <3> QED BY <3>1, <3>2 DEF Holds
  <2>3. /\ Before(i) \in Nat /\ Base <= Before(i) /\ Before(i) <= Queue[i].pos
    <3>1. CASE i = 1
      BY <3>1, <2>1, <1>2 DEF Before
    <3>2. CASE i # 1
      <4>1. i - 1 \in DOMAIN Queue /\ Before(i) = End(Queue[i - 1]) /\ i - 1 < i
        BY <1>1, <3>2 DEF Before
      <4>2. /\ Base <= Queue[i - 1].pos /\ End(Queue[i - 1]) <= Queue[i].pos
            /\ End(Queue[i - 1]) = Queue[i - 1].pos + Queue[i - 1].words
        BY <4>1 DEF IInv, Chain, End
      <4> QED BY <4>1, <4>2, <1>2, QueueType, SMTT(60) DEF IInv
    <3> QED BY <3>1, <3>2
  <2>4. Before(i) < wpos
    BY <1>2, <2>1, <2>3
  <2>5. Placed(ring, Queue[i], Before(i))
    BY DEF IInv, Chain
  <2> QED BY <2>2, <2>3, <2>4, <2>5 DEF Placed
<1>5. Before(Len(Queue) + 1) = wpos
  BY DEF IInv, Chain
<1>6. ASSUME NEW i \in DOMAIN Queue'
      PROVE  /\ Placed(ring', Queue'[i], Before(i)')
             /\ Base' <= Queue'[i].pos /\ End(Queue'[i]) <= wpos'
             /\ Queue'[i].words \in 2 .. RecMax
             /\ Queue'[i].kind = "rpc" => Queue'[i].words = RpcWords
             /\ Idx(Queue'[i].pos) + Queue'[i].words <= RingWords
             /\ Holds(ring', Queue'[i])
  <2>1. CASE i \in DOMAIN Queue
    <3>1. Queue'[i] = Queue[i] /\ Before(i)' = Before(i)
      BY <1>1, <1>3, <2>1
    <3>2. End(Queue[i]) <= wpos'
      BY <2>1, <1>2, QueueType DEF IInv, Chain, End
    <3> QED BY <1>4, <2>1, <3>1, <3>2 DEF IInv, Chain
  <2>2. CASE i = Len(Queue) + 1
    <3>1. Queue'[i] = e /\ Before(i)' = wpos
      BY <1>1, <1>3, <1>5, <2>2
    <3> QED BY <1>2, <3>1 DEF End
  <2> QED BY <1>1, <2>1, <2>2
<1>7. \A i, j \in DOMAIN Queue' : i < j => End(Queue'[i]) <= Queue'[j].pos
  <2> SUFFICES ASSUME NEW i \in DOMAIN Queue', NEW j \in DOMAIN Queue', i < j
               PROVE  End(Queue'[i]) <= Queue'[j].pos
    OBVIOUS
  <2>1. i \in DOMAIN Queue /\ Queue'[i] = Queue[i]
    BY <1>1
  <2>2. CASE j \in DOMAIN Queue
    BY <1>1, <2>1, <2>2 DEF IInv, Chain
  <2>3. CASE j = Len(Queue) + 1
    <3>1. End(Queue[i]) <= wpos /\ End(Queue[i]) \in Nat
      BY <2>1, QueueType DEF IInv, Chain
    <3> QED BY <1>1, <1>2, <2>1, <2>3, <3>1
  <2> QED BY <1>1, <2>2, <2>3
<1>8. wpos' = Before(Len(Queue) + 1)'
  <2>1. Len(Queue') + 1 # 1 /\ (Len(Queue') + 1) - 1 = Len(Queue) + 1
    BY <1>1
  <2> QED BY <1>1, <2>1 DEF Before, End
<1> QED BY <1>1, <1>6, <1>7, <1>8 DEF Chain, End

\* The game thread writes a record.
LEMMA WriteKeeps == IInv /\ Write => Inv3'
<1> SUFFICES ASSUME IInv, Write PROVE Inv3'
  OBVIOUS
<1> DEFINE pad == Pad(cur.words)
           e == Entry(cur.kind, cur.words, wpos + pad)
<1>1. ppc = "write" /\ cpc' = cpc /\ rec' = rec /\ t' = t /\ h' = h
      /\ head' = head /\ tail' = tail /\ pub' = pub /\ tailSeen' = tailSeen
      /\ mode' = mode /\ inRpc' = inRpc /\ ringOk' = ringOk /\ after' = after
      /\ ppc' \in {"flush", "idle"} /\ cur' = Idle
      /\ goal' = (IF cur.kind = "rpc" THEN "answer" ELSE "none")
      /\ goal = "none"
  BY DEF Write, signals, consumer, IInv, GameAt
<1>2. /\ pad \in Nat /\ cur \in Requests /\ cur.words \in 2 .. RecMax
      /\ cur.kind \in {"put", "rpc", "swap"}
      /\ wpos' = wpos + pad + cur.words
      /\ wpos' - tailSeen <= RingWords
      /\ Idx(wpos + pad) + cur.words <= RingWords
      /\ \A j \in 0 .. cur.words - 1 :
           ring'[Idx(wpos + pad + j)] = Word(made + 1, cur.kind, cur.words)
      /\ pad # 0 => pad = RingWords - Idx(wpos) /\ ring'[Idx(wpos)] = Zero
      /\ \A q \in Nat : Base <= q /\ q < wpos => ring'[Idx(q)] = ring[Idx(q)]
  BY WritePlaces
<1>3. Queue' = Append(Queue, e) /\ Base' = Base /\ Queue = pending
  BY <1>1 DEF Queue, Base, Write
<1>4. /\ e = [id |-> made + 1, kind |-> cur.kind, words |-> cur.words, pos |-> wpos + pad]
      /\ e.id = made + 1 /\ e.kind = cur.kind
      /\ e.words = cur.words /\ e.pos = wpos + pad
  BY DEF Entry
<1>5. e \in Entries /\ wpos \in Nat
  BY <1>2, RingAssumption, SMTT(60) DEF Entry, Entries, made, IInv, TypeOK
<1>6. /\ wpos <= e.pos /\ wpos' = End(e) /\ e.words \in 2 .. RecMax
      /\ e.kind = "rpc" => e.words = RpcWords
      /\ Idx(e.pos) + e.words <= RingWords
  <2>1. cur.kind = "rpc" => cur.words = RpcWords
    BY <1>2 DEF Requests
  <2> HIDE DEF pad, e
  <2> QED BY <1>2, <1>4, <1>5, <2>1, RingAssumption DEF End
<1>7. Placed(ring', e, wpos)
  <2> HIDE DEF pad, e
  <2>1. Idx(wpos) \in Nat
    BY <1>5, IdxIs DEF Cells
  <2>2. CASE pad = 0
    BY <1>4, <1>5, <2>2 DEF Placed
  <2>3. CASE pad # 0
    <3>1. e.pos = wpos + RingWords - Idx(wpos)
      BY <1>2, <1>4, <1>5, <2>1, <2>3, RingAssumption
    <3> QED BY <1>2, <2>3, <3>1 DEF Placed
  <2> QED BY <2>2, <2>3
<1>8. Holds(ring', e)
  <2> HIDE DEF pad, e
  <2> QED BY <1>2, <1>4 DEF Holds
<1> HIDE DEF pad, e
<1>9. /\ Chain' /\ DOMAIN Queue \subseteq DOMAIN Queue'
      /\ \A i \in DOMAIN Queue : Queue'[i] = Queue[i]
  BY <1>2, <1>3, <1>5, <1>6, <1>7, <1>8, PushKeeps
<1>10. DOMAIN Queue' = 1 .. Len(Queue) + 1 /\ DOMAIN Queue = 1 .. Len(Queue)
       /\ Len(Queue) \in Nat /\ Len(Queue') = Len(Queue) + 1
       /\ Queue'[Len(Queue) + 1] = e
  BY <1>3, <1>5, QueueType, AppendProperties DEF IInv
<1>11. Cursors'
  <2>1. Boundary(h)' /\ Boundary(head)'
    BY <1>1, <1>3, <1>9 DEF IInv, Cursors, Boundary, End
  <2> QED BY <1>1, <1>2, <2>1 DEF IInv, Cursors
<1>12. GameAt'
  <2>1. mode = "queued"
    BY <1>1 DEF IInv, GameAt
  <2>2. ppc' = "flush" /\ goal' = "answer" => pub' < wpos'
    BY <1>1, <1>2, <1>5, Order, RingAssumption, SMTT(60) DEF IInv, TypeOK
  <2>3. \A i \in DOMAIN Queue' :
          Queue'[i].kind = "rpc" => goal' = "answer" /\ i = Len(Queue')
    <3> SUFFICES ASSUME NEW i \in DOMAIN Queue', Queue'[i].kind = "rpc"
                 PROVE  goal' = "answer" /\ i = Len(Queue')
      OBVIOUS
    <3>1. CASE i \in DOMAIN Queue
      BY <1>1, <1>9, <3>1 DEF IInv, GameAt
    <3>2. CASE i = Len(Queue) + 1
      BY <1>1, <1>4, <1>10, <3>2
    <3> QED BY <1>10, <3>1, <3>2
  <2>4. ppc' = "idle" => goal' = "none"
    BY <1>1 DEF Write, FlushNow
  <2> QED BY <1>1, <2>1, <2>2, <2>3, <2>4 DEF GameAt, Waiting
<1>13. RenderAt'
  <2>1. cpc = "exec" => Queue' # <<>> /\ Queue'[1] = Queue[1]
    <3>1. cpc = "exec" => 1 \in DOMAIN Queue
      BY QueueType DEF IInv, RenderAt
    <3> QED BY <1>9, <1>10, <3>1
  <2>2. cpc # "leaveRpc"
    BY <1>1 DEF IInv, RenderAt
  <2> QED BY <1>1, <1>3, <2>1, <2>2 DEF IInv, RenderAt
<1> QED BY <1>9, <1>11, <1>12, <1>13 DEF Inv3

\* A step that changes nothing preserves everything.
LEMMA StutterKeeps == IInv /\ UNCHANGED vars => Inv3'
<1> SUFFICES ASSUME IInv, UNCHANGED vars PROVE Inv3'
  OBVIOUS
<1> USE DEF vars, signals, producer, consumer
<1>1. Chain' /\ Cursors'
  BY DEF IInv, Chain, Cursors, Queue, Base, Before, Boundary
<1>2. GameAt' /\ RenderAt'
  BY DEF IInv, GameAt, RenderAt, Queue, Base, made, Pad, Idx, U32
<1> QED BY <1>1, <1>2 DEF Inv3

-----------------------------------------------------------------------------
\* Every step of either thread preserves the inductive invariant.
THEOREM IInvStep == IInv /\ [Next]_vars => IInv'
<1> SUFFICES ASSUME IInv, [Next]_vars PROVE IInv'
  OBVIOUS
<1>1. TypeOK'
  BY TypeStep DEF IInv
<1>2. Inv3'
  <2>1. ASSUME NEW r \in Requests, Request(r) PROVE Inv3'
    BY <2>1, RequestKeeps
  <2>2. GameStep => Inv3'
    BY InlineRunKeeps, ReserveKeeps, WriteKeeps, FlushKeeps, TestKeeps,
       RecheckKeeps, DisarmKeeps, QuietGameKeeps DEF GameStep, QuietGameStep
  <2>3. RenderStep => Inv3'
    BY LoadKeeps, SkipPadKeeps, FetchKeeps, ExecKeeps, LeaveRpcKeeps,
       AdvanceKeeps, QuietRenderKeeps DEF RenderStep, QuietRenderStep
  <2> QED BY <2>1, <2>2, <2>3, StartKeeps, StopKeeps, StutterKeeps
          DEF Next, Requesting
<1> QED BY <1>1, <1>2 DEF IInv, Inv3

\* The inductive invariant holds in every state the two threads reach.
THEOREM Invariance == Spec => []IInv
<1>1. Init => IInv
  BY InitIInv
<1>2. IInv /\ [Next]_vars => IInv'
  BY IInvStep
<1> QED BY <1>1, <1>2, PTL DEF Spec

-----------------------------------------------------------------------------
(* What follows from the invariant *)

\* The inductive invariant orders the cursors as CursorOrder asks.
LEMMA OrderHolds == IInv => CursorOrder
BY Order, QueueType DEF IInv, CursorOrder, TypeOK

\* Records not yet run are links of the chain, and those hold their words; an
\* inline call has none.
LEMMA IntactHolds == IInv => UnreadIntact
<1> SUFFICES ASSUME IInv, NEW i \in DOMAIN pending,
                    NEW j \in 0 .. pending[i].words - 1
             PROVE  ring[Idx(pending[i].pos + j)]
                      = Word(pending[i].id, pending[i].kind, pending[i].words)
  BY DEF UnreadIntact
<1>1. CASE ppc = "inline"
  <2>1. Len(pending) = 1 /\ pending[1].words = 0
    BY <1>1 DEF IInv, GameAt
  <2>2. pending \in Seq(Entries)
    BY DEF IInv, TypeOK
  <2> QED BY <2>1, <2>2
<1>2. CASE ppc # "inline"
  BY <1>2 DEF IInv, Chain, Holds, Queue
<1> QED BY <1>1, <1>2

\* The game thread makes a GL call of its own only once the ring is drained.
LEMMA ExclusiveHolds == IInv => VitaGLExclusive
BY Drained DEF IInv, VitaGLExclusive, GameAt

\* An RPC is the last record, so when it runs all was published and the game
\* thread, which waits for it, has not seen the tail reach its own position.
LEMMA ParkedHolds == IInv => InRpcParked
<1> SUFFICES ASSUME IInv, inRpc PROVE InRpcParked
  BY DEF InRpcParked
<1>1. cpc \in {"exec", "leaveRpc"} /\ rec.kind = "rpc"
  BY DEF IInv, RenderAt
<1>2. goal = "answer" /\ head = wpos
  <2>1. CASE cpc = "exec"
    <3>1. /\ Queue # <<>> /\ rec.kind = Queue[1].kind /\ Base = t /\ h # t
      BY <2>1 DEF IInv, RenderAt, Word, Base
    <3>2. 1 \in DOMAIN Queue /\ goal = "answer" /\ Len(Queue) = 1
      <4>1. 1 \in DOMAIN Queue /\ Queue[1].kind = "rpc"
        BY <1>1, <3>1, QueueType DEF IInv
      <4> QED BY <4>1 DEF IInv, GameAt
    <3>3. h = End(Queue[1])
      BY <3>1, <3>2, QueueType DEF IInv, Cursors, Boundary
    <3>4. wpos = End(Queue[1])
      BY <3>2, QueueType DEF IInv, Chain, Before
    <3> QED BY <3>2, <3>3, <3>4, Order, QueueType DEF IInv, TypeOK
  <2>2. CASE cpc = "leaveRpc"
    <3>1. goal = "answer" /\ Queue = <<>>
      BY <2>2 DEF IInv, RenderAt
    <3>2. wpos = Base
      BY <3>1 DEF IInv, Chain, Before
    <3> QED BY <3>1, <3>2, Order, QueueType DEF IInv, TypeOK
  <2> QED BY <1>1, <2>1, <2>2
<1>3. ppc # "disarm"
  <2> SUFFICES ASSUME ppc = "disarm" PROVE FALSE
    OBVIOUS
  <2>1. tailSeen = wpos
    BY <1>2 DEF IInv, GameAt
  <2>2. t = wpos
    BY <2>1, Order, QueueType DEF IInv, TypeOK
  <2> QED BY <2>2, Drained DEF IInv
<1>4. ppc # "flush"
  BY <1>2, Order DEF IInv, GameAt, TypeOK
<1> QED BY <1>2, <1>3, <1>4 DEF InRpcParked, IInv, GameAt, TypeOK, ProducerPcs

-----------------------------------------------------------------------------
(* Which call is where *)

\* A step that makes and runs no call keeps AnswerAt, unless it starts to wait
\* for an answer or takes one.
LEMMA AnswerFrame ==
  ASSUME IInv, AnswerAt, UNCHANGED <<pending, ran, ring, slot, got>>,
         ppc' # "inline" \/ ppc = "inline",
         ppc # "inline" \/ ppc' = "inline" \/ pending = <<>>,
         goal' = "answer" => goal = "answer",
         ppc' = "answer" => ppc = "answer" \/ goal = "answer",
         ppc' = "reseed" => ppc = "reseed"
  PROVE  AnswerAt'
<1>1. Queue' = Queue /\ made' = made
  BY DEF Queue, made
<1> QED BY <1>1 DEF AnswerAt, Idx, U32

\* wait_until's caller goes on to read the answer only if it waited for one.
LEMMA ProceedAnswer ==
  ASSUME IInv, AnswerAt, UNCHANGED <<pending, ran, ring, slot, got>>,
         ppc \in Waiting \cup {"disarm"}, Proceed
  PROVE  AnswerAt'
<1>1. goal \in {"space", "answer", "stop", "swap"}
  BY DEF IInv, TypeOK, GameAt
<1> QED BY <1>1, AnswerFrame DEF Proceed, Waiting

\* The value an RPC returns is read from its own record after it ran.
LEMMA AnswerTaken == IInv /\ AnswerAt /\ Answer => AnswerAt'
<1> SUFFICES ASSUME IInv, AnswerAt, Answer PROVE AnswerAt'
  OBVIOUS
<1> USE DEF Answer, shared, signals, consumer
<1>1. Queue = <<>> /\ goal = "none" /\ Queue' = Queue /\ made' = made
  BY Drained DEF IInv, GameAt, Queue, made
<1>2. ring[Idx(slot + RpcWords - 1)] = Word(made, "value", 0)
  BY <1>1 DEF AnswerAt
<1> QED BY <1>1, <1>2 DEF AnswerAt, Word

\* Making a call in the ring: its number is the next one, and an RPC is last.
LEMMA AnswerWrite == IInv /\ AnswerAt /\ Write => AnswerAt'
<1> SUFFICES ASSUME IInv, AnswerAt, Write PROVE AnswerAt'
  OBVIOUS
<1>1. /\ ppc = "write" /\ goal = "none" /\ ran' = ran
      /\ ppc' \in {"flush", "idle"}
      /\ goal' = (IF cur.kind = "rpc" THEN "answer" ELSE "none")
      /\ pending' = Append(pending, Entry(cur.kind, cur.words, wpos + Pad(cur.words)))
      /\ slot' = (IF cur.kind = "rpc" THEN wpos + Pad(cur.words) ELSE slot)
  BY DEF Write, IInv, GameAt
<1>2. /\ pending \in Seq(Entries) /\ ran \in Nat /\ cur \in Requests
      /\ cur.kind \in {"put", "rpc", "swap"} /\ cur.words \in 0 .. RecMax
      /\ wpos + Pad(cur.words) \in Nat
  BY <1>1, WritePlaces DEF IInv, TypeOK
<1>3. Entry(cur.kind, cur.words, wpos + Pad(cur.words)) \in Entries
  BY <1>2, EntryType DEF IInv
<1> DEFINE e == Entry(cur.kind, cur.words, wpos + Pad(cur.words))
<1>4. e.id = ran + Len(pending) + 1 /\ e.kind = cur.kind /\ e.pos = wpos + Pad(cur.words)
  BY DEF Entry, made
<1>5. e \in Entries /\ pending' = Append(pending, e)
  BY <1>1, <1>3
<1> HIDE DEF e
<1>6. /\ Len(pending') = Len(pending) + 1 /\ pending'[Len(pending')] = e
      /\ \A i \in 1 .. Len(pending) : pending'[i] = pending[i]
      /\ DOMAIN pending' = 1 .. Len(pending) + 1 /\ DOMAIN pending = 1 .. Len(pending)
      /\ pending' # <<>> /\ Len(pending) \in Nat
  BY <1>2, <1>5, AppendProperties
<1>7. \A i \in DOMAIN pending' : pending'[i].id = ran' + i
  <2> TAKE i \in DOMAIN pending'
  <2>1. CASE i \in DOMAIN pending
    BY <1>1, <1>6, <2>1 DEF AnswerAt
  <2>2. CASE i = Len(pending) + 1
    BY <1>1, <1>2, <1>4, <1>6, <2>2
  <2> QED BY <1>6, <2>1, <2>2
<1>8. Queue' = pending'
  BY <1>1 DEF Queue
<1> QED BY <1>1, <1>4, <1>6, <1>7, <1>8 DEF AnswerAt

\* Running a record: the numbers move up by one, and the last record, if it is
\* an RPC, leaves its value in its slot.
LEMMA AnswerExec == IInv /\ AnswerAt /\ Exec => AnswerAt'
<1> SUFFICES ASSUME IInv, AnswerAt, Exec PROVE AnswerAt'
  OBVIOUS
<1> USE DEF Exec, unseen, signals, producer
<1>1. t # wpos /\ ppc \notin {"inline", "answer", "reseed"} /\ Queue = pending
  BY Drained DEF IInv, GameAt, Queue
<1>2. /\ pending \in Seq(Entries) /\ pending # <<>> /\ 1 \in DOMAIN pending
      /\ pending[1].pos = t /\ rec.id = pending[1].id /\ rec.kind = pending[1].kind
      /\ Len(pending) \in Nat /\ ran \in Nat
  BY <1>1, SMTT(60) DEF IInv, RenderAt, Word, TypeOK
<1>3. pending' = Tail(pending) /\ ran' = ran + 1
  BY <1>1, <1>2 DEF Ran, AnswerAt
<1>4. /\ Len(pending') = Len(pending) - 1 /\ pending' \in Seq(Entries)
      /\ \A i \in 1 .. Len(pending') : pending'[i] = pending[i + 1]
      /\ DOMAIN pending' = 1 .. Len(pending')
  BY <1>2, <1>3, HeadTailProperties
<1>5. made' = made
  BY <1>2, <1>3, <1>4 DEF made
<1>6. \A i \in DOMAIN pending' : pending'[i].id = ran' + i
  <2> TAKE i \in DOMAIN pending'
  <2>1. i + 1 \in DOMAIN pending /\ pending'[i] = pending[i + 1] /\ i \in Nat
    BY <1>2, <1>4
  <2> QED BY <1>2, <1>3, <2>1 DEF AnswerAt
<1>7. Queue' = pending' /\ ppc' = ppc /\ goal' = goal /\ slot' = slot
  BY <1>1 DEF Queue
<1>8. ASSUME goal = "answer", pending' = <<>>
      PROVE  ring'[Idx(slot + RpcWords - 1)] = Word(made, "value", 0)
  <2>1. Len(pending) = 1 /\ pending[1].kind = "rpc" /\ pending[1].pos = slot
    <3>1. Len(pending') = 0
      BY <1>8
    <3>2. Len(pending) = 1
      BY <1>2, <1>4, <3>1
    <3> QED BY <1>1, <1>2, <1>8, <3>2 DEF AnswerAt
  <2>2. rec.kind = "rpc" /\ t = slot /\ rec.id = made
    BY <1>2, <2>1 DEF AnswerAt, made
  <2>3. Idx(t + RpcWords - 1) \in DOMAIN ring
    BY RingAssumption, IdxIs, t + RpcWords - 1 \in Nat DEF IInv, TypeOK
  <2> QED BY <2>2, <2>3
<1>9. ASSUME goal = "answer", pending' # <<>>
      PROVE  pending'[Len(pending')].kind = "rpc" /\ pending'[Len(pending')].pos = slot
  <2>1. Len(pending') \in 1 .. Len(pending') /\ Len(pending') + 1 = Len(pending)
    BY <1>2, <1>4, <1>9
  <2> QED BY <1>1, <1>2, <1>4, <1>9, <2>1 DEF AnswerAt
<1> QED BY <1>1, <1>5, <1>6, <1>7, <1>8, <1>9 DEF AnswerAt, Idx, U32

\* A call outside the ring is made and run before anything else is.
LEMMA AnswerInline ==
  ASSUME IInv, AnswerAt,
         InlineRun \/ (\E r \in Requests : Request(r))
  PROVE  AnswerAt'
<1> USE DEF shared, signals, consumer, ringState
<1>1. CASE InlineRun
  <2>1. /\ Queue = <<>> /\ Len(pending) = 1 /\ pending[1].id = made
        /\ goal = "none" /\ ppc = "inline" /\ pending \in Seq(Entries)
    BY <1>1 DEF IInv, GameAt, InlineRun, Queue, TypeOK
  <2>2. pending' = <<>>
    BY <1>1, <2>1 DEF InlineRun, Ran
  <2> QED BY <1>1, <2>1, <2>2 DEF InlineRun, AnswerAt
<1>2. ASSUME NEW r \in Requests, Request(r) PROVE AnswerAt'
  <2>1. ppc = "idle" /\ goal = "none" /\ ~inRpc
    BY <1>2, RpcWaits DEF Request, IInv, GameAt
  <2>2. CASE mode = "queued"
    BY <1>2, <2>1, <2>2, AnswerFrame DEF Request, Inline
  <2>3. CASE mode # "queued"
    <3>1. /\ pending' = Append(pending, Entry(r.kind, 0, 0)) /\ pending = <<>>
          /\ ppc' = "inline" /\ goal' = goal /\ ran' = ran /\ ran \in Nat
      <4>1. Queue = <<>>
        BY <2>3, Drained DEF IInv, GameAt
      <4> QED BY <1>2, <2>1, <2>3, <4>1 DEF Request, Inline, Queue, IInv, TypeOK
    <3>2. pending' = <<Entry(r.kind, 0, 0)>> /\ Entry(r.kind, 0, 0).id = ran + 1
      BY <3>1 DEF Entry, made
    <3> QED BY <2>1, <3>1, <3>2 DEF AnswerAt
  <2> QED BY <2>2, <2>3
<1> QED BY <1>1, <1>2

\* Every step keeps the calls and the answers where AnswerAt says they are.
LEMMA AnswerStep == IInv /\ AnswerAt /\ [Next]_vars => AnswerAt'
<1> SUFFICES ASSUME IInv, AnswerAt, [Next]_vars PROVE AnswerAt'
  OBVIOUS
<1> USE DEF shared, signals, consumer, producer, ringState, unseen
<1>1. ppc = "idle" => goal = "none" /\ (mode = "queued" \/ pending = <<>>)
  BY Drained DEF IInv, GameAt, Queue
<1>2. CASE Start \/ Stop \/ StopDone \/ Reserve
  BY <1>1, <1>2, AnswerFrame DEF Start, Stop, StopDone, Reserve, IInv, GameAt
<1>3. CASE Flush \/ FlushCheck \/ FlushClear \/ FlushSignal
  BY <1>3, AnswerFrame DEF Flush, FlushCheck, FlushClear, FlushSignal, AfterFlush
<1>4. CASE Arm \/ Recheck \/ Woken \/ Reseed
  BY <1>4, AnswerFrame DEF Arm, Recheck, Woken, Reseed
<1>5. CASE Test
  <2>1. CASE Met
    BY <1>5, <2>1, ProceedAnswer DEF Test, Waiting
  <2>2. CASE ~Met
    BY <1>5, <2>2, AnswerFrame DEF Test
  <2> QED BY <2>1, <2>2
<1>6. CASE Disarm
  BY <1>6, ProceedAnswer DEF Disarm
<1>7. CASE Load \/ CaughtUp \/ Wake \/ WakeClear \/ WakeSignal \/ Look \/ Doze
           \/ LookAgain \/ Asleep \/ Awake
  BY <1>7, AnswerFrame DEF Load, CaughtUp, Wake, WakeClear, WakeSignal, Look,
     Doze, LookAgain, Asleep, Awake
<1>8. CASE SkipPad \/ Fetch \/ LeaveRpc \/ Advance \/ Publish \/ UNCHANGED vars
  BY <1>8, AnswerFrame DEF SkipPad, Fetch, LeaveRpc, Advance, Publish, vars
<1> QED BY <1>2, <1>3, <1>4, <1>5, <1>6, <1>7, <1>8, AnswerTaken, AnswerWrite,
           AnswerExec, AnswerInline
        DEF Next, GameStep, RenderStep, Requesting

-----------------------------------------------------------------------------
(* Which present is where *)

\* A step that counts, writes and runs no present keeps FramesAt.
LEMMA FramesFrame ==
  ASSUME IInv, FramesAt, UNCHANGED <<swapsDone, swapsQueued>>, Queue' = Queue,
         PresentDue' => PresentDue,
         ppc' = "disarm" /\ goal' = "swap" =>
           swapsDone >= swapsQueued \/ (ppc = "disarm" /\ goal = "swap")
  PROVE  FramesAt'
<1>1. Presents' = Presents
  BY DEF Presents
<1> QED BY <1>1 DEF FramesAt

\* A present is counted only when every one before it was shown.
LEMMA FramesProceed ==
  ASSUME IInv, FramesAt, UNCHANGED <<pending, swapsDone, cur>>,
         ppc \in Waiting \cup {"disarm"}, Proceed,
         goal = "swap" => swapsDone >= swapsQueued
  PROVE  FramesAt'
<1>1. goal \in {"space", "answer", "stop", "swap"} /\ swapsDone \in Nat /\ swapsQueued \in Nat
  BY DEF IInv, TypeOK, GameAt
<1>2. Queue' = Queue /\ Presents' = Presents
  BY <1>1 DEF Queue, Presents, Proceed, Waiting
<1>3. CASE goal = "swap"
  <2>1. swapsQueued = swapsDone /\ Presents = {}
    BY <1>1, <1>3 DEF FramesAt
  <2>2. swapsQueued' = swapsQueued + 1 /\ ppc' = "reserve"
    BY <1>3 DEF Proceed
  <2> QED BY <1>1, <1>2, <2>1, <2>2 DEF FramesAt
<1>4. CASE goal # "swap"
  BY <1>1, <1>2, <1>4, FramesFrame DEF Proceed, PresentDue
<1> QED BY <1>3, <1>4

\* Writing the present that is due.
LEMMA FramesWrite == IInv /\ FramesAt /\ Write => FramesAt'
<1> SUFFICES ASSUME IInv, FramesAt, Write PROVE FramesAt'
  OBVIOUS
<1>1. /\ ppc = "write" /\ ppc' \in {"flush", "idle"} /\ goal' # "space" /\ goal' # "swap"
      /\ cur' = Idle /\ swapsDone' = swapsDone /\ swapsQueued' = swapsQueued
      /\ Queue = pending /\ Queue' = pending' /\ cur.kind \in {"put", "rpc", "swap"}
  BY WritePlaces DEF Write, Queue, signals, consumer
<1> DEFINE e == Entry(cur.kind, cur.words, wpos + Pad(cur.words))
<1>2. e.kind = cur.kind /\ Queue' = Append(Queue, e)
  BY <1>1 DEF Write, Entry
<1>3. e \in Entries
  <2>1. TypeOK /\ wpos \in Nat
    BY DEF IInv, TypeOK
  <2>2. Pad(cur.words) \in Nat /\ cur.words \in 2 .. RecMax
    BY WritePlaces
  <2>3. cur.words \in 0 .. RecMax /\ wpos + Pad(cur.words) \in Nat
    BY <2>1, <2>2
  <2> QED BY <1>1, <2>1, <2>3, EntryType
<1> HIDE DEF e
<1>4. /\ Queue'[Len(Queue) + 1] = e /\ Len(Queue) \in Nat
      /\ \A i \in 1 .. Len(Queue) : Queue'[i] = Queue[i]
      /\ DOMAIN Queue' = 1 .. Len(Queue) + 1 /\ DOMAIN Queue = 1 .. Len(Queue)
  BY <1>2, <1>3, QueueType, AppendProperties DEF IInv
<1>5. ~PresentDue'
  BY <1>1 DEF PresentDue, Idle
<1>6. CASE cur.kind = "swap"
  <2>1. PresentDue /\ Presents = {} /\ swapsQueued # swapsDone
    BY <1>1, <1>6 DEF FramesAt, PresentDue
  <2>2. Presents' = {Len(Queue) + 1}
    BY <1>2, <1>4, <1>6, <2>1 DEF Presents
  <2> QED BY <1>1, <1>5, <2>1, <2>2 DEF FramesAt
<1>7. CASE cur.kind # "swap"
  <2>1. Presents' = Presents
    BY <1>2, <1>4, <1>7 DEF Presents
  <2> QED BY <1>1, <1>5, <2>1 DEF FramesAt
<1> QED BY <1>6, <1>7

\* Showing the one present in the ring.
LEMMA FramesExec == IInv /\ FramesAt /\ Exec => FramesAt'
<1> SUFFICES ASSUME IInv, FramesAt, Exec PROVE FramesAt'
  OBVIOUS
<1> USE DEF Exec, unseen, signals, producer
<1>1. ppc # "inline" /\ Queue = pending /\ Queue' = pending'
  BY Drained DEF IInv, GameAt, Queue
<1>2. /\ Queue \in Seq(Entries) /\ Queue # <<>> /\ 1 \in DOMAIN Queue
      /\ rec.id = Queue[1].id /\ rec.kind = Queue[1].kind
      /\ swapsDone \in Nat /\ swapsQueued \in Nat
  BY <1>1 DEF IInv, RenderAt, Word, TypeOK
<1>3. Queue' = Tail(Queue)
  BY <1>1, <1>2 DEF Ran
<1>4. \A i \in DOMAIN Queue' : Queue'[i] = Queue[i + 1] /\ i + 1 \in DOMAIN Queue /\ i \in Nat /\ i # 0
  BY <1>2, <1>3, HeadTailProperties
<1>5. \A i \in Presents' : i + 1 \in Presents /\ i \in Nat /\ i # 0
  BY <1>4 DEF Presents
<1>6. PresentDue' <=> PresentDue
  BY DEF PresentDue
<1>7. \A i, j \in Presents' : i = j
  <2> TAKE i, j \in Presents'
  <2>1. i + 1 = j + 1 /\ i \in Nat /\ j \in Nat
    BY <1>5 DEF FramesAt
  <2> QED BY <2>1
<1>8. CASE rec.kind = "swap"
  <2>1. 1 \in Presents /\ swapsQueued # swapsDone /\ ~PresentDue
    BY <1>2, <1>8 DEF Presents, FramesAt
  <2>2. Presents' = {}
    <3> SUFFICES ASSUME NEW i \in Presents' PROVE FALSE
      OBVIOUS
    <3>1. i + 1 = 1 /\ i \in Nat /\ i # 0
      BY <1>5, <2>1 DEF FramesAt
    <3> QED BY <3>1
  <2>3. swapsDone' = swapsQueued' /\ swapsQueued' \in Nat
    BY <1>2, <1>8, <2>1 DEF FramesAt
  <2> QED BY <1>6, <2>1, <2>2, <2>3 DEF FramesAt
<1>9. CASE rec.kind # "swap"
  <2>1. Presents = {} => Presents' = {}
    BY <1>5
  <2> QED BY <1>6, <1>7, <1>9, <2>1 DEF FramesAt
<1> QED BY <1>8, <1>9

\* An inline call is outside the ring and counts no present.
LEMMA FramesInline ==
  ASSUME IInv, FramesAt,
         InlineRun \/ (\E r \in Requests : Request(r))
  PROVE  FramesAt'
<1> USE DEF shared, signals, consumer, ringState
<1>1. CASE InlineRun
  <2>1. Queue = <<>> /\ Len(pending) = 1 /\ pending[1].id = made /\ pending \in Seq(Entries)
    BY <1>1 DEF IInv, GameAt, InlineRun, Queue, TypeOK
  <2>2. Queue' = Queue
    BY <1>1, <2>1 DEF InlineRun, Ran, Queue
  <2> QED BY <1>1, <2>2, FramesFrame DEF InlineRun, PresentDue, Idle
<1>2. ASSUME NEW r \in Requests, Request(r) PROVE FramesAt'
  <2>1. ppc = "idle" /\ goal = "none"
    BY <1>2 DEF Request, IInv, GameAt
  <2>2. mode # "queued" => Queue = <<>>
    BY Drained DEF IInv, GameAt
  <2>3. mode = "queued" => ~Inline(r.kind)
    BY <2>1, RpcWaits DEF Inline
  <2>4. Queue' = Queue
    BY <1>2, <2>1, <2>2, <2>3 DEF Request, Queue, Inline
  <2>5. ~PresentDue'
    BY <1>2, <2>1 DEF Request, PresentDue
  <2> QED BY <1>2, <2>1, <2>4, <2>5, FramesFrame DEF Request
<1> QED BY <1>1, <1>2

\* Every step keeps at most one present under way.
LEMMA FramesStep == IInv /\ FramesAt /\ [Next]_vars => FramesAt'
<1> SUFFICES ASSUME IInv, FramesAt, [Next]_vars PROVE FramesAt'
  OBVIOUS
<1> USE DEF shared, signals, consumer, producer, ringState, unseen
<1>1. CASE Start \/ Stop \/ StopDone \/ Reserve
  BY <1>1, FramesFrame DEF Start, Stop, StopDone, Reserve, IInv, GameAt,
     PresentDue, Queue
<1>2. CASE Flush \/ FlushCheck \/ FlushClear \/ FlushSignal
  BY <1>2, FramesFrame DEF Flush, FlushCheck, FlushClear, FlushSignal,
     AfterFlush, PresentDue, Queue
<1>3. CASE Arm \/ Woken \/ Reseed \/ Answer
  BY <1>3, FramesFrame DEF Arm, Woken, Reseed, Answer, PresentDue, Queue
<1>4. CASE Test
  <2>1. CASE Met
    BY <1>4, <2>1, FramesProceed DEF Test, Waiting, Met
  <2>2. CASE ~Met
    BY <1>4, <2>2, FramesFrame DEF Test, PresentDue, Queue
  <2> QED BY <2>1, <2>2
<1>5. CASE Disarm
  BY <1>5, FramesProceed DEF Disarm, FramesAt
<1>6. CASE Recheck
  BY <1>6, FramesFrame DEF Recheck, Met, PresentDue, Queue
<1>7. CASE Load \/ CaughtUp \/ Wake \/ WakeClear \/ WakeSignal \/ Look \/ Doze
           \/ LookAgain \/ Asleep \/ Awake
  BY <1>7, FramesFrame DEF Load, CaughtUp, Wake, WakeClear, WakeSignal, Look,
     Doze, LookAgain, Asleep, Awake, PresentDue, Queue
<1>8. CASE SkipPad \/ Fetch \/ LeaveRpc \/ Advance \/ Publish \/ UNCHANGED vars
  BY <1>8, FramesFrame DEF SkipPad, Fetch, LeaveRpc, Advance, Publish, vars,
     PresentDue, Queue
<1> QED BY <1>1, <1>2, <1>3, <1>4, <1>5, <1>6, <1>7, <1>8, FramesWrite,
           FramesExec, FramesInline
        DEF Next, GameStep, RenderStep, Requesting

\* Both hold from the start.
LEMMA MoreInvariance == Spec => []IInvMore
<1>1. Init => IInvMore
  <2> SUFFICES ASSUME Init PROVE AnswerAt /\ FramesAt
    BY DEF IInvMore
  <2>1. Queue = <<>> /\ Presents = {}
    BY DEF Init, Queue, Presents
  <2> QED BY <2>1 DEF Init, AnswerAt, FramesAt, PresentDue, Idle
<1>2. IInv /\ IInvMore /\ [Next]_vars => IInvMore'
  BY AnswerStep, FramesStep DEF IInvMore
<1> QED BY <1>1, <1>2, Invariance, PTL DEF Spec

-----------------------------------------------------------------------------
\* Every variable keeps the type the code declares.
THEOREM TypeCorrect == Spec => []TypeOK
BY Invariance, PTL DEF IInv

\* The cursors of the two threads never pass one another, wrapped or not.
THEOREM CursorsOrdered == Spec => []CursorOrder
BY Invariance, OrderHolds, PTL

\* A record that has not run is in the ring word for word.
THEOREM RecordsIntact == Spec => []UnreadIntact
BY Invariance, IntactHolds, PTL

\* No record runs on the render thread during a GL call of the game thread.
THEOREM OneThreadInVitaGL == Spec => []VitaGLExclusive
BY Invariance, ExclusiveHolds, PTL

\* While a record's RPC runs the game thread waits for it.
THEOREM CallerParked == Spec => []InRpcParked
BY Invariance, ParkedHolds, PTL

\* A present is queued only once the one before it has been shown.
THEOREM OneFrame == Spec => []OneFrameInFlight
<1>1. IInvMore => OneFrameInFlight
  BY DEF IInvMore, FramesAt, OneFrameInFlight
<1> QED BY <1>1, MoreInvariance, PTL

\* glq_rpc returns the value its own call left, with nothing queued before or
\* after it still to run.
THEOREM AnswersExact == Spec => []RpcExact
<1>1. IInv /\ IInvMore => RpcExact
  BY Drained DEF IInv, IInvMore, AnswerAt, RpcExact, GameAt, Queue
<1> QED BY <1>1, Invariance, MoreInvariance, PTL

-----------------------------------------------------------------------------
(* The ring implements the stream.  What GLStream calls pending is the calls *)
(* of this module without their places; who waits is told by ppc and goal.   *)

Calls == [i \in DOMAIN pending |-> [id |-> pending[i].id, kind |-> pending[i].kind]]
Nobody == [id |-> 0, kind |-> "none"]
Blocked ==
  IF ppc = "inline" THEN [id |-> made, kind |-> cur.kind]
  ELSE IF goal = "answer" \/ ppc = "answer" THEN [id |-> made, kind |-> "rpc"]
  ELSE [id |-> 0, kind |-> "none"]

LEMMA StreamStutters ==
  ASSUME UNCHANGED <<Calls, ran, Blocked, got>>
  PROVE  UNCHANGED Stream!vars
BY DEF Stream!vars, Calls, Blocked

LEMMA StreamCalls ==
  ASSUME NEW kind \in {"put", "rpc", "swap"}, NEW blocks \in BOOLEAN,
         Blocked = Nobody, kind = "rpc" => blocks,
         kind = "swap" => \A i \in DOMAIN Calls : Calls[i].kind # "swap",
         NEW call, call = [id |-> ran + Len(Calls) + 1, kind |-> kind],
         Calls' = Append(Calls, call), Blocked' = (IF blocks THEN call ELSE Nobody),
         UNCHANGED <<ran, got>>
  PROVE  Stream!Next
<1>1. Stream!Call(kind, blocks)
  BY DEF Stream!Call, Stream!Presented, Stream!Nothing, Calls, Blocked, Nobody
<1> QED BY <1>1 DEF Stream!Next, Stream!Kinds

LEMMA StreamExecutes ==
  ASSUME Calls # <<>>, ran' = Head(Calls).id, Calls' = Tail(Calls), UNCHANGED <<Blocked, got>>
  PROVE  Stream!Next
<1>1. Stream!Execute
  BY DEF Stream!Execute, Stream!Run, Calls, Blocked
<1> QED BY <1>1 DEF Stream!Next

LEMMA StreamReturns ==
  ASSUME Blocked.id = ran, Calls = <<>>, Blocked # Nobody, Blocked' = Nobody,
         got' = (IF Blocked.kind = "rpc" THEN Blocked.id ELSE got), UNCHANGED <<Calls, ran>>
  PROVE  Stream!Next
<1>1. Stream!Return
  BY DEF Stream!Return, Stream!Unblock, Stream!Nothing, Calls, Blocked, Nobody
<1> QED BY <1>1 DEF Stream!Next

LEMMA StreamRunsInPlace ==
  ASSUME Len(Calls) = 1, Calls # <<>>, ran' = Head(Calls).id, Calls' = Tail(Calls),
         Blocked # Nobody, Blocked' = Nobody,
         got' = (IF Blocked.kind = "rpc" THEN Blocked.id ELSE got)
  PROVE  Stream!Next
<1>1. Stream!RunInPlace
  BY DEF Stream!RunInPlace, Stream!Run, Stream!Unblock, Stream!Nothing, Calls, Blocked, Nobody
<1> QED BY <1>1 DEF Stream!Next

LEMMA CallsAre ==
  ASSUME NEW q \in Seq(Entries)
  PROVE  LET c == [i \in DOMAIN q |-> [id |-> q[i].id, kind |-> q[i].kind]] IN
         /\ c \in Seq([id : Nat, kind : {"put", "rpc", "swap"}])
         /\ Len(c) = Len(q) /\ DOMAIN c = DOMAIN q /\ DOMAIN q = 1 .. Len(q)
         /\ \A i \in DOMAIN q : c[i].id = q[i].id /\ c[i].kind = q[i].kind
<1> DEFINE T == [id : Nat, kind : {"put", "rpc", "swap"}]
           C(i) == [id |-> q[i].id, kind |-> q[i].kind]
           c == [i \in DOMAIN q |-> C(i)]
<1>1. Len(q) \in Nat /\ DOMAIN q = 1 .. Len(q) /\ \A i \in 1 .. Len(q) : q[i] \in Entries
  BY LenProperties, ElementOfSeq
<1>2. \A i \in 1 .. Len(q) : C(i) \in T /\ C(i).id = q[i].id /\ C(i).kind = q[i].kind
  BY <1>1 DEF Entries
<1> HIDE DEF C, T
<1>3. c \in Seq(T)
  BY <1>1, <1>2, IsASeq
<1>4. Len(c) = Len(q)
  BY <1>1, <1>3, LenProperties
<1> QED BY <1>1, <1>2, <1>3, <1>4 DEF C, T

\* A call is added at the end of both, and taken from the front of both.
LEMMA CallsAppend ==
  ASSUME NEW q \in Seq(Entries), NEW e \in Entries
  PROVE  [i \in DOMAIN Append(q, e) |-> [id |-> Append(q, e)[i].id, kind |-> Append(q, e)[i].kind]]
           = Append([i \in DOMAIN q |-> [id |-> q[i].id, kind |-> q[i].kind]],
                    [id |-> e.id, kind |-> e.kind])
<1> DEFINE C(s) == [i \in DOMAIN s |-> [id |-> s[i].id, kind |-> s[i].kind]]
           b == [id |-> e.id, kind |-> e.kind]
           T == [id : Nat, kind : {"put", "rpc", "swap"}]
<1>1. Append(q, e) \in Seq(Entries) /\ Len(Append(q, e)) = Len(q) + 1 /\ Len(q) \in Nat
      /\ Append(q, e)[Len(q) + 1] = e
      /\ \A i \in 1 .. Len(q) : Append(q, e)[i] = q[i]
  BY AppendProperties, LenProperties
<1>2. b \in T
  BY DEF Entries
<1>3. /\ C(q) \in Seq(T) /\ Len(C(q)) = Len(q)
      /\ C(Append(q, e)) \in Seq(T) /\ Len(C(Append(q, e))) = Len(q) + 1
  BY <1>1, CallsAre
<1>4. /\ Append(C(q), b) \in Seq(T) /\ Len(Append(C(q), b)) = Len(q) + 1
      /\ Append(C(q), b)[Len(q) + 1] = b
      /\ \A i \in 1 .. Len(q) : Append(C(q), b)[i] = C(q)[i]
  BY <1>2, <1>3, AppendProperties
<1>5. \A i \in 1 .. Len(q) + 1 : C(Append(q, e))[i] = Append(C(q), b)[i]
  <2> TAKE i \in 1 .. Len(q) + 1
  <2>1. i \in DOMAIN Append(q, e)
    BY <1>1, LenProperties
  <2>2. C(Append(q, e))[i] = [id |-> Append(q, e)[i].id, kind |-> Append(q, e)[i].kind]
    BY <2>1
  <2>3. CASE i = Len(q) + 1
    BY <1>1, <1>4, <2>2, <2>3
  <2>4. CASE i \in 1 .. Len(q)
    <3>1. C(q)[i] = [id |-> q[i].id, kind |-> q[i].kind]
      BY <2>4, LenProperties
    <3> QED BY <1>1, <1>4, <2>2, <2>4, <3>1
  <2> QED BY <1>1, <2>3, <2>4
<1> HIDE DEF C, T
<1>6. C(Append(q, e)) = Append(C(q), b)
  BY <1>3, <1>4, <1>5, SeqEqual
<1> QED BY <1>6 DEF C

LEMMA CallsTail ==
  ASSUME NEW q \in Seq(Entries), q # <<>>
  PROVE  LET c == [i \in DOMAIN q |-> [id |-> q[i].id, kind |-> q[i].kind]] IN
         /\ c # <<>> /\ Head(c).id = q[1].id
         /\ [i \in DOMAIN Tail(q) |-> [id |-> Tail(q)[i].id, kind |-> Tail(q)[i].kind]] = Tail(c)
<1> DEFINE C(s) == [i \in DOMAIN s |-> [id |-> s[i].id, kind |-> s[i].kind]]
           T == [id : Nat, kind : {"put", "rpc", "swap"}]
<1>1. Len(q) \in Nat \ {0} /\ Tail(q) \in Seq(Entries) /\ Len(Tail(q)) = Len(q) - 1
      /\ \A i \in 1 .. Len(Tail(q)) : Tail(q)[i] = q[i + 1]
  BY EmptySeq, HeadTailProperties
<1>2. /\ C(q) \in Seq(T) /\ Len(C(q)) = Len(q) /\ C(Tail(q)) \in Seq(T)
      /\ Len(C(Tail(q))) = Len(q) - 1
      /\ \A i \in 1 .. Len(q) : C(q)[i] = [id |-> q[i].id, kind |-> q[i].kind]
      /\ \A i \in 1 .. Len(q) - 1 :
           C(Tail(q))[i] = [id |-> Tail(q)[i].id, kind |-> Tail(q)[i].kind]
  <2>1. C(q) \in Seq(T) /\ Len(C(q)) = Len(q) /\ DOMAIN q = 1 .. Len(q)
    BY CallsAre
  <2>2. C(Tail(q)) \in Seq(T) /\ Len(C(Tail(q))) = Len(Tail(q)) /\ DOMAIN Tail(q) = 1 .. Len(Tail(q))
    BY <1>1, CallsAre
  <2> QED BY <1>1, <2>1, <2>2
<1>3. \A i \in 1 .. Len(q) - 1 : C(Tail(q))[i] = C(q)[i + 1]
  BY <1>1, <1>2
<1>4. C(q)[1].id = q[1].id
  BY <1>1, <1>2
<1> HIDE DEF C, T
<1>5. /\ C(q) # <<>> /\ Head(C(q)) = C(q)[1]
      /\ Tail(C(q)) \in Seq(T) /\ Len(Tail(C(q))) = Len(q) - 1
      /\ \A i \in 1 .. Len(q) - 1 : Tail(C(q))[i] = C(q)[i + 1]
  BY <1>1, <1>2, EmptySeq, HeadTailProperties
<1>6. Tail(C(q)) = C(Tail(q))
  BY <1>2, <1>3, <1>5, SeqEqual
<1> QED BY <1>4, <1>5, <1>6 DEF C

\* A step that makes and runs no call, and neither starts nor ends a wait.
LEMMA QueueStutters ==
  ASSUME UNCHANGED <<pending, ran, got>>, ppc # "inline", ppc' # "inline",
         (goal' = "answer" \/ ppc' = "answer") <=> (goal = "answer" \/ ppc = "answer")
  PROVE  UNCHANGED Stream!vars
<1>1. Calls' = Calls /\ made' = made
  BY DEF Calls, made
<1>2. Blocked' = Blocked
  BY <1>1 DEF Blocked
<1> QED BY <1>1, <1>2, StreamStutters

\* A render step that runs no call, whatever the game thread does.
LEMMA RenderStutters ==
  ASSUME UNCHANGED <<pending, ran, got, ppc, goal, cur>>
  PROVE  UNCHANGED Stream!vars
<1>1. Calls' = Calls /\ made' = made
  BY DEF Calls, made
<1>2. Blocked' = Blocked
  BY <1>1 DEF Blocked
<1> QED BY <1>1, <1>2, StreamStutters

\* The end of a wait: the caller of an RPC is still blocked, on its answer.
LEMMA ProceedStutters ==
  ASSUME IInv, UNCHANGED <<pending, ran, got>>, ppc \in Waiting \cup {"disarm"}, Proceed
  PROVE  UNCHANGED Stream!vars
<1>1. goal \in {"space", "answer", "stop", "swap"}
  BY DEF IInv, TypeOK, GameAt
<1> QED BY <1>1, QueueStutters DEF Proceed, Waiting

\* A call written into the ring is accepted; an RPC's caller is blocked.
LEMMA WriteCalls == IInv /\ IInvMore /\ Write => Stream!Next
<1> SUFFICES ASSUME IInv, IInvMore, Write PROVE Stream!Next
  OBVIOUS
<1>1. /\ ppc = "write" /\ goal = "none" /\ ran' = ran /\ got' = got
      /\ ppc' \in {"flush", "idle"}
      /\ goal' = (IF cur.kind = "rpc" THEN "answer" ELSE "none")
      /\ pending' = Append(pending, Entry(cur.kind, cur.words, wpos + Pad(cur.words)))
  BY DEF Write, IInv, GameAt
<1>2. /\ pending \in Seq(Entries) /\ ran \in Nat
      /\ cur.kind \in {"put", "rpc", "swap"} /\ cur.words \in 0 .. RecMax
      /\ wpos + Pad(cur.words) \in Nat
  BY <1>1, WritePlaces DEF IInv, TypeOK
<1> DEFINE e == Entry(cur.kind, cur.words, wpos + Pad(cur.words))
           call == [id |-> ran + Len(pending) + 1, kind |-> cur.kind]
<1>3. e \in Entries
  BY <1>2, EntryType DEF IInv
<1>4. e.id = ran + Len(pending) + 1 /\ e.kind = cur.kind /\ Len(pending) \in Nat
  BY <1>2 DEF Entry, made
<1>5. pending' = Append(pending, e)
  BY <1>1
<1> HIDE DEF e
<1>6. Calls' = Append(Calls, call) /\ Len(Calls) = Len(pending) /\ Len(pending') = Len(pending) + 1
  <2>1. Calls' = Append(Calls, [id |-> e.id, kind |-> e.kind])
    BY <1>2, <1>3, <1>5, CallsAppend DEF Calls
  <2>2. Len(Calls) = Len(pending)
    BY <1>2, CallsAre DEF Calls
  <2>3. Len(pending') = Len(pending) + 1
    BY <1>2, <1>3, <1>5, AppendProperties
  <2> QED BY <1>4, <2>1, <2>2, <2>3
<1>7. Blocked = Nobody
  BY <1>1 DEF Blocked, Nobody
<1>8. made' = ran + Len(pending) + 1
  BY <1>1, <1>2, <1>4, <1>6 DEF made
<1>9. Blocked' = (IF cur.kind = "rpc" THEN call ELSE Nobody)
  BY <1>1, <1>8 DEF Blocked, Nobody
<1>10. cur.kind = "swap" => \A i \in DOMAIN Calls : Calls[i].kind # "swap"
  <2> SUFFICES ASSUME cur.kind = "swap", NEW i \in DOMAIN Calls PROVE Calls[i].kind # "swap"
    OBVIOUS
  <2>1. Presents = {} /\ Queue = pending
    BY <1>1 DEF IInvMore, FramesAt, PresentDue, Queue
  <2>2. i \in DOMAIN pending /\ Calls[i].kind = pending[i].kind
    BY <1>2, CallsAre DEF Calls
  <2> QED BY <2>1, <2>2 DEF Presents
<1>11. call = [id |-> ran + Len(Calls) + 1, kind |-> cur.kind]
  BY <1>6
<1> HIDE DEF call
<1>12. CASE cur.kind = "rpc"
  BY <1>1, <1>2, <1>6, <1>7, <1>9, <1>10, <1>11, <1>12, StreamCalls
<1>13. CASE cur.kind # "rpc"
  BY <1>1, <1>2, <1>6, <1>7, <1>9, <1>10, <1>11, <1>13, StreamCalls
<1> QED BY <1>12, <1>13

\* A call made outside the ring blocks its caller; one that goes to the ring
\* is not accepted yet.
LEMMA RequestCalls ==
  ASSUME IInv, IInvMore, NEW r \in Requests, Request(r)
  PROVE  [Stream!Next]_(Stream!vars)
<1> USE DEF shared, signals, consumer, ringState
<1>1. ppc = "idle" /\ goal = "none" /\ ~inRpc /\ got' = got /\ ran' = ran /\ cur' = r
  BY RpcWaits DEF Request, IInv, GameAt
<1>2. r.kind \in {"put", "rpc", "swap"} /\ pending \in Seq(Entries) /\ ran \in Nat
  BY DEF Requests, IInv, TypeOK
<1>3. CASE mode = "queued"
  <2>1. pending' = pending /\ ppc' \in {"test", "reserve"} /\ goal' # "answer"
    BY <1>1, <1>3 DEF Request, Inline
  <2> QED BY <1>1, <2>1, QueueStutters
<1>4. CASE mode # "queued"
  <2>1. pending = <<>>
    BY <1>1, <1>4, Drained DEF IInv, GameAt, Queue
  <2>2. pending' = Append(pending, Entry(r.kind, 0, 0)) /\ ppc' = "inline" /\ goal' = "none"
    BY <1>1, <1>4 DEF Request, Inline
  <2> DEFINE e == Entry(r.kind, 0, 0)
             call == [id |-> ran + 1, kind |-> r.kind]
  <2>3. e \in Entries
    BY <1>2, RingAssumption, EntryType DEF IInv
  <2>4. e.id = ran + 1 /\ e.kind = r.kind
    BY <1>2, <2>1 DEF Entry, made
  <2>5. pending' = Append(pending, e)
    BY <2>2
  <2> HIDE DEF e
  <2>6. Calls' = Append(Calls, call) /\ Len(Calls) = 0 /\ DOMAIN Calls = {} /\ Len(pending') = 1
    BY <1>2, <2>1, <2>3, <2>4, <2>5, CallsAppend, CallsAre, AppendProperties DEF Calls
  <2>7. Blocked = Nobody
    BY <1>1 DEF Blocked, Nobody
  <2>8. Blocked' = call
    BY <1>1, <1>2, <2>2, <2>6 DEF Blocked, made
  <2>9. call = [id |-> ran + Len(Calls) + 1, kind |-> r.kind]
    BY <1>2, <2>6
  <2> HIDE DEF call
  <2>10. Stream!Next
    BY <1>1, <1>2, <2>6, <2>7, <2>8, <2>9, StreamCalls
  <2> QED BY <2>10
<1> QED BY <1>3, <1>4

\* The record the render thread executes is the oldest call.
LEMMA ExecExecutes == IInv /\ IInvMore /\ Exec => Stream!Next
<1> SUFFICES ASSUME IInv, IInvMore, Exec PROVE Stream!Next
  OBVIOUS
<1>1. /\ ppc # "inline" /\ Queue = pending
      /\ UNCHANGED <<ppc, goal, cur, got>> /\ Ran(rec.id) /\ cpc = "exec"
  BY Drained DEF Exec, producer, IInv, GameAt, RenderAt, Queue
<1>2. /\ pending \in Seq(Entries) /\ pending # <<>> /\ 1 \in DOMAIN pending
      /\ rec.id = pending[1].id /\ Len(pending) \in Nat /\ ran \in Nat
  BY <1>1 DEF IInv, RenderAt, Word, TypeOK
<1>3. pending' = Tail(pending) /\ ran' = ran + 1 /\ ran' = pending[1].id
  BY <1>1, <1>2 DEF Ran, AnswerAt, IInvMore
<1>4. Len(pending') = Len(pending) - 1
  BY <1>2, <1>3, HeadTailProperties
<1>5. made' = made
  BY <1>2, <1>3, <1>4 DEF made
<1>6. Blocked' = Blocked
  BY <1>1, <1>5 DEF Blocked
<1>7. Calls # <<>> /\ Head(Calls).id = pending[1].id /\ Calls' = Tail(Calls)
  BY <1>2, <1>3, CallsTail DEF Calls
<1> QED BY <1>1, <1>3, <1>6, <1>7, StreamExecutes

\* The game thread's own call runs and returns in one step.
LEMMA InlineRunsInPlace == IInv /\ IInvMore /\ InlineRun => Stream!Next
<1> SUFFICES ASSUME IInv, IInvMore, InlineRun PROVE Stream!Next
  OBVIOUS
<1>1. /\ ppc = "inline" /\ goal' = goal /\ ppc' = "idle" /\ Ran(made)
      /\ got' = (IF cur.kind = "rpc" THEN made ELSE got)
  BY DEF InlineRun
<1>2. /\ Len(pending) = 1 /\ pending[1].id = made /\ goal = "none"
      /\ pending \in Seq(Entries) /\ ran \in Nat /\ cur \in Requested
  BY <1>1 DEF IInv, GameAt, TypeOK
<1>3. pending # <<>> /\ Head(pending).id = made /\ made = ran + 1
  <2>1. pending # <<>> /\ Head(pending) = pending[1]
    BY <1>2, EmptySeq, HeadTailProperties
  <2> QED BY <1>2, <2>1 DEF made
<1>4. ran' = made /\ pending' = Tail(pending)
  BY <1>1, <1>3 DEF Ran
<1>5. /\ Calls # <<>> /\ Head(Calls).id = made /\ Calls' = Tail(Calls) /\ Len(Calls) = 1
  BY <1>2, <1>3, <1>4, CallsTail, CallsAre DEF Calls
<1>6. Blocked = [id |-> made, kind |-> cur.kind] /\ Blocked' = Nobody
  BY <1>1, <1>2 DEF Blocked, Nobody
<1>7. Blocked # Nobody /\ Blocked.id = made /\ Blocked.kind = cur.kind
  BY <1>2, <1>3, <1>6 DEF Nobody
<1> HIDE DEF Blocked
<1> QED BY <1>1, <1>4, <1>5, <1>6, <1>7, StreamRunsInPlace

\* An RPC that has run returns, with its own value.
LEMMA AnswerReturns == IInv /\ IInvMore /\ Answer => Stream!Next
<1> SUFFICES ASSUME IInv, IInvMore, Answer PROVE Stream!Next
  OBVIOUS
<1>1. /\ ppc = "answer" /\ ppc' = "reseed" /\ goal = "none" /\ goal' = goal
      /\ pending' = pending /\ ran' = ran
      /\ got' = (LET r11 == ring[Idx(slot + RpcWords - 1)]
                 IN  IF r11.kind = "value" THEN r11.id ELSE 0)
  BY DEF Answer, IInv, GameAt
<1>2. Queue = <<>> /\ pending = <<>>
  BY <1>1, Drained DEF IInv, GameAt, Queue
<1>3. got' = made /\ made = ran
  <2>1. ring[Idx(slot + RpcWords - 1)] = Word(made, "value", 0)
    BY <1>1, <1>2 DEF AnswerAt, IInvMore
  <2>2. made = ran
    BY <1>2 DEF made, IInv, TypeOK
  <2> QED BY <1>1, <2>1, <2>2 DEF Word
<1>4. Blocked = [id |-> made, kind |-> "rpc"] /\ Blocked' = Nobody
  BY <1>1 DEF Blocked, Nobody
<1>5. Calls = <<>> /\ Calls' = Calls
  BY <1>1, <1>2 DEF Calls
<1>6. Blocked # Nobody /\ Blocked.id = made /\ Blocked.kind = "rpc"
  BY <1>4 DEF Nobody
<1> HIDE DEF Blocked
<1> QED BY <1>1, <1>3, <1>4, <1>5, <1>6, StreamReturns

\* Every step of the ring is a step of the stream or changes nothing in it.
LEMMA StreamStep == IInv /\ IInvMore /\ [Next]_vars => [Stream!Next]_(Stream!vars)
<1> SUFFICES ASSUME IInv, IInvMore, [Next]_vars PROVE [Stream!Next]_(Stream!vars)
  OBVIOUS
<1>1. CASE Start \/ Stop \/ StopDone \/ Reserve
  BY <1>1, QueueStutters
  DEF Start, Stop, StopDone, Reserve, IInv, GameAt, shared, producer, ringState
<1>2. CASE Flush \/ FlushCheck \/ FlushClear \/ FlushSignal
  BY <1>2, QueueStutters
  DEF Flush, FlushCheck, FlushClear, FlushSignal, AfterFlush, ringState
<1>3. CASE Arm \/ Recheck \/ Woken \/ Reseed
  BY <1>3, QueueStutters DEF Arm, Recheck, Woken, Reseed, ringState
<1>4. CASE Test
  <2>1. CASE Met
    BY <1>4, <2>1, ProceedStutters DEF Test, Waiting
  <2>2. CASE ~Met
    BY <1>4, <2>2, QueueStutters DEF Test
  <2> QED BY <2>1, <2>2
<1>5. CASE Disarm
  BY <1>5, ProceedStutters DEF Disarm
<1>6. CASE Load \/ CaughtUp \/ Wake \/ WakeClear \/ WakeSignal \/ Look \/ Doze
           \/ LookAgain \/ Asleep \/ Awake
  BY <1>6, RenderStutters DEF Load, CaughtUp, Wake, WakeClear, WakeSignal, Look,
     Doze, LookAgain, Asleep, Awake, producer
<1>7. CASE SkipPad \/ Fetch \/ LeaveRpc \/ Advance \/ Publish \/ UNCHANGED vars
  BY <1>7, RenderStutters DEF SkipPad, Fetch, LeaveRpc, Advance, Publish, vars, producer
<1>8. CASE Write \/ InlineRun \/ Answer \/ Exec
  BY <1>8, WriteCalls, InlineRunsInPlace, AnswerReturns, ExecExecutes
<1>9. CASE Requesting
  BY <1>9, RequestCalls DEF Requesting
<1> HIDE DEF vars
<1> QED BY <1>1, <1>2, <1>3, <1>4, <1>5, <1>6, <1>7, <1>8, <1>9
        DEF Next, GameStep, RenderStep

\* Before the first call both are empty.
LEMMA StreamStarts == Init => Stream!Init
<1> SUFFICES ASSUME Init PROVE Stream!Init
  OBVIOUS
<1>1. pending = <<>> /\ ran = 0 /\ got = 0 /\ ppc = "idle" /\ goal = "none"
  BY DEF Init
<1>2. Calls = <<>> /\ Blocked = Nobody
  BY <1>1 DEF Calls, Blocked, Nobody
<1> QED BY <1>1, <1>2 DEF Stream!Init, Stream!Nothing, Calls, Blocked, Nobody

\* The ring and its two threads are the one stream of GL calls gl_thread.h
\* promises: each call runs once, in the order made, a present only after the
\* one before it, and a call that returns a value returns its own.
THEOREM RingImplementsStream == Spec => ImplementsStream
BY StreamStarts, StreamStep, Invariance, MoreInvariance, PTL
DEF Spec, ImplementsStream, Stream!Spec
=============================================================================
