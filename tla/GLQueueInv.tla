---------------------------- MODULE GLQueueInv ----------------------------
(***************************************************************************)
(* The inductive invariant behind the safety theorems of GLQueue.  It adds *)
(* to the cursors' order what the words between them say: the ring between *)
(* the render thread and the game thread is a chain of whole records, each *)
(* starting where the one before it ended or, over a wrap marker, at the   *)
(* start of the ring; every published position is a link of that chain.    *)
(***************************************************************************)
EXTENDS GLQueue

\* The calls that are in the ring: an inline call never is.
Queue == IF ppc = "inline" THEN <<>> ELSE pending

End(e) == e.pos + e.words

\* Where the render thread stands once it has stepped over what has run.
Base == IF cpc \in {"leaveRpc", "advance"} THEN t + rec.words ELSE t

\* Where the game thread stood when it reserved the i-th record.
Before(i) == IF i = 1 THEN Base ELSE End(Queue[i - 1])

\* A record the game thread places when it stands at b.
Placed(words, e, b) ==
  \/ e.pos = b
  \/ e.pos = b + RingWords - Idx(b) /\ words[Idx(b)] = Zero

Holds(words, e) ==
  \A j \in 0 .. e.words - 1 :
    words[Idx(e.pos + j)] = Word(e.id, e.kind, e.words)

Boundary(p) == p = Base \/ \E i \in DOMAIN Queue : p = End(Queue[i])

Chain ==
  /\ \A i \in DOMAIN Queue :
       /\ Placed(ring, Queue[i], Before(i))
       /\ Base <= Queue[i].pos /\ End(Queue[i]) <= wpos
       /\ Queue[i].words \in 2 .. RecMax
       /\ Queue[i].kind = "rpc" => Queue[i].words = RpcWords
       /\ Idx(Queue[i].pos) + Queue[i].words <= RingWords
       /\ Holds(ring, Queue[i])
  /\ \A i, j \in DOMAIN Queue : i < j => End(Queue[i]) <= Queue[j].pos
  /\ wpos = Before(Len(Queue) + 1)

Cursors ==
  /\ tailSeen <= tail /\ tail <= t
  /\ Boundary(h) /\ Boundary(head) /\ h <= head
  /\ pub = head
  /\ wpos - tailSeen <= RingWords

Waiting == {"test", "arm", "recheck", "sleep"}

\* What the game thread knows at each of its steps.
GameAt ==
  /\ ppc \in {"reserve", "write"} => cur \in Requests /\ goal = "none"
  /\ goal \in {"space", "swap"} => cur \in Requests
  /\ goal = "swap" => cur.kind = "swap"
  /\ ppc \in Waiting \cup {"disarm"} => goal # "none"
  /\ ppc \in {"idle", "inline", "answer", "reseed", "stop"} => goal = "none"
  /\ ppc = "inline" =>
       Len(pending) = 1 /\ pending[1].id = made /\ pending[1].words = 0
  /\ ppc = "write" =>
       wpos + Pad(cur.words) + cur.words - tailSeen <= RingWords
  /\ ppc = "disarm" /\ goal = "space" =>
       wpos + Pad(cur.words) + cur.words - tailSeen <= RingWords
  /\ ppc = "disarm" /\ goal \in {"answer", "stop"} => tailSeen = wpos
  /\ ppc \in {"inline", "answer", "reseed", "stop"} => t = wpos
  /\ mode # "queued" => /\ t = wpos
                        /\ ppc \in {"idle", "inline"}
  /\ ppc = "inline" => mode # "queued"
  /\ ppc = "flush" /\ goal = "answer" => pub < wpos
  /\ \A i \in DOMAIN Queue :
       Queue[i].kind = "rpc" => goal = "answer" /\ i = Len(Queue)

\* What the render thread knows at each of its steps.
RenderAt ==
  /\ ringOk <=> cpc # "none"
  /\ mode = "queued" => ringOk
  /\ cpc \in {"fetch", "exec"} => h # t
  /\ cpc \in {"publish", "wake", "wakeClear", "wakeSignal"} /\ after = "fetch"
       => h # t
  /\ cpc = "exec" =>
       /\ Queue # <<>> /\ Queue[1].pos = t
       /\ rec = Word(Queue[1].id, Queue[1].kind, Queue[1].words)
  /\ cpc \in {"leaveRpc", "advance"} => rec.words \in 2 .. RecMax /\ Base <= h
  /\ cpc = "leaveRpc" => rec.kind = "rpc" /\ goal = "answer" /\ Queue = <<>>
  /\ inRpc <=> cpc \in {"exec", "leaveRpc"} /\ rec.kind = "rpc"

\* Calls run in the order of their numbers; the RPC the game thread waits for
\* is the last record, and once it has run its value is in its slot.
AnswerAt ==
  /\ \A i \in DOMAIN pending : pending[i].id = ran + i
  /\ goal = "answer" \/ ppc = "answer" =>
       IF Queue = <<>>
       THEN ring[Idx(slot + RpcWords - 1)] = Word(made, "value", 0)
       ELSE Queue[Len(Queue)].kind = "rpc" /\ Queue[Len(Queue)].pos = slot
  /\ ppc = "reseed" => got = made

\* A present the game thread has counted and not yet written.
PresentDue == cur.kind = "swap" /\ (ppc \in {"reserve", "write"} \/ goal = "space")

Presents == {i \in DOMAIN Queue : Queue[i].kind = "swap"}

\* At most one present is counted and not done: due or in the ring.
FramesAt ==
  /\ swapsQueued - swapsDone \in 0 .. 1
  /\ swapsQueued = swapsDone => Presents = {} /\ ~PresentDue
  /\ PresentDue => Presents = {}
  /\ \A i, j \in Presents : i = j
  /\ ppc = "disarm" /\ goal = "swap" => swapsDone >= swapsQueued

IInv == TypeOK /\ Chain /\ Cursors /\ GameAt /\ RenderAt
IInvMore == AnswerAt /\ FramesAt
=============================================================================
