------------------------------ MODULE BigPool ------------------------------
(***************************************************************************)
(* The pool for large blocks, loader/bigalloc.c.  A segment is tiled by    *)
(* blocks, each behind a header with its size and the size of the block    *)
(* before it; a block freed merges with the free blocks beside it.  Sizes  *)
(* and addresses are in units of the alignment, and the headers reached by *)
(* walking a segment from its base are the domain of blk[s]: that walking  *)
(* does reach them, and no other, is what Walk says.                       *)
(*                                                                         *)
(* Every operation runs under the pool's lock.  Requests near 2^32 are     *)
(* left out, and so is the free of an address inside a block.              *)
(***************************************************************************)
EXTENDS Integers, FiniteSets

CONSTANTS
  MaxSegs,   \* BIGALLOC_MAX_SEGS
  SegSize,   \* BIGALLOC_SEG_MB
  Header,    \* HDR_SZ
  MinSplit,  \* MIN_SPLIT
  MinBytes   \* BIGALLOC_MIN_BYTES

ASSUME PoolAssumption ==
  /\ MaxSegs \in Nat /\ Header \in Nat \ {0} /\ SegSize \in Nat /\ SegSize > Header
  /\ MinSplit \in Nat /\ MinSplit > Header
  /\ MinBytes \in Nat

VARIABLES
  nseg,  \* s_nseg
  blk    \* the headers of each segment, by address

pool == <<nseg, blk>>

Segs == 1 .. MaxSegs
Fresh == [a \in {0} |-> [size |-> SegSize, prev |-> 0, inuse |-> FALSE]]
NoBlocks == [a \in {} |-> a]

PoolInit ==
  /\ nseg = 0
  /\ blk = [s \in Segs |-> NoBlocks]

Need(n) == n + Header

-----------------------------------------------------------------------------
(* One segment's blocks, b.                                                *)

Next_hdr(b, a) == a + b[a].size

\* split, and the block is handed out; the block after the rest learns its size.
Split(b, a, need) ==
  LET rest == a + need
      left == b[a].size - need
  IN  [x \in DOMAIN b \cup {rest} |->
         IF x = a THEN [size |-> need, prev |-> b[a].prev, inuse |-> TRUE]
         ELSE IF x = rest THEN [size |-> left, prev |-> need, inuse |-> FALSE]
         ELSE IF x = Next_hdr(b, a) THEN [b[x] EXCEPT !.prev = left]
         ELSE b[x]]

Handed(b, a, need) ==
  IF b[a].size - need < MinSplit THEN [b EXCEPT ![a].inuse = TRUE] ELSE Split(b, a, need)

\* The block at x is swallowed by the one before it, at a.
Merged_noPrev(b, a, x) ==
  [y \in DOMAIN b \ {x} |-> IF y = a THEN [b[a] EXCEPT !.size = @ + b[x].size] ELSE b[y]]
Merged(b, a, x) ==
  [y \in DOMAIN b \ {x} |->
     IF y = a THEN [b[a] EXCEPT !.size = @ + b[x].size]
     ELSE IF y = Next_hdr(b, x) THEN [b[y] EXCEPT !.prev = b[a].size + b[x].size]
     ELSE b[y]]

Forward(b, a) ==
  LET nx == Next_hdr(b, a)
  IN  IF nx < SegSize /\ ~b[nx].inuse THEN Merged(b, a, nx) ELSE b

Backward(b, a) ==
  LET pv == a - b[a].prev
  IN  IF b[a].prev # 0 /\ ~b[pv].inuse THEN Merged(b, pv, a) ELSE b

Freed(b, a) == Backward(Forward([b EXCEPT ![a].inuse = FALSE], a), a)

-----------------------------------------------------------------------------
(* The pool.                                                               *)

Fits(k, b, need) ==
  {p \in (1 .. k) \X (0 .. SegSize - 1) :
     p[2] \in DOMAIN b[p[1]] /\ ~b[p[1]][p[2]].inuse /\ b[p[1]][p[2]].size >= need}

\* find_fit: the smallest of the blocks F that would do, the first of these.
Best(F, b, p) ==
  LET Size(q) == b[q[1]][q[2]].size
  IN  /\ p \in F
      /\ \A q \in F : \/ Size(p) < Size(q)
                      \/ /\ Size(p) = Size(q)
                         /\ p[1] < q[1] \/ (p[1] = q[1] /\ p[2] <= q[2])

\* take: block p, of the segments there are or, when none has room, of a new one.
takes(n, p) ==
  LET F == Fits(nseg, blk, Need(n))
  IN  \/ /\ Best(F, blk, p)
         /\ blk' = [blk EXCEPT ![p[1]] = Handed(@, p[2], Need(n))]
         /\ UNCHANGED nseg
      \/ /\ F = {}
         /\ nseg < MaxSegs /\ Need(n) <= SegSize
         /\ p = <<nseg + 1, 0>>
         /\ nseg' = nseg + 1
         /\ blk' = [blk EXCEPT ![nseg + 1] = Handed(Fresh, 0, Need(n))]

\* No room: no segment is left, the system has none, or a new one is too small too.
takeFails(n) ==
  /\ Fits(nseg, blk, Need(n)) = {}
  /\ \/ UNCHANGED pool
     \/ /\ nseg < MaxSegs /\ Need(n) > SegSize
        /\ nseg' = nseg + 1
        /\ blk' = [blk EXCEPT ![nseg + 1] = Fresh]

\* The blocks the pool has handed out.
Live(k, b) ==
  {p \in (1 .. k) \X (0 .. SegSize - 1) : p[2] \in DOMAIN b[p[1]] /\ b[p[1]][p[2]].inuse}

\* What is no block in use is refused: a double free.
bigfree(p) ==
  /\ blk' = IF p \in Live(nseg, blk) THEN [blk EXCEPT ![p[1]] = Freed(@, p[2])] ELSE blk
  /\ UNCHANGED nseg

-----------------------------------------------------------------------------
\* Walking a segment from its base meets every header and ends at its end, and the
\* size a header keeps of the block before it is that block's.
Walk(b) ==
  /\ 0 \in DOMAIN b
  /\ \A a \in DOMAIN b :
       /\ b[a].size > Header /\ Next_hdr(b, a) <= SegSize
       /\ \A x \in DOMAIN b : x > a => x >= Next_hdr(b, a)
       /\ Next_hdr(b, a) < SegSize =>
            Next_hdr(b, a) \in DOMAIN b /\ b[Next_hdr(b, a)].prev = b[a].size
       /\ IF a = 0 THEN b[a].prev = 0
          ELSE b[a].prev > 0 /\ a - b[a].prev \in DOMAIN b /\ Next_hdr(b, a - b[a].prev) = a

FreePair(b, a) ==
  ~b[a].inuse /\ Next_hdr(b, a) < SegSize /\ ~b[Next_hdr(b, a)].inuse

\* Blocks tile their segments, and what is free is in as large blocks as it can be:
\* no two of them are neighbours (split and bigfree, bigalloc.c:183-309).
PoolTiled ==
  \A s \in 1 .. nseg : Walk(blk[s]) /\ \A a \in DOMAIN blk[s] : ~FreePair(blk[s], a)
=============================================================================
