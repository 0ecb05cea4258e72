----------------------------- MODULE HeapProofs -----------------------------
(***************************************************************************)
(* For any threads, requests, assets and sizes of the pool and the cache:  *)
(* the pool's blocks tile its segments whatever operator new, realloc, the *)
(* cache and its purge do to it, the samples of the grain being mixed stay *)
(* where the mixer reads them, every block has one owner, and the cache's  *)
(* references and bytes are what its entries say.                          *)
(***************************************************************************)
EXTENDS Heap, Numbers, FiniteSetTheorems, TLAPS

-----------------------------------------------------------------------------
(* The pool (BigPool): whatever the number and size of its segments, the   *)
(* blocks tile them, and no two free blocks are neighbours.                *)

Blocks(b) ==
  /\ DOMAIN b \subseteq 0 .. SegSize - 1
  /\ b \in [DOMAIN b -> [size : Nat, prev : Nat, inuse : BOOLEAN]]

Whole(b) == Blocks(b) /\ Walk(b) /\ \A a \in DOMAIN b : ~FreePair(b, a)

\* The headers of a segment are records at places in it.
LEMMA BlockFacts ==
  ASSUME NEW b, Blocks(b), NEW a \in DOMAIN b
  PROVE  /\ a \in Nat /\ a < SegSize
         /\ b[a] = [size |-> b[a].size, prev |-> b[a].prev, inuse |-> b[a].inuse]
         /\ b[a].size \in Nat /\ b[a].prev \in Nat /\ b[a].inuse \in BOOLEAN
         /\ Next_hdr(b, a) = a + b[a].size
<1>1. b[a] \in [size : Nat, prev : Nat, inuse : BOOLEAN] /\ a \in 0 .. SegSize - 1
  BY DEF Blocks
<1> QED BY <1>1, PoolAssumption DEF Next_hdr

-----------------------------------------------------------------------------
(* Handing a block out.                                                    *)

\* What Walk says of one header.
Good(b, x) ==
  /\ b[x].size > Header /\ Next_hdr(b, x) <= SegSize
  /\ \A y \in DOMAIN b : y > x => y >= Next_hdr(b, x)
  /\ Next_hdr(b, x) < SegSize =>
       Next_hdr(b, x) \in DOMAIN b /\ b[Next_hdr(b, x)].prev = b[x].size
  /\ IF x = 0 THEN b[x].prev = 0
     ELSE b[x].prev > 0 /\ x - b[x].prev \in DOMAIN b /\ Next_hdr(b, x - b[x].prev) = x

LEMMA WalkIsGood ==
  ASSUME NEW b
  PROVE  Walk(b) <=> 0 \in DOMAIN b /\ \A x \in DOMAIN b : Good(b, x)
BY DEF Walk, Good

LEMMA SplitKeeps ==
  ASSUME NEW b, Whole(b), NEW a \in DOMAIN b, ~b[a].inuse, NEW need \in Nat,
         need > Header, b[a].size - need >= MinSplit
  PROVE  Whole(Split(b, a, need))
<1> DEFINE c == Split(b, a, need)
           rest == a + need
           left == b[a].size - need
           end == a + b[a].size
<1>1. Blocks(b) /\ Walk(b) /\ (\A x \in DOMAIN b : ~FreePair(b, x))
  BY DEF Whole
<1>b. /\ 0 \in DOMAIN b
      /\ \A x \in DOMAIN b : Good(b, x)
  BY <1>1, WalkIsGood
<1>t. \A x \in DOMAIN b : /\ x \in Nat /\ x < SegSize /\ b[x].size \in Nat /\ b[x].prev \in Nat
                          /\ b[x].inuse \in BOOLEAN /\ Next_hdr(b, x) = x + b[x].size
  BY <1>1, BlockFacts
<1>2. /\ SegSize \in Nat /\ Header \in Nat \ {0} /\ MinSplit \in Nat /\ MinSplit > Header
      /\ a \in Nat /\ b[a].size \in Nat /\ b[a].prev \in Nat
  BY <1>1, BlockFacts, PoolAssumption
<1>3. /\ left \in Nat /\ left > Header /\ rest \in Nat /\ a < rest /\ rest < end /\ end <= SegSize
      /\ end = Next_hdr(b, a) /\ end = rest + left /\ end \in Nat
  BY <1>b, <1>2, <1>t DEF Good
<1>4. DOMAIN c = DOMAIN b \cup {rest}
  BY DEF Split
<1>5. rest \notin DOMAIN b
  BY <1>b, <1>3 DEF Good
<1>6. c[a] = [size |-> need, prev |-> b[a].prev, inuse |-> TRUE]
  BY DEF Split
<1>7. c[rest] = [size |-> left, prev |-> need, inuse |-> FALSE]
  BY <1>3, <1>4 DEF Split
<1>8. \A x \in DOMAIN b : x # a /\ x # end => c[x] = b[x]
  BY <1>3, <1>5 DEF Split
<1>9. end \in DOMAIN b => c[end] = [size |-> b[end].size, prev |-> left, inuse |-> b[end].inuse]
  <2> SUFFICES ASSUME end \in DOMAIN b PROVE c[end] = [size |-> b[end].size, prev |-> left, inuse |-> b[end].inuse]
    OBVIOUS
  <2>1. c[end] = [b[end] EXCEPT !.prev = left]
    BY <1>2, <1>3, <1>5 DEF Split
  <2>2. b[end] = [size |-> b[end].size, prev |-> b[end].prev, inuse |-> b[end].inuse]
    BY <1>1, BlockFacts
  <2> QED BY ONLY <2>1, <2>2
<1>f. c = [x \in DOMAIN c |-> c[x]]
  BY DEF Split
<1> HIDE DEF c
<1>11. ASSUME NEW x \in DOMAIN b
       PROVE /\ c[x].inuse = IF x = a THEN TRUE ELSE b[x].inuse
             /\ c[x].size = IF x = a THEN need ELSE b[x].size
             /\ c[x].prev = IF x = end THEN left ELSE b[x].prev
  <2>0. a # end
    BY ONLY <1>2, <1>3
  <2>1. CASE x = a
    BY ONLY <2>1, <1>6, <2>0
  <2>2. CASE x = end
    <3>1. end \in DOMAIN b BY <2>2
    <3>2. c[x] = [size |-> b[x].size, prev |-> left, inuse |-> b[x].inuse]
      BY <3>1, <1>9, <2>2
    <3>3. c[x].size = b[x].size /\ c[x].prev = left /\ c[x].inuse = b[x].inuse
      BY ONLY <3>2
    <3> QED BY ONLY <3>3, <2>0, <2>2
  <2>3. CASE x # a /\ x # end
    BY ONLY <2>3, <1>8, <1>11
  <2> QED BY <2>1, <2>2, <2>3
<1>12. c[rest].size = left /\ c[rest].prev = need /\ c[rest].inuse = FALSE
  BY ONLY <1>7
<1> HIDE DEF left, rest, end
<1>n. \A x \in DOMAIN b : Next_hdr(c, x) = IF x = a THEN rest ELSE Next_hdr(b, x)
  <2> TAKE x \in DOMAIN b
  <2>1. c[x].size = IF x = a THEN need ELSE b[x].size
    BY <1>11
  <2> QED BY <2>1, <1>t DEF Next_hdr, rest
<1>m. Next_hdr(c, rest) = end
  BY <1>12, <1>3 DEF Next_hdr
<1>10. Blocks(c)
  <2>1. DOMAIN c \subseteq 0 .. SegSize - 1
    BY <1>1, <1>2, <1>3, <1>4 DEF Blocks
  <2>3. ASSUME NEW x \in DOMAIN c PROVE c[x] \in [size : Nat, prev : Nat, inuse : BOOLEAN]
    <3>1. CASE x = a
      BY ONLY <3>1, <1>6, <1>2, need \in Nat
    <3>2. CASE x = rest
      BY ONLY <3>2, <1>7, <1>3, need \in Nat
    <3>3. CASE x = end /\ x # rest
      BY ONLY <3>3, <2>3, <1>4, <1>9, <1>3, <1>t
    <3>4. CASE x # a /\ x # rest /\ x # end
      <4>1. c[x] = b[x] /\ x \in DOMAIN b
        BY ONLY <3>4, <2>3, <1>4, <1>8
      <4> QED BY <4>1, <1>1 DEF Blocks
    <3> QED BY <3>1, <3>2, <3>3, <3>4
  <2> QED BY ONLY <2>1, <2>3, <1>f DEF Blocks
<1>13. Walk(c)
  <2>1. 0 \in DOMAIN c
    BY <1>b, <1>4
  <2>o. \A x \in DOMAIN b : x < a => Next_hdr(b, x) <= a
    BY <1>b DEF Good
  <2>g. \A x \in DOMAIN b : x > a => x >= end
    BY <1>b, <1>3 DEF Good
  <2>2. ASSUME NEW x \in DOMAIN c PROVE Good(c, x)
    <3>1. CASE x = a
      <4>1. c[x].size = need /\ c[x].prev = b[x].prev /\ Next_hdr(c, x) = rest
        BY ONLY <3>1, <1>6, <1>n, a \in DOMAIN b
      <4>2. \A y \in DOMAIN c : y > x => y >= rest
        BY ONLY <3>1, <1>4, <2>g, <1>3, <1>t
      <4>3. IF x = 0 THEN c[x].prev = 0
            ELSE c[x].prev > 0 /\ x - c[x].prev \in DOMAIN c /\ Next_hdr(c, x - c[x].prev) = x
        <5>1. Good(b, a) BY <1>b
        <5> QED BY <5>1, <3>1, <4>1, <1>n, <1>4, <1>2 DEF Good
      <4> QED BY ONLY <3>1, <4>1, <4>2, <4>3, <1>3, <1>4, <1>12, <1>2, need > Header DEF Good
    <3>2. CASE x = rest
      <4>1. \A y \in DOMAIN c : y > x => y >= end
        BY ONLY <3>2, <1>4, <2>g, <1>3, <1>t
      <4>2. end < SegSize => end \in DOMAIN b
        <5>1. Good(b, a) BY <1>b
        <5> QED BY <5>1, <1>3 DEF Good
      <4>3. end < SegSize => end \in DOMAIN c /\ c[end].prev = left
        BY ONLY <4>2, <1>11, <1>4
      <4>4. rest # 0 /\ rest - need = a
        BY <1>3, <1>2 DEF rest
      <4>5. a \in DOMAIN c /\ Next_hdr(c, a) = rest
        BY <1>4, <1>n
      <4> QED BY ONLY <3>2, <4>1, <4>3, <4>4, <4>5, <1>3, <1>m, <1>12, <1>2, need > Header, need \in Nat DEF Good
    <3>3. CASE x # a /\ x # rest
      <4>0. x \in DOMAIN b /\ Good(b, x)
        BY ONLY <3>3, <2>2, <1>4, <1>b
      <4>1. c[x].size = b[x].size /\ Next_hdr(c, x) = Next_hdr(b, x) /\ Next_hdr(b, x) # end
        <5>1. c[x].size = b[x].size /\ Next_hdr(c, x) = Next_hdr(b, x)
          BY ONLY <3>3, <4>0, <1>11, <1>n
        <5>2. Next_hdr(b, x) > x
          BY ONLY <4>0, <1>t, <1>2 DEF Good
        <5>3. CASE x < a
          BY ONLY <5>3, <5>1, <4>0, <2>o, <1>3, <1>2, <1>t
        <5>4. CASE x > a
          BY ONLY <5>4, <5>1, <5>2, <4>0, <2>g, <1>3, <1>2, <1>t
        <5> QED BY ONLY <5>3, <5>4, <3>3, <4>0, <1>t, <1>2
      <4>2. \A y \in DOMAIN c : y > x => y >= Next_hdr(b, x)
        <5>1. \A y \in DOMAIN b : y > x => y >= Next_hdr(b, x)
          BY <4>0 DEF Good
        <5>2. rest > x => rest >= Next_hdr(b, x)
          BY ONLY <4>0, <3>3, <2>o, <2>g, <1>2, <1>3, <1>t, <5>1, a \in DOMAIN b
        <5> QED BY ONLY <5>1, <5>2, <1>4
      <4>3. Next_hdr(c, x) < SegSize =>
              Next_hdr(c, x) \in DOMAIN c /\ c[Next_hdr(c, x)].prev = c[x].size
        <5> SUFFICES ASSUME Next_hdr(c, x) < SegSize
                     PROVE  Next_hdr(c, x) \in DOMAIN c /\ c[Next_hdr(c, x)].prev = c[x].size
          OBVIOUS
        <5>1. Next_hdr(b, x) \in DOMAIN b /\ b[Next_hdr(b, x)].prev = b[x].size
          BY <4>0, <4>1 DEF Good
        <5> QED BY ONLY <5>1, <4>1, <1>11, <1>4
      <4>4. IF x = 0 THEN c[x].prev = 0
            ELSE c[x].prev > 0 /\ x - c[x].prev \in DOMAIN c /\ Next_hdr(c, x - c[x].prev) = x
        <5>1. CASE x = end
          <6>1. c[x].prev = left /\ end - left = rest
            <7>1. c[x].prev = left
              BY <5>1, <4>0, <1>11
            <7> QED BY ONLY <7>1, <1>3
          <6> QED BY ONLY <6>1, <5>1, <1>3, <1>4, <1>m
        <5>2. CASE x # end
          <6>1. c[x].prev = b[x].prev
            BY ONLY <5>2, <4>0, <1>11
          <6>2. x # 0 => /\ b[x].prev > 0 /\ x - b[x].prev \in DOMAIN b
                         /\ Next_hdr(b, x - b[x].prev) = x /\ x - b[x].prev # a
            BY ONLY <4>0, <5>2, <1>3 DEF Good
          <6>3. x = 0 => b[x].prev = 0
            BY ONLY <4>0 DEF Good
          <6> QED BY ONLY <6>1, <6>2, <6>3, <1>n, <1>4
        <5> QED BY <5>1, <5>2
      <4> QED BY ONLY <4>0, <4>1, <4>2, <4>3, <4>4 DEF Good
    <3> QED BY <3>1, <3>2, <3>3
  <2> QED BY ONLY <2>1, <2>2, WalkIsGood
<1>14. ASSUME NEW x \in DOMAIN c, FreePair(c, x) PROVE FALSE
  <2>1. CASE x = a
    BY ONLY <2>1, <1>14, <1>6 DEF FreePair
  <2>2. CASE x = rest
    <3>1. end < SegSize /\ ~c[end].inuse
      BY ONLY <2>2, <1>14, <1>m DEF FreePair
    <3>2. end \in DOMAIN b
      <4>1. Good(b, a) BY <1>b
      <4> QED BY ONLY <4>1, <3>1, <1>3 DEF Good
    <3>3. ~b[end].inuse
      BY ONLY <3>1, <3>2, <1>11, <1>3, <1>2
    <3>4. FreePair(b, a)
      BY ONLY <3>1, <3>3, <1>3, ~b[a].inuse DEF FreePair
    <3> QED BY <3>4, <1>1
  <2>3. CASE x # a /\ x # rest
    <3>0. x \in DOMAIN b /\ ~b[x].inuse /\ Next_hdr(b, x) < SegSize /\ ~c[Next_hdr(b, x)].inuse
      BY ONLY <2>3, <1>14, <1>4, <1>11, <1>n DEF FreePair
    <3>1. Next_hdr(b, x) \in DOMAIN b
      BY <3>0, <1>b DEF Good
    <3>2. ~b[Next_hdr(b, x)].inuse
      BY ONLY <3>0, <3>1, <1>11, ~b[a].inuse
    <3>3. FreePair(b, x)
      BY ONLY <3>0, <3>2 DEF FreePair
    <3> QED BY <3>0, <3>3, <1>1
  <2> QED BY <2>1, <2>2, <2>3
<1> QED BY <1>10, <1>13, <1>14 DEF Whole, c
\* Marking a block handed out or free moves no header.
LEMMA MarkKeeps ==
  ASSUME NEW b, Blocks(b), Walk(b), NEW a \in DOMAIN b, NEW u \in BOOLEAN
  PROVE  LET c == [b EXCEPT ![a].inuse = u]
         IN  /\ Blocks(c) /\ Walk(c) /\ DOMAIN c = DOMAIN b
             /\ \A x \in DOMAIN b : /\ Next_hdr(c, x) = Next_hdr(b, x)
                                    /\ c[x].inuse = IF x = a THEN u ELSE b[x].inuse
<1> DEFINE c == [b EXCEPT ![a].inuse = u]
<1>0. \A x \in DOMAIN b : b[x] = [size |-> b[x].size, prev |-> b[x].prev, inuse |-> b[x].inuse]
                          /\ b[x].size \in Nat /\ b[x].prev \in Nat /\ b[x].inuse \in BOOLEAN
  BY BlockFacts
<1>1. DOMAIN c = DOMAIN b /\ c[a] = [b[a] EXCEPT !.inuse = u] /\ c = [x \in DOMAIN c |-> c[x]]
  OBVIOUS
<1>2. \A x \in DOMAIN b : x # a => c[x] = b[x]
  OBVIOUS
<1> HIDE DEF c
<1>3. c[a] = [size |-> b[a].size, prev |-> b[a].prev, inuse |-> u]
  BY ONLY <1>0, <1>1, a \in DOMAIN b
<1>4. ASSUME NEW x \in DOMAIN b
      PROVE  /\ c[x].size = b[x].size /\ c[x].prev = b[x].prev
             /\ c[x].inuse = IF x = a THEN u ELSE b[x].inuse
             /\ c[x] \in [size : Nat, prev : Nat, inuse : BOOLEAN]
  <2>1. CASE x = a
    BY ONLY <2>1, <1>3, <1>0, a \in DOMAIN b, u \in BOOLEAN
  <2>2. CASE x # a
    <3>1. c[x] = b[x] /\ b[x] \in [size : Nat, prev : Nat, inuse : BOOLEAN]
      BY <2>2, <1>2 DEF Blocks
    <3> QED BY ONLY <3>1, <2>2
  <2> QED BY <2>1, <2>2
<1>5. \A x \in DOMAIN b : Next_hdr(c, x) = Next_hdr(b, x)
  BY <1>4 DEF Next_hdr
<1>6. Blocks(c)
  BY <1>1, <1>4 DEF Blocks
<1>7. ASSUME NEW x \in DOMAIN b PROVE Good(c, x)
  <2>1. Good(b, x)
    BY WalkIsGood
  <2> QED BY <2>1, <1>1, <1>4, <1>5 DEF Good
<1>8. 0 \in DOMAIN c
  BY <1>1, WalkIsGood
<1>9. Walk(c)
  BY ONLY <1>7, <1>8, <1>1, WalkIsGood
<1> QED BY <1>1, <1>4, <1>5, <1>6, <1>9 DEF c

LEMMA HandedKeeps ==
  ASSUME NEW b, Whole(b), NEW a \in DOMAIN b, ~b[a].inuse, NEW need \in Nat,
         need > Header, b[a].size >= need
  PROVE  Whole(Handed(b, a, need))
<1>1. CASE b[a].size - need < MinSplit
  <2> DEFINE c == [b EXCEPT ![a].inuse = TRUE]
  <2>1. /\ Blocks(c) /\ Walk(c) /\ DOMAIN c = DOMAIN b
        /\ \A x \in DOMAIN b : /\ Next_hdr(c, x) = Next_hdr(b, x)
                               /\ c[x].inuse = IF x = a THEN TRUE ELSE b[x].inuse
    BY MarkKeeps DEF Whole
  <2>2. Handed(b, a, need) = c
    BY <1>1 DEF Handed
  <2> HIDE DEF c
  <2>3. ASSUME NEW x \in DOMAIN c, FreePair(c, x) PROVE FALSE
    <3>1. /\ x \in DOMAIN b /\ ~b[x].inuse
          /\ Next_hdr(b, x) < SegSize /\ ~c[Next_hdr(b, x)].inuse
      BY <2>3, <2>1 DEF FreePair
    <3>2. Next_hdr(b, x) \in DOMAIN b
      BY <3>1, WalkIsGood DEF Whole, Good
    <3>3. ~b[Next_hdr(b, x)].inuse
      BY ONLY <3>1, <3>2, <2>1, ~b[a].inuse
    <3> QED BY <3>1, <3>3 DEF Whole, FreePair
  <2> QED BY <2>1, <2>2, <2>3 DEF Whole
<1>2. CASE ~(b[a].size - need < MinSplit)
  <2>1. b[a].size \in Nat
    BY BlockFacts DEF Whole
  <2>2. b[a].size - need >= MinSplit
    BY ONLY <2>1, <1>2, PoolAssumption, need \in Nat
  <2>3. Whole(Split(b, a, need))
    BY ONLY <2>2, SplitKeeps, Whole(b), a \in DOMAIN b, ~b[a].inuse, need \in Nat, need > Header
  <2> QED BY <2>3, <1>2 DEF Handed
<1> QED BY <1>1, <1>2

-----------------------------------------------------------------------------
(* Taking a block back.                                                    *)

LEMMA MergedKeeps ==
  ASSUME NEW b, Blocks(b), Walk(b), NEW a \in DOMAIN b, NEW x, x = Next_hdr(b, a), x < SegSize
  PROVE  LET c == Merged(b, a, x)
         IN  /\ Blocks(c) /\ Walk(c) /\ DOMAIN c = DOMAIN b \ {x} /\ a # x /\ x \in DOMAIN b
             /\ \A y \in DOMAIN c :
                  /\ Next_hdr(c, y) = IF y = a THEN Next_hdr(b, x) ELSE Next_hdr(b, y)
                  /\ c[y].inuse = b[y].inuse
<1> DEFINE c == Merged(b, a, x)
           sum == b[a].size + b[x].size
           end == Next_hdr(b, x)
<1>b. /\ 0 \in DOMAIN b
      /\ \A y \in DOMAIN b : Good(b, y)
  BY WalkIsGood
<1>t. \A y \in DOMAIN b : /\ y \in Nat /\ y < SegSize /\ b[y].size \in Nat /\ b[y].prev \in Nat
                          /\ b[y].inuse \in BOOLEAN /\ Next_hdr(b, y) = y + b[y].size
                          /\ b[y] = [size |-> b[y].size, prev |-> b[y].prev, inuse |-> b[y].inuse]
  BY BlockFacts
<1>2. SegSize \in Nat /\ Header \in Nat \ {0}
  BY PoolAssumption
<1>3. x \in DOMAIN b /\ b[x].prev = b[a].size
  BY <1>b DEF Good
<1>4. /\ a \in Nat /\ x \in Nat /\ end \in Nat /\ sum \in Nat /\ a < x /\ x < end /\ end <= SegSize
      /\ x = a + b[a].size /\ end = x + b[x].size /\ end = a + sum /\ sum > Header
  BY <1>b, <1>t, <1>2, <1>3 DEF Good
<1>5. DOMAIN c = DOMAIN b \ {x} /\ c = [y \in DOMAIN c |-> c[y]]
  BY DEF Merged
<1>6. c[a] = [size |-> sum, prev |-> b[a].prev, inuse |-> b[a].inuse]
  <2>1. c[a] = [b[a] EXCEPT !.size = b[a].size + b[x].size]
    BY <1>4 DEF Merged
  <2> HIDE DEF c
  <2>2. b[a] = [size |-> b[a].size, prev |-> b[a].prev, inuse |-> b[a].inuse]
    BY <1>t
  <2> QED BY ONLY <2>1, <2>2
<1>7. end \in DOMAIN b => c[end] = [size |-> b[end].size, prev |-> sum, inuse |-> b[end].inuse]
  <2> SUFFICES ASSUME end \in DOMAIN b
               PROVE  c[end] = [size |-> b[end].size, prev |-> sum, inuse |-> b[end].inuse]
    OBVIOUS
  <2>1. c[end] = [b[end] EXCEPT !.prev = b[a].size + b[x].size]
    BY <1>4 DEF Merged
  <2> HIDE DEF c
  <2>2. b[end] = [size |-> b[end].size, prev |-> b[end].prev, inuse |-> b[end].inuse]
    BY <1>t
  <2> QED BY ONLY <2>1, <2>2
<1>8. \A y \in DOMAIN b : y # a /\ y # x /\ y # end => c[y] = b[y]
  BY <1>4 DEF Merged
<1> HIDE DEF c
<1>9. ASSUME NEW y \in DOMAIN c
      PROVE  /\ c[y].size = IF y = a THEN sum ELSE b[y].size
             /\ c[y].prev = IF y = end THEN sum ELSE b[y].prev
             /\ c[y].inuse = b[y].inuse
             /\ c[y] \in [size : Nat, prev : Nat, inuse : BOOLEAN]
             /\ y \in DOMAIN b /\ y # x
  <2>0. y \in DOMAIN b /\ y # x /\ a # end
    BY ONLY <1>5, <1>4, y \in DOMAIN c
  <2>1. CASE y = a
    <3>1. c[y].size = sum /\ c[y].prev = b[y].prev /\ c[y].inuse = b[y].inuse
      BY ONLY <2>1, <1>6
    <3>2. c[y] \in [size : Nat, prev : Nat, inuse : BOOLEAN]
      BY ONLY <2>1, <2>0, <1>6, <1>4, <1>t
    <3> QED BY ONLY <2>0, <2>1, <3>1, <3>2
  <2>2. CASE y = end
    <3>0. c[y] = [size |-> b[y].size, prev |-> sum, inuse |-> b[y].inuse]
      BY <2>2, <2>0, <1>7
    <3>1. c[y].size = b[y].size /\ c[y].prev = sum /\ c[y].inuse = b[y].inuse
      BY ONLY <3>0
    <3>2. c[y] \in [size : Nat, prev : Nat, inuse : BOOLEAN]
      BY ONLY <2>0, <3>0, <1>4, <1>t
    <3> QED BY ONLY <2>0, <2>2, <3>1, <3>2
  <2>3. CASE y # a /\ y # end
    <3>1. c[y] = b[y] /\ b[y] \in [size : Nat, prev : Nat, inuse : BOOLEAN]
      BY <2>0, <2>3, <1>8 DEF Blocks
    <3> QED BY ONLY <2>0, <2>3, <3>1
  <2> QED BY <2>1, <2>2, <2>3
<1>n. \A y \in DOMAIN c : Next_hdr(c, y) = IF y = a THEN end ELSE Next_hdr(b, y)
  <2> TAKE y \in DOMAIN c
  <2>1. c[y].size = IF y = a THEN sum ELSE b[y].size
    BY <1>9
  <2>2. y \in DOMAIN b
    BY <1>9
  <2> HIDE DEF sum, end
  <2> QED BY <2>1, <2>2, <1>t, <1>4 DEF Next_hdr
<1>10. Blocks(c)
  <2>1. DOMAIN c \subseteq 0 .. SegSize - 1
    BY <1>5 DEF Blocks
  <2> QED BY ONLY <2>1, <1>5, <1>9 DEF Blocks
<1> HIDE DEF sum, end
<1>a. a \in DOMAIN c
  BY ONLY <1>5, <1>4, a \in DOMAIN b
<1>g. \A y \in DOMAIN b : (y < x => Next_hdr(b, y) <= x) /\ (y > x => y >= end)
                          /\ (y < a => Next_hdr(b, y) <= a) /\ (y > a => y >= x)
  BY <1>b, <1>3 DEF Good, end
<1>11. ASSUME NEW y \in DOMAIN c PROVE Good(c, y)
  <2>0. y \in DOMAIN b /\ y # x /\ Good(b, y)
    BY <1>9, <1>b
  <2>1. CASE y = a
    <3>1. c[y].size = sum /\ c[y].prev = b[y].prev /\ Next_hdr(c, y) = end
      BY ONLY <2>1, <1>6, <1>n, <1>a
    <3>2. \A z \in DOMAIN c : z > y => z >= end
      BY ONLY <2>1, <1>5, <1>g, <1>t, <1>4
    <3>3. end < SegSize => end \in DOMAIN c /\ c[end].prev = sum
      <4>1. Good(b, x) BY <1>b, <1>3
      <4>2. end < SegSize => end \in DOMAIN b
        BY ONLY <4>1 DEF Good, end
      <4>3. end \in DOMAIN b => end \in DOMAIN c
        BY ONLY <1>5, <1>4
      <4> QED BY <4>2, <4>3, <1>9
    <3>4. IF y = 0 THEN c[y].prev = 0
          ELSE c[y].prev > 0 /\ y - c[y].prev \in DOMAIN c /\ Next_hdr(c, y - c[y].prev) = y
      <4>1. y # 0 => /\ b[y].prev > 0 /\ y - b[y].prev \in DOMAIN b
                     /\ Next_hdr(b, y - b[y].prev) = y
        BY ONLY <2>0 DEF Good
      <4>2. y = 0 => b[y].prev = 0
        BY ONLY <2>0 DEF Good
      <4>3. y # 0 => y - b[y].prev # a /\ y - b[y].prev # x
        BY ONLY <4>1, <2>0, <2>1, <1>t, <1>4
      <4> QED BY ONLY <4>1, <4>2, <4>3, <3>1, <1>5, <1>n
    <3> QED BY ONLY <2>1, <3>1, <3>2, <3>3, <3>4, <1>4 DEF Good
  <2>2. CASE y # a
    <3>1. c[y].size = b[y].size /\ Next_hdr(c, y) = Next_hdr(b, y)
      BY ONLY <2>2, <1>9, <1>n, y \in DOMAIN c
    <3>2. Next_hdr(b, y) # x
      <4>1. CASE Next_hdr(b, y) = x
        <5>1. b[x].prev = b[y].size
          BY ONLY <4>1, <2>0, x < SegSize DEF Good
        <5>2. x = y + b[y].size /\ x = a + b[a].size
          BY ONLY <4>1, <2>0, <1>t, <1>4
        <5> QED BY ONLY <5>1, <5>2, <1>3, <1>t, <2>0, <2>2, <1>4, a \in DOMAIN b
      <4> QED BY <4>1
    <3>3. \A z \in DOMAIN c : z > y => z >= Next_hdr(b, y)
      BY ONLY <2>0, <1>5 DEF Good
    <3>4. Next_hdr(c, y) < SegSize =>
            Next_hdr(c, y) \in DOMAIN c /\ c[Next_hdr(c, y)].prev = c[y].size
      <4> SUFFICES ASSUME Next_hdr(c, y) < SegSize
                   PROVE  Next_hdr(c, y) \in DOMAIN c /\ c[Next_hdr(c, y)].prev = c[y].size
        OBVIOUS
      <4>1. Next_hdr(b, y) \in DOMAIN c /\ b[Next_hdr(b, y)].prev = b[y].size
        BY <2>0, <3>1, <3>2, <1>5 DEF Good
      <4>2. Next_hdr(b, y) # end
        <5>1. CASE y < x
          BY ONLY <5>1, <2>0, <1>g, <1>t, <1>4
        <5>2. CASE y > x
          BY ONLY <5>2, <2>0, <1>g, <1>t, <1>4, <1>2 DEF Good
        <5> QED BY ONLY <5>1, <5>2, <2>0, <1>t, <1>4
      <4>3. c[Next_hdr(b, y)].prev = b[Next_hdr(b, y)].prev
        BY ONLY <4>1, <4>2, <1>9
      <4> QED BY ONLY <4>1, <4>3, <3>1
    <3>5. IF y = 0 THEN c[y].prev = 0
          ELSE c[y].prev > 0 /\ y - c[y].prev \in DOMAIN c /\ Next_hdr(c, y - c[y].prev) = y
      <4>1. CASE y = end
        <5>1. c[y].prev = sum
          BY ONLY <4>1, <1>9, y \in DOMAIN c
        <5>2. y - sum = a /\ y # 0
          BY ONLY <4>1, <1>4
        <5> QED BY ONLY <5>1, <5>2, <1>n, <1>a, <4>1, <1>4, <1>2
      <4>2. CASE y # end
        <5>1. c[y].prev = b[y].prev
          BY ONLY <4>2, <1>9, y \in DOMAIN c
        <5>2. y # 0 => /\ b[y].prev > 0 /\ y - b[y].prev \in DOMAIN b
                       /\ Next_hdr(b, y - b[y].prev) = y /\ y - b[y].prev # a /\ y - b[y].prev # x
          BY ONLY <2>0, <4>2, x = Next_hdr(b, a) DEF Good, end
        <5>3. y = 0 => b[y].prev = 0
          BY ONLY <2>0 DEF Good
        <5> QED BY ONLY <5>1, <5>2, <5>3, <1>n, <1>5
      <4> QED BY <4>1, <4>2
    <3> QED BY ONLY <2>0, <3>1, <3>3, <3>4, <3>5 DEF Good
  <2> QED BY <2>1, <2>2
<1>12. Walk(c)
  <2>1. 0 \in DOMAIN c
    BY ONLY <1>b, <1>5, <1>4
  <2> QED BY ONLY <2>1, <1>11, WalkIsGood
<1>13. \A y \in DOMAIN c : c[y].inuse = b[y].inuse
  BY <1>9
<1>14. a # x
  BY ONLY <1>4
<1> QED BY <1>10, <1>12, <1>5, <1>14, <1>3, <1>n, <1>13 DEF c, end
LEMMA FreedKeeps ==
  ASSUME NEW b, Whole(b), NEW a \in DOMAIN b
  PROVE  Whole(Freed(b, a))
<1>1. PICK m : m = [b EXCEPT ![a].inuse = FALSE]
  OBVIOUS
<1>2. /\ Blocks(m) /\ Walk(m) /\ DOMAIN m = DOMAIN b
      /\ \A x \in DOMAIN b : /\ Next_hdr(m, x) = Next_hdr(b, x)
                             /\ m[x].inuse = IF x = a THEN FALSE ELSE b[x].inuse
  BY <1>1, MarkKeeps DEF Whole
\* Only the freed block may now be one of two free neighbours.
<1>3. ASSUME NEW x \in DOMAIN m, FreePair(m, x), x # a
      PROVE  Next_hdr(m, x) = a
  <2>1. Next_hdr(b, x) \in DOMAIN b
    BY <1>2, <1>3, WalkIsGood DEF FreePair, Good
  <2> QED BY <2>1, <1>2, <1>3 DEF FreePair, Whole
<1>4. PICK f : f = Forward(m, a)
  OBVIOUS
<1>5. /\ Blocks(f) /\ Walk(f) /\ a \in DOMAIN f /\ ~f[a].inuse
      /\ \A x \in DOMAIN f : FreePair(f, x) => Next_hdr(f, x) = a
  <2> DEFINE nx == Next_hdr(m, a)
  <2>1. CASE nx < SegSize /\ ~m[nx].inuse
    <3>1. f = Merged(m, a, nx)
      BY <1>4, <2>1 DEF Forward
    <3>2. /\ Blocks(f) /\ Walk(f) /\ DOMAIN f = DOMAIN m \ {nx} /\ a # nx /\ nx \in DOMAIN m
          /\ \A y \in DOMAIN f : /\ Next_hdr(f, y) = IF y = a THEN Next_hdr(m, nx) ELSE Next_hdr(m, y)
                                 /\ f[y].inuse = m[y].inuse
      BY <1>2, <2>1, <3>1, MergedKeeps
    <3> HIDE DEF nx
    <3>3. ASSUME NEW x \in DOMAIN f, FreePair(f, x) PROVE Next_hdr(f, x) = a
      <4>1. Next_hdr(f, x) \in DOMAIN f /\ Next_hdr(f, x) \in DOMAIN m
        BY <3>2, <3>3, WalkIsGood DEF Good, FreePair
      <4>2. CASE x = a
        <5>1. FreePair(m, nx)
          BY ONLY <4>2, <2>1, <3>2, <3>3, <4>1 DEF FreePair
        <5>2. Next_hdr(m, nx) = a
          BY ONLY <5>1, <3>2, <1>3
        <5> QED BY ONLY <5>2, <4>2, <3>2
      <4>3. CASE x # a
        <5>1. FreePair(m, x) /\ x \in DOMAIN m /\ Next_hdr(f, x) = Next_hdr(m, x)
          BY ONLY <4>3, <3>2, <3>3, <4>1 DEF FreePair
        <5> QED BY ONLY <5>1, <4>3, <1>3
      <4> QED BY <4>2, <4>3
    <3> QED BY <3>2, <3>3, <1>2
  <2>2. CASE ~(nx < SegSize /\ ~m[nx].inuse)
    <3>1. f = m
      BY <1>4, <2>2 DEF Forward
    <3>2. ~FreePair(m, a)
      BY <2>2 DEF FreePair
    <3> QED BY <3>1, <3>2, <1>2, <1>3
  <2> QED BY <2>1, <2>2
<1>6. PICK c : c = Backward(f, a)
  OBVIOUS
<1>7. Freed(b, a) = c
  BY <1>1, <1>4, <1>6 DEF Freed
<1> DEFINE pv == a - f[a].prev
<1>8. /\ a \in Nat /\ f[a].prev \in Nat
      /\ f[a].prev # 0 => pv \in DOMAIN f /\ Next_hdr(f, pv) = a /\ a # 0
      /\ a < SegSize /\ SegSize \in Nat
  <2>1. Good(f, a)
    BY <1>5, WalkIsGood
  <2> QED BY <2>1, <1>5, BlockFacts, PoolAssumption DEF Good
<1>9. CASE f[a].prev # 0 /\ ~f[pv].inuse
  <2>1. c = Merged(f, pv, a)
    BY <1>6, <1>9 DEF Backward
  <2>2. /\ Blocks(c) /\ Walk(c) /\ DOMAIN c = DOMAIN f \ {a} /\ pv # a
        /\ \A y \in DOMAIN c : /\ Next_hdr(c, y) = IF y = pv THEN Next_hdr(f, a) ELSE Next_hdr(f, y)
                               /\ c[y].inuse = f[y].inuse
    <3>1. Blocks(f) /\ Walk(f) /\ pv \in DOMAIN f /\ a = Next_hdr(f, pv) /\ a < SegSize
      BY <1>5, <1>8, <1>9
    <3> HIDE DEF pv
    <3> QED BY ONLY <2>1, <3>1, MergedKeeps
  <2> HIDE DEF pv
  <2>3. ASSUME NEW x \in DOMAIN c, FreePair(c, x) PROVE FALSE
    <3>1. Next_hdr(c, x) \in DOMAIN c
      BY <2>2, <2>3, WalkIsGood DEF Good, FreePair
    <3>2. CASE x = pv
      <4>1. FreePair(f, a)
        BY ONLY <3>1, <3>2, <2>2, <2>3, <1>5 DEF FreePair
      <4>2. Next_hdr(f, a) = a
        BY ONLY <4>1, <1>5
      <4> QED BY ONLY <4>2, <3>1, <3>2, <2>2, <2>3
    <3>3. CASE x # pv
      <4>1. FreePair(f, x) /\ x \in DOMAIN f /\ Next_hdr(c, x) = Next_hdr(f, x)
        BY ONLY <3>1, <3>3, <2>2, <2>3 DEF FreePair
      <4>2. Next_hdr(f, x) = a
        BY ONLY <4>1, <1>5
      <4> QED BY ONLY <4>1, <4>2, <3>1, <2>2
    <3> QED BY <3>2, <3>3
  <2> QED BY <2>2, <2>3, <1>7 DEF Whole
<1>10. CASE ~(f[a].prev # 0 /\ ~f[pv].inuse)
  <2>1. c = f
    BY <1>6, <1>10 DEF Backward
  <2>2. ASSUME NEW x \in DOMAIN f, FreePair(f, x) PROVE FALSE
    <3>1. Next_hdr(f, x) = a /\ ~f[x].inuse
      BY <2>2, <1>5 DEF FreePair
    <3>2. Good(f, x)
      BY <1>5, WalkIsGood
    <3>3. f[a].prev = f[x].size
      BY <3>1, <3>2, <1>8 DEF Good
    <3>4. x \in Nat /\ f[x].size \in Nat /\ a = x + f[x].size /\ Header \in Nat
      BY <3>1, <1>5, BlockFacts, PoolAssumption
    <3>5. f[x].size > Header
      BY <3>2 DEF Good
    <3>6. pv = x /\ f[a].prev # 0
      BY ONLY <3>3, <3>4, <3>5
    <3> QED BY <3>6, <3>1, <1>10
  <2> QED BY <2>1, <2>2, <1>5, <1>7 DEF Whole
<1> QED BY <1>9, <1>10

LEMMA FreshIsWhole == Whole(Fresh) /\ Fresh[0].size = SegSize /\ ~Fresh[0].inuse /\ DOMAIN Fresh = {0}
<1>1. /\ DOMAIN Fresh = {0} /\ Fresh[0].size = SegSize /\ Fresh[0].prev = 0 /\ Fresh[0].inuse = FALSE
      /\ Fresh \in [DOMAIN Fresh -> [size : Nat, prev : Nat, inuse : BOOLEAN]]
  BY PoolAssumption DEF Fresh
<1>2. Next_hdr(Fresh, 0) = SegSize
  BY <1>1, PoolAssumption DEF Next_hdr
<1> HIDE DEF Fresh
<1>3. Blocks(Fresh)
  BY <1>1, PoolAssumption DEF Blocks
<1>4. Walk(Fresh)
  BY <1>1, <1>2, PoolAssumption DEF Walk
<1>5. \A a \in DOMAIN Fresh : ~FreePair(Fresh, a)
  BY <1>1, <1>2, PoolAssumption DEF FreePair
<1> QED BY <1>1, <1>3, <1>4, <1>5 DEF Whole

-----------------------------------------------------------------------------
(* The pool.                                                               *)

\* The inductive invariant: what PoolTiled says, and the types it is said in.
PoolIInv ==
  /\ nseg \in 0 .. MaxSegs
  /\ blk = [s \in Segs |-> blk[s]]
  /\ \A s \in 1 .. nseg : Whole(blk[s])

LEMMA PoolUpdate ==
  ASSUME PoolIInv, NEW k \in Nat, NEW b, Whole(b),
         blk' = [blk EXCEPT ![k] = b],
         \/ k \in 1 .. nseg /\ nseg' = nseg
         \/ nseg < MaxSegs /\ k = nseg + 1 /\ nseg' = nseg + 1
  PROVE  PoolIInv'
<1>1. nseg \in 0 .. MaxSegs /\ nseg' \in 0 .. MaxSegs /\ k \in Segs /\ DOMAIN blk = Segs
  BY PoolAssumption DEF PoolIInv, Segs
<1>2. blk' = [s \in Segs |-> blk'[s]] /\ blk'[k] = b /\ \A s \in Segs : s # k => blk'[s] = blk[s]
  BY <1>1 DEF PoolIInv
<1>3. ASSUME NEW s \in 1 .. nseg' PROVE Whole(blk'[s])
  <2>1. s = k \/ (s # k /\ s \in 1 .. nseg /\ s \in Segs)
    BY ONLY <1>1, <1>3, PoolAssumption, k \in Nat,
       \/ k \in 1 .. nseg /\ nseg' = nseg
       \/ nseg < MaxSegs /\ k = nseg + 1 /\ nseg' = nseg + 1
       DEF Segs
  <2>2. \A t \in 1 .. nseg : Whole(blk[t])
    BY DEF PoolIInv
  <2> QED BY ONLY <1>2, <2>1, <2>2, Whole(b)
<1>4. PoolIInv' = (/\ nseg' \in 0 .. MaxSegs /\ blk' = [s \in Segs |-> blk'[s]]
                   /\ \A s \in 1 .. nseg' : Whole(blk'[s]))
  BY DEF PoolIInv, Whole, Blocks, Walk, FreePair, Next_hdr, Segs
<1> QED BY ONLY <1>1, <1>2, <1>3, <1>4

LEMMA PoolStays ==
  ASSUME PoolIInv, UNCHANGED pool
  PROVE  PoolIInv'
BY DEF PoolIInv, pool, Segs

LEMMA PoolStep ==
  ASSUME PoolIInv, NEW n \in Nat \ {0}, NEW p,
         takes(n, p) \/ takeFails(n) \/ bigfree(p)
  PROVE  PoolIInv'
<1> USE PoolAssumption
<1>2. ASSUME takeFails(n) PROVE PoolIInv'
  <2>1. CASE UNCHANGED pool
    BY <2>1, PoolStays
  <2>2. CASE /\ nseg < MaxSegs
             /\ nseg' = nseg + 1 /\ blk' = [blk EXCEPT ![nseg + 1] = Fresh]
    <3>1. nseg \in Nat /\ nseg + 1 \in Nat
      BY DEF PoolIInv
    <3> QED BY ONLY <2>2, <3>1, FreshIsWhole, PoolUpdate, PoolIInv
  <2> QED BY <1>2, <2>1, <2>2 DEF takeFails
<1>3. ASSUME takes(n, p) PROVE PoolIInv'
  <2>0. Need(n) \in Nat /\ Need(n) > Header
    BY DEF Need
  <2>1. CASE /\ Best(Fits(nseg, blk, Need(n)), blk, p)
             /\ blk' = [blk EXCEPT ![p[1]] = Handed(@, p[2], Need(n))]
             /\ UNCHANGED nseg
    <3>1. /\ p[1] \in 1 .. nseg /\ p[2] \in DOMAIN blk[p[1]]
          /\ ~blk[p[1]][p[2]].inuse /\ blk[p[1]][p[2]].size >= Need(n)
      BY <2>1 DEF Best, Fits
    <3>2. Whole(Handed(blk[p[1]], p[2], Need(n)))
      <4>1. Whole(blk[p[1]])
        BY <3>1 DEF PoolIInv
      <4> QED BY ONLY <4>1, <2>0, <3>1, HandedKeeps
    <3>3. p[1] \in Nat /\ blk' = [blk EXCEPT ![p[1]] = Handed(blk[p[1]], p[2], Need(n))]
      BY <2>1, <3>1
    <3> QED BY ONLY <2>1, <3>1, <3>2, <3>3, PoolUpdate, PoolIInv
  <2>2. CASE /\ nseg < MaxSegs /\ Need(n) <= SegSize
             /\ nseg' = nseg + 1
             /\ blk' = [blk EXCEPT ![nseg + 1] = Handed(Fresh, 0, Need(n))]
    <3>1. Whole(Handed(Fresh, 0, Need(n)))
      BY ONLY <2>0, <2>2, FreshIsWhole, HandedKeeps
    <3>2. nseg + 1 \in Nat
      BY DEF PoolIInv
    <3> QED BY ONLY <2>2, <3>1, <3>2, PoolUpdate, PoolIInv
  <2> QED BY <1>3, <2>1, <2>2 DEF takes
<1>4. ASSUME bigfree(p) PROVE PoolIInv'
  <2>0. CASE p \notin Live(nseg, blk)
    BY <1>4, <2>0, PoolStays DEF bigfree, pool
  <2>1. CASE p \in Live(nseg, blk)
    <3>1. p[1] \in 1 .. nseg /\ p[2] \in DOMAIN blk[p[1]]
      BY <2>1 DEF Live
    <3>2. Whole(Freed(blk[p[1]], p[2]))
      <4>1. Whole(blk[p[1]])
        BY <3>1 DEF PoolIInv
      <4> QED BY ONLY <4>1, <3>1, FreedKeeps
    <3>3. p[1] \in Nat /\ nseg' = nseg /\ blk' = [blk EXCEPT ![p[1]] = Freed(blk[p[1]], p[2])]
      BY <1>4, <2>1, <3>1 DEF bigfree
    <3> QED BY ONLY <3>1, <3>2, <3>3, PoolUpdate, PoolIInv
  <2> QED BY <2>0, <2>1
<1> QED BY <1>2, <1>3, <1>4

LEMMA PoolStarts == PoolInit => PoolIInv
BY PoolAssumption DEF PoolInit, PoolIInv, Segs

LEMMA PoolIsTiled == PoolIInv => PoolTiled
BY DEF PoolIInv, Whole, PoolTiled

-----------------------------------------------------------------------------
(* What is handed out.                                                     *)

Uses(b) == {a \in DOMAIN b : b[a].inuse}

\* Handing a block out adds its address and no other.
LEMMA HandedUses ==
  ASSUME NEW b, Whole(b), NEW a \in DOMAIN b, ~b[a].inuse, NEW need \in Nat,
         need > Header, b[a].size >= need
  PROVE  Uses(Handed(b, a, need)) = Uses(b) \cup {a}
<1>1. CASE b[a].size - need < MinSplit
  <2> DEFINE c == [b EXCEPT ![a].inuse = TRUE]
  <2>1. /\ DOMAIN c = DOMAIN b
        /\ \A x \in DOMAIN b : c[x].inuse = IF x = a THEN TRUE ELSE b[x].inuse
    BY MarkKeeps DEF Whole
  <2>2. Handed(b, a, need) = c
    BY <1>1 DEF Handed
  <2> HIDE DEF c
  <2> QED BY <2>1, <2>2 DEF Uses
<1>2. CASE ~(b[a].size - need < MinSplit)
  <2> DEFINE c == Split(b, a, need)
             rest == a + need
  <2>1. b[a].size \in Nat /\ a \in Nat /\ Next_hdr(b, a) = a + b[a].size
    BY BlockFacts DEF Whole
  <2>2. rest > a /\ rest < Next_hdr(b, a)
    BY ONLY <1>2, <2>1, PoolAssumption, need \in Nat, need > Header
  <2>3. rest \notin DOMAIN b
    BY <2>1, <2>2, WalkIsGood DEF Whole, Good
  <2>4. DOMAIN c = DOMAIN b \cup {rest}
    BY DEF Split
  <2>5. c[a].inuse = TRUE
    BY DEF Split
  <2>6. c[rest].inuse = FALSE
    BY <2>1, <2>2, <2>4 DEF Split
  <2>7. ASSUME NEW x \in DOMAIN b, x # a PROVE c[x].inuse = b[x].inuse
    <3>0. x # rest /\ x \in DOMAIN c
      BY <2>3, <2>4, <2>7
    <3>1. CASE x # Next_hdr(b, a)
      BY <2>7, <3>0, <3>1 DEF Split
    <3>2. CASE x = Next_hdr(b, a)
      <4>1. c[x] = [b[x] EXCEPT !.prev = b[a].size - need]
        BY <2>7, <3>0, <3>2 DEF Split
      <4>2. b[x] = [size |-> b[x].size, prev |-> b[x].prev, inuse |-> b[x].inuse]
        BY BlockFacts DEF Whole
      <4> HIDE DEF c
      <4> QED BY ONLY <4>1, <4>2
    <3> QED BY <3>1, <3>2
  <2>8. Handed(b, a, need) = c
    BY <1>2 DEF Handed
  <2> HIDE DEF c, rest
  <2> QED BY ONLY <2>4, <2>5, <2>6, <2>7, <2>8, a \in DOMAIN b DEF Uses
<1> QED BY <1>1, <1>2

\* Taking a block back removes its address and no other: what it is merged with is free.
LEMMA FreedUses ==
  ASSUME NEW b, Whole(b), NEW a \in DOMAIN b
  PROVE  Uses(Freed(b, a)) = Uses(b) \ {a}
<1>1. PICK m : m = [b EXCEPT ![a].inuse = FALSE]
  OBVIOUS
<1>2. /\ Blocks(m) /\ Walk(m) /\ DOMAIN m = DOMAIN b
      /\ \A x \in DOMAIN b : m[x].inuse = IF x = a THEN FALSE ELSE b[x].inuse
  BY <1>1, MarkKeeps DEF Whole
<1>m. Uses(m) = Uses(b) \ {a}
  BY <1>2 DEF Uses
<1>3. PICK f : f = Forward(m, a)
  OBVIOUS
<1>4. Blocks(f) /\ Walk(f) /\ a \in DOMAIN f /\ ~f[a].inuse /\ Uses(f) = Uses(m)
  <2> DEFINE nx == Next_hdr(m, a)
  <2>1. CASE nx < SegSize /\ ~m[nx].inuse
    <3>1. f = Merged(m, a, nx)
      BY <1>3, <2>1 DEF Forward
    <3>2. /\ Blocks(f) /\ Walk(f) /\ DOMAIN f = DOMAIN m \ {nx} /\ a # nx
          /\ \A y \in DOMAIN f : f[y].inuse = m[y].inuse
      BY <1>2, <2>1, <3>1, MergedKeeps
    <3> HIDE DEF nx
    <3> QED BY ONLY <3>2, <1>2, <2>1, a \in DOMAIN b DEF Uses
  <2>2. CASE ~(nx < SegSize /\ ~m[nx].inuse)
    <3>1. f = m
      BY <1>3, <2>2 DEF Forward
    <3> QED BY <3>1, <1>2
  <2> QED BY <2>1, <2>2
<1>5. PICK c : c = Backward(f, a)
  OBVIOUS
<1>6. Uses(c) = Uses(f)
  <2> DEFINE pv == a - f[a].prev
  <2>1. CASE f[a].prev # 0 /\ ~f[pv].inuse
    <3>1. c = Merged(f, pv, a)
      BY <1>5, <2>1 DEF Backward
    <3>2. pv \in DOMAIN f /\ Next_hdr(f, pv) = a /\ a < SegSize
      <4>1. Good(f, a) /\ a \in Nat /\ a < SegSize /\ f[a].prev \in Nat
        BY <1>4, WalkIsGood, BlockFacts
      <4> QED BY <4>1, <2>1 DEF Good
    <3> HIDE DEF pv
    <3>3. /\ DOMAIN c = DOMAIN f \ {a}
          /\ \A y \in DOMAIN c : c[y].inuse = f[y].inuse
      BY ONLY <3>1, <3>2, <1>4, MergedKeeps
    <3> QED BY ONLY <3>3, <1>4 DEF Uses
  <2>2. CASE ~(f[a].prev # 0 /\ ~f[pv].inuse)
    BY <1>5, <2>2 DEF Backward
  <2> QED BY <2>1, <2>2
<1>7. Freed(b, a) = c
  BY <1>1, <1>3, <1>5 DEF Freed
<1> QED BY <1>m, <1>4, <1>6, <1>7

LEMMA LiveIs ==
  ASSUME NEW k, NEW b, NEW p
  PROVE  p \in Live(k, b) <=> /\ p \in (1 .. k) \X (0 .. SegSize - 1)
                              /\ p[2] \in Uses(b[p[1]])
BY DEF Live, Uses

\* One segment's blocks became b.
Becomes(k, b) ==
  /\ blk'[k] = b /\ \A s \in Segs : s # k => blk'[s] = blk[s]
  /\ nseg' = nseg \/ (nseg < MaxSegs /\ k = nseg + 1 /\ nseg' = nseg + 1)

LEMMA LiveUpdate ==
  ASSUME PoolIInv, NEW k \in 1 .. nseg', NEW b, Blocks(b), Becomes(k, b)
  PROVE  \A p : p \in Live(nseg', blk') <=>
                  \/ p \in Live(nseg, blk) /\ p[1] # k
                  \/ \E a \in Uses(b) : p = <<k, a>>
<1>0. nseg \in Nat /\ nseg <= MaxSegs /\ MaxSegs \in Nat /\ DOMAIN blk = Segs
  BY PoolAssumption DEF PoolIInv
<1>1. k \in Segs /\ (nseg' = nseg \/ (k = nseg + 1 /\ nseg' = nseg + 1))
  BY <1>0 DEF Segs, Becomes
<1>2. blk'[k] = b /\ \A s \in Segs : s # k => blk'[s] = blk[s]
  BY DEF Becomes
<1>3. Uses(b) \subseteq 0 .. SegSize - 1
  BY DEF Blocks, Uses
<1>4. ASSUME NEW p
      PROVE  p \in Live(nseg', blk') <=>
                  \/ p \in Live(nseg, blk) /\ p[1] # k
                  \/ \E a \in Uses(b) : p = <<k, a>>
  <2>1. CASE p \in (1 .. nseg') \X (0 .. SegSize - 1) /\ p[1] = k
    <3>1. p = <<k, p[2]>>
      BY <2>1
    <3> QED BY ONLY <2>1, <3>1, <1>2, LiveIs
  <2>2. CASE p \in (1 .. nseg') \X (0 .. SegSize - 1) /\ p[1] # k
    <3>1. p[1] \in 1 .. nseg /\ p[1] \in Segs
      BY <2>2, <1>0, <1>1 DEF Segs
    <3>2. p \in (1 .. nseg) \X (0 .. SegSize - 1)
      BY <2>2, <3>1
    <3>3. \A a : p # <<k, a>>
      BY <2>2
    <3> QED BY ONLY <2>2, <3>1, <3>2, <3>3, <1>2, LiveIs
  <2>3. CASE p \notin (1 .. nseg') \X (0 .. SegSize - 1)
    <3>1. p \notin Live(nseg', blk')
      BY <2>3, LiveIs
    <3>2. p \notin (1 .. nseg) \X (0 .. SegSize - 1)
      BY <2>3, <1>0, <1>1
    <3>3. p \notin Live(nseg, blk)
      BY <3>2, LiveIs
    <3>4. \A a \in Uses(b) : p # <<k, a>>
      BY <2>3, <1>3
    <3> QED BY <3>1, <3>3, <3>4
  <2> QED BY <2>1, <2>2, <2>3
<1> QED BY <1>4

PoolLive == Live(nseg, blk)

\* A block that is taken was free, and is the only one that is handed out.
LEMMA TakesLive ==
  ASSUME PoolIInv, NEW n \in Nat \ {0}, NEW p, takes(n, p)
  PROVE  p \notin PoolLive /\ PoolLive' = PoolLive \cup {p} /\ p[1] > 0
<1> USE PoolAssumption
<1>0. Need(n) \in Nat /\ Need(n) > Header /\ nseg \in Nat
  BY DEF Need, PoolIInv
<1>1. CASE /\ Best(Fits(nseg, blk, Need(n)), blk, p)
           /\ blk' = [blk EXCEPT ![p[1]] = Handed(@, p[2], Need(n))]
           /\ UNCHANGED nseg
  <2> DEFINE b == blk[p[1]]
             h == Handed(b, p[2], Need(n))
  <2>1. /\ p[1] \in 1 .. nseg /\ p[2] \in DOMAIN b /\ p = <<p[1], p[2]>>
        /\ ~b[p[2]].inuse /\ b[p[2]].size >= Need(n)
    BY <1>1 DEF Best, Fits
  <2>2. Whole(b)
    BY <2>1 DEF PoolIInv
  <2>3. blk' = [blk EXCEPT ![p[1]] = h]
    BY <1>1
  <2> HIDE DEF b
  <2>4. Uses(h) = Uses(b) \cup {p[2]} /\ Whole(h)
    BY ONLY <1>0, <2>1, <2>2, HandedUses, HandedKeeps
  <2> HIDE DEF h
  <2>5. \A q : q \in PoolLive' <=> \/ q \in PoolLive /\ q[1] # p[1]
                                   \/ \E a \in Uses(h) : q = <<p[1], a>>
    <3>1. p[1] \in 1 .. nseg' /\ Blocks(h)
      BY <1>1, <2>1, <2>4 DEF Whole
    <3>2. Becomes(p[1], h)
      BY <1>0, <1>1, <2>1, <2>3, PoolIInv DEF Becomes, PoolIInv, Segs
    <3> QED BY ONLY <3>1, <3>2, PoolIInv, LiveUpdate DEF PoolLive
  <2>6. \A a : <<p[1], a>> \in PoolLive <=> a \in Uses(b)
    <3>1. Uses(b) \subseteq 0 .. SegSize - 1
      BY <2>2 DEF Uses, Whole, Blocks
    <3> QED BY <2>1, <3>1, LiveIs DEF PoolLive, b
  <2>7. p[2] \notin Uses(b)
    BY <2>1 DEF Uses
  <2>8. \A q \in PoolLive : q[1] = p[1] => q = <<p[1], q[2]>>
    BY LiveIs DEF PoolLive
  <2> QED BY ONLY <1>0, <2>1, <2>4, <2>5, <2>6, <2>7, <2>8
<1>2. CASE /\ nseg < MaxSegs /\ Need(n) <= SegSize
           /\ p = <<nseg + 1, 0>>
           /\ nseg' = nseg + 1
           /\ blk' = [blk EXCEPT ![nseg + 1] = Handed(Fresh, 0, Need(n))]
  <2> DEFINE h == Handed(Fresh, 0, Need(n))
  <2>1. Uses(h) = Uses(Fresh) \cup {0} /\ Whole(h)
    BY ONLY <1>0, <1>2, FreshIsWhole, HandedUses, HandedKeeps
  <2>2. Uses(Fresh) = {}
    BY FreshIsWhole DEF Uses
  <2> HIDE DEF h
  <2>3. \A q : q \in PoolLive' <=> \/ q \in PoolLive /\ q[1] # nseg + 1
                                   \/ \E a \in Uses(h) : q = <<nseg + 1, a>>
    <3>1. nseg + 1 \in 1 .. nseg' /\ blk' = [blk EXCEPT ![nseg + 1] = h] /\ Blocks(h)
      BY <1>0, <1>2, <2>1 DEF h, Whole
    <3>2. Becomes(nseg + 1, h)
      BY <1>0, <1>2, <3>1 DEF Becomes, PoolIInv, Segs
    <3> QED BY ONLY <3>1, <3>2, PoolIInv, LiveUpdate DEF PoolLive
  <2>4. \A q \in PoolLive : q[1] \in 1 .. nseg
    BY LiveIs DEF PoolLive
  <2>5. \A q \in PoolLive : q[1] # nseg + 1
    BY <2>4, <1>0
  <2>6. p \notin PoolLive
    BY <1>2, <2>5
  <2>7. p[1] > 0
    BY <1>0, <1>2
  <2> QED BY ONLY <1>2, <2>1, <2>2, <2>3, <2>5, <2>6, <2>7
<1> QED BY <1>1, <1>2 DEF takes

LEMMA TakeFailsLive ==
  ASSUME PoolIInv, NEW n, takeFails(n)
  PROVE  PoolLive' = PoolLive
<1>1. CASE UNCHANGED pool
  BY <1>1 DEF pool, PoolLive, Live
<1>2. CASE /\ nseg < MaxSegs
           /\ nseg' = nseg + 1 /\ blk' = [blk EXCEPT ![nseg + 1] = Fresh]
  <2>0. nseg \in Nat
    BY DEF PoolIInv
  <2>1. \A q : q \in PoolLive' <=> \/ q \in PoolLive /\ q[1] # nseg + 1
                                   \/ \E a \in Uses(Fresh) : q = <<nseg + 1, a>>
    <3>1. nseg + 1 \in 1 .. nseg' /\ Blocks(Fresh)
      BY <2>0, <1>2, FreshIsWhole DEF Whole
    <3>2. Becomes(nseg + 1, Fresh)
      BY <2>0, <1>2, PoolAssumption DEF Becomes, PoolIInv, Segs
    <3> QED BY ONLY <3>1, <3>2, PoolIInv, LiveUpdate DEF PoolLive
  <2>2. Uses(Fresh) = {}
    BY FreshIsWhole DEF Uses
  <2>3. \A q \in PoolLive : q[1] \in 1 .. nseg
    BY LiveIs DEF PoolLive
  <2>4. \A q \in PoolLive : q[1] # nseg + 1
    BY <2>3, <2>0
  <2> QED BY ONLY <2>1, <2>2, <2>4
<1> QED BY <1>1, <1>2 DEF takeFails

\* What is freed is no longer handed out, and nothing else is taken back.
LEMMA FreeLive ==
  ASSUME PoolIInv, NEW p, bigfree(p)
  PROVE  PoolLive' = PoolLive \ {p}
<1>1. CASE p \notin Live(nseg, blk)
  BY <1>1 DEF bigfree, PoolLive
<1>2. CASE p \in Live(nseg, blk)
  <2> DEFINE b == blk[p[1]]
             f == Freed(b, p[2])
  <2>1. p[1] \in 1 .. nseg /\ p[2] \in DOMAIN b /\ p = <<p[1], p[2]>>
    BY <1>2 DEF Live
  <2>2. Whole(b)
    BY <2>1 DEF PoolIInv
  <2>3. blk' = [blk EXCEPT ![p[1]] = f] /\ nseg' = nseg
    BY <1>2 DEF bigfree
  <2> HIDE DEF b
  <2>4. Uses(f) = Uses(b) \ {p[2]} /\ Whole(f)
    BY ONLY <2>1, <2>2, FreedUses, FreedKeeps
  <2> HIDE DEF f
  <2>5. \A q : q \in PoolLive' <=> \/ q \in PoolLive /\ q[1] # p[1]
                                   \/ \E a \in Uses(f) : q = <<p[1], a>>
    <3>1. p[1] \in 1 .. nseg' /\ Blocks(f)
      BY <2>1, <2>3, <2>4 DEF Whole
    <3>2. Becomes(p[1], f)
      BY <2>1, <2>3, PoolAssumption DEF Becomes, PoolIInv, Segs
    <3> QED BY ONLY <3>1, <3>2, PoolIInv, LiveUpdate DEF PoolLive
  <2>6. \A a : <<p[1], a>> \in PoolLive <=> a \in Uses(b)
    <3>1. Uses(b) \subseteq 0 .. SegSize - 1
      BY <2>2 DEF Uses, Whole, Blocks
    <3> QED BY <2>1, <3>1, LiveIs DEF PoolLive, b
  <2>7. \A q \in PoolLive : q[1] = p[1] => q = <<p[1], q[2]>>
    BY LiveIs DEF PoolLive
  <2> QED BY ONLY <2>1, <2>4, <2>5, <2>6, <2>7
<1> QED BY <1>1, <1>2

-----------------------------------------------------------------------------
(* The heap.                                                               *)

Mem == Int \X Int
Ops == {"none", "new", "malloc", "realloc", "decode"}
Places == {"idle", "bigalloc", "malloc", "rescue", "free", "loop", "purge",
           "threw", "trim", "insert", "drop", "sound"}
Request == [op : Ops, n : Nat, old : Mem, mem : Mem, clip : Nat, slot : 0 .. NCache, got : BOOLEAN]
Entry == [clip : Nat, refs : Int, mem : Mem]

Asking == {"bigalloc", "malloc", "rescue"}

Jobs ==
  /\ pc \in [Threads -> Places]
  /\ job \in [Threads -> Request]
  /\ \A t \in Threads : pc[t] \in Asking => job[t].n # 0
  /\ \A t \in Threads : job[t].op = "decode" \/ pc[t] \in {"trim", "insert"} => job[t].clip # 0

Typed ==
  /\ Jobs /\ held \subseteq Mem
  /\ cache \in [1 .. NCache -> Entry] /\ retire \in Seq(Mem)
  /\ snd \in [1 .. NSounds -> 0 .. NCache]

EmptyHasNothing == \A c \in 1 .. NCache : cache[c].clip = 0 => cache[c].mem = None

\* Samples that are read are the cache's, or wait to be freed.
Kept(m) ==
  \/ \E c \in 1 .. NCache : cache[c].mem = m
  \/ \E i \in DOMAIN retire : retire[i] = m
  \/ m \in leaked

ReadsKept == \A m \in reads : mixing /\ m # None /\ Kept(m)

HeapIInv == PoolIInv /\ Typed /\ EmptyHasNothing /\ ReadsKept

-----------------------------------------------------------------------------
(* The pool.                                                               *)

LEMMA FreeKeepsPool ==
  ASSUME PoolIInv, NEW m, big_free(m) \/ audio_pcm_free(m)
  PROVE  PoolIInv'
<1>1. CASE UNCHANGED pool
  BY <1>1, PoolStays
<1>2. CASE bigfree(m)
  BY <1>2, PoolStep, 1 \in Nat \ {0}
<1> QED BY <1>1, <1>2 DEF big_free, audio_pcm_free

LEMMA EvictKeepsPool ==
  ASSUME PoolIInv, NEW c, Evict(c)
  PROVE  PoolIInv'
<1>1. CASE UNCHANGED pool
  BY <1>1, PoolStays
<1>2. CASE audio_pcm_free(cache[c].mem)
  BY <1>2, FreeKeepsPool
<1> QED BY <1>1, <1>2 DEF Evict, audio_pcm_free_deferred

LEMMA PoolPart ==
  ASSUME HeapIInv, [Next]_vars
  PROVE  PoolIInv'
<1> USE DEF HeapIInv
<1>1. CASE UNCHANGED pool
  BY <1>1, PoolStays
<1>2. ASSUME NEW t \in Threads, NEW m \in held, ZdlPv_diag(t, m) PROVE PoolIInv'
  BY <1>2, FreeKeepsPool DEF ZdlPv_diag
<1>3. ASSUME NEW t \in Threads, Serves(t) PROVE PoolIInv'
  <2>n. pc[t] \in Asking => job[t].n \in Nat \ {0}
    BY DEF Typed, Jobs, Request
  <2>1. CASE Bigalloc(t)
    <3>1. PICK m : takes(job[t].n, m) \/ takeFails(job[t].n)
      BY <2>1 DEF Bigalloc
    <3>2. job[t].n \in Nat \ {0}
      BY <2>1, <2>n DEF Bigalloc, Asking
    <3> QED BY <3>1, <3>2, PoolStep
  <2>2. CASE bigalloc_rescue(t)
    <3>1. PICK m : takes(job[t].n, m) \/ takeFails(job[t].n)
      BY <2>2 DEF bigalloc_rescue
    <3>2. job[t].n \in Nat \ {0}
      BY <2>2, <2>n DEF bigalloc_rescue, Asking
    <3> QED BY <3>1, <3>2, PoolStep
  <2>3. CASE FreeOld(t)
    BY <2>3, FreeKeepsPool DEF FreeOld
  <2>4. CASE audio_cache_purge(t)
    BY <2>4, EvictKeepsPool DEF audio_cache_purge
  <2>5. CASE Malloc(t) \/ Loop(t) \/ heap_new_handler(t)
    BY <2>5, <1>1 DEF Malloc, Loop, heap_new_handler
  <2> QED BY <1>3, <2>1, <2>2, <2>3, <2>4, <2>5 DEF Serves
<1>4. CASE Creates
  <2>1. CASE InsertEvicts
    BY <2>1, EvictKeepsPool DEF InsertEvicts
  <2>2. CASE Drop
    BY <2>2, FreeKeepsPool DEF Drop
  <2>3. CASE InsertBegins \/ Insert \/ InsertRefused \/ NewSound
    BY <2>3, <1>1 DEF InsertBegins, Insert, InsertRefused, NewSound
  <2> QED BY <1>4, <2>1, <2>2, <2>3 DEF Creates
<1>5. CASE Mixes
  <2>1. CASE MixFrees
    BY <2>1, FreeKeepsPool DEF MixFrees
  <2>2. CASE MixBegin \/ MixEnd
    BY <2>2, <1>1 DEF MixBegin, MixEnd
  <2> QED BY <1>5, <2>1, <2>2 DEF Mixes
<1>6. ASSUME NEW t, NEW n, Znwj_diag(t, n) PROVE PoolIInv'
  BY <1>6, <1>1 DEF Znwj_diag, Asks
<1>7. ASSUME NEW n, malloc_diag(n) PROVE PoolIInv'
  BY <1>7, <1>1 DEF malloc_diag, Asks
<1>8. ASSUME NEW m, NEW n, realloc_diag(m, n) PROVE PoolIInv'
  BY <1>8, <1>1 DEF realloc_diag, Asks
<1>9. ASSUME NEW k, createSound(k) PROVE PoolIInv'
  BY <1>9, <1>1 DEF createSound, Asks
<1>10. ASSUME NEW h, Snd_release(h) PROVE PoolIInv'
  BY <1>10, <1>1 DEF Snd_release
<1>11. CASE UNCHANGED vars
  BY <1>11, <1>1 DEF vars, pool
<1> QED BY <1>2, <1>3, <1>4, <1>5, <1>6, <1>7, <1>8, <1>9, <1>10, <1>11 DEF Next

-----------------------------------------------------------------------------
(* Types.                                                                  *)

LEMMA IdleIsRequest ==
  Idle \in Request /\ Idle.mem = None /\ None \in Mem /\ Idle.op = "none" /\ Idle.clip = 0
<1>1. None \in Mem
  BY DEF None, Mem
<1>2. Idle = [op |-> "none", n |-> 0, old |-> None, mem |-> None, clip |-> 0, slot |-> 0, got |-> FALSE]
  BY DEF Idle
<1>3. "none" \in Ops /\ 0 \in Nat /\ FALSE \in BOOLEAN
  BY DEF Ops
<1>4. 0 \in 0 .. NCache
  BY HeapAssumption
<1> QED BY ONLY <1>1, <1>2, <1>3, <1>4 DEF Request

\* A thread goes on to l with the request r.
LEMMA JobStep ==
  ASSUME Jobs, NEW t \in Threads, NEW l \in Places, NEW r \in Request,
         pc' = [pc EXCEPT ![t] = l], job' = [job EXCEPT ![t] = r],
         l \in Asking => r.n # 0,
         r.op = "decode" \/ l \in {"trim", "insert"} => r.clip # 0
  PROVE  Jobs'
<1>1. pc' \in [Threads -> Places] /\ job' \in [Threads -> Request]
  BY DEF Jobs
<1>2. pc'[t] = l /\ job'[t] = r
  BY ONLY pc' = [pc EXCEPT ![t] = l], job' = [job EXCEPT ![t] = r], Jobs DEF Jobs
<1>3. \A u \in Threads \ {t} : pc'[u] = pc[u] /\ job'[u] = job[u]
  BY ONLY pc' = [pc EXCEPT ![t] = l], job' = [job EXCEPT ![t] = r], Jobs DEF Jobs
<1>4. ASSUME NEW u \in Threads
      PROVE  /\ pc'[u] \in Asking => job'[u].n # 0
             /\ job'[u].op = "decode" \/ pc'[u] \in {"trim", "insert"} => job'[u].clip # 0
  <2>1. CASE u = t
    BY ONLY <2>1, <1>2, l \in Asking => r.n # 0,
       r.op = "decode" \/ l \in {"trim", "insert"} => r.clip # 0
  <2>2. CASE u # t
    BY ONLY <2>2, <1>3, u \in Threads, Jobs DEF Jobs
  <2> QED BY <2>1, <2>2
<1> QED BY <1>1, <1>4 DEF Jobs

\* It goes on with the same request.
LEMMA PcStep ==
  ASSUME Jobs, NEW t \in Threads, NEW l \in Places, pc' = [pc EXCEPT ![t] = l], UNCHANGED job,
         l \in Asking => pc[t] \in Asking,
         l \in {"trim", "insert"} => job[t].op = "decode" \/ pc[t] \in {"trim", "insert"}
  PROVE  Jobs'
<1>1. job[t] \in Request /\ job' = [job EXCEPT ![t] = job[t]] /\ (l \in Asking => job[t].n # 0)
  BY DEF Jobs
<1>2. job[t].op = "decode" \/ l \in {"trim", "insert"} => job[t].clip # 0
  BY DEF Jobs
<1> QED BY <1>1, <1>2, JobStep

\* It is done.
LEMMA IdleStep ==
  ASSUME Jobs, NEW t \in Threads, pc' = [pc EXCEPT ![t] = "idle"], job' = [job EXCEPT ![t] = Idle]
  PROVE  Jobs'
<1>1. "idle" \in Places /\ "idle" \notin Asking /\ "idle" \notin {"trim", "insert"}
  BY DEF Places, Asking
<1> QED BY <1>1, IdleIsRequest, JobStep

LEMMA Words ==
  /\ Asking \subseteq Places
  /\ {"idle", "free", "loop", "purge", "threw", "trim", "insert", "drop", "sound"} \subseteq Places
  /\ \A w \in {"idle", "free", "loop", "purge", "threw", "trim", "insert", "drop", "sound"} :
       w \notin Asking
  /\ \A w \in Asking \cup {"idle", "free", "loop", "purge", "threw", "drop", "sound"} :
       w \notin {"trim", "insert"}
BY DEF Asking, Places

LEMMA AsksKeeps ==
  ASSUME Jobs, NEW t \in Threads, NEW req \in Request, req.n # 0, Asks(t, req),
         req.op = "decode" => req.clip # 0
  PROVE  Jobs'
<1>1. PICK l \in Asking : pc' = [pc EXCEPT ![t] = l]
  BY DEF Asks, Asking
<1>2. l \in Places /\ l \notin {"trim", "insert"}
  BY Words
<1>3. job' = [job EXCEPT ![t] = req]
  BY DEF Asks
<1> QED BY <1>1, <1>2, <1>3, JobStep

\* A field of a request.
LEMMA Fields ==
  ASSUME NEW r \in Request, NEW m \in Mem, NEW i \in Nat, NEW c \in 0 .. NCache, NEW g \in BOOLEAN
  PROVE  /\ [r EXCEPT !.mem = m] \in Request /\ [r EXCEPT !.mem = m].clip = r.clip
         /\ [r EXCEPT !.slot = c] \in Request /\ [r EXCEPT !.slot = c].clip = r.clip
         /\ [r EXCEPT !.slot = c].op = r.op
         /\ [r EXCEPT !.clip = i] \in Request /\ [r EXCEPT !.clip = i].clip = i
         /\ [r EXCEPT !.got = g] \in Request /\ [r EXCEPT !.got = g].clip = r.clip
         /\ [r EXCEPT !.got = g].op = r.op
         /\ r.mem \in Mem /\ r.old \in Mem /\ r.n \in Nat /\ r.got \in BOOLEAN
         /\ r.clip \in Nat /\ r.slot \in 0 .. NCache
BY DEF Request

LEMMA GotKeeps ==
  ASSUME Jobs, held \subseteq Mem, NEW t \in Threads, NEW m \in Mem, Got(t, m)
  PROVE  Jobs' /\ held' \subseteq Mem
<1>0. held' \subseteq Mem
  BY DEF Got
<1>1. CASE pc' = [pc EXCEPT ![t] = "idle"] /\ job' = [job EXCEPT ![t] = Idle]
  BY <1>0, <1>1, IdleStep
<1>2. CASE pc' = [pc EXCEPT ![t] = "free"] /\ UNCHANGED job
  BY <1>0, <1>2, PcStep, Words
<1>3. CASE job[t].op = "decode" /\ pc' = [pc EXCEPT ![t] = "trim"] /\ job' = [job EXCEPT ![t].mem = m]
  <2>1. job[t] \in Request /\ job[t].clip # 0
    BY <1>3 DEF Jobs
  <2>2. job' = [job EXCEPT ![t] = [job[t] EXCEPT !.mem = m]]
    BY <1>3
  <2>3. [job[t] EXCEPT !.mem = m] \in Request /\ [job[t] EXCEPT !.mem = m].clip # 0
    BY <2>1 DEF Request
  <2>4. "trim" \in Places /\ "trim" \notin Asking
    BY DEF Places, Asking
  <2> QED BY <1>0, <1>3, <2>2, <2>3, <2>4, JobStep
<1> QED BY <1>1, <1>2, <1>3 DEF Got

LEMMA RefusedKeeps ==
  ASSUME Jobs, held \subseteq Mem, NEW t \in Threads, Refused(t)
  PROVE  Jobs' /\ held' \subseteq Mem
<1>0. job[t].old \in Mem
  BY DEF Jobs, Request
<1>1. held' \subseteq Mem
  BY <1>0 DEF Refused
<1>2. CASE pc' = [pc EXCEPT ![t] = "idle"] /\ job' = [job EXCEPT ![t] = Idle]
  BY <1>1, <1>2, IdleStep
<1>3. CASE pc' = [pc EXCEPT ![t] = "loop"] /\ UNCHANGED job
  BY <1>1, <1>3, PcStep, Words
<1>4. CASE job[t].op = "decode" /\ pc' = [pc EXCEPT ![t] = "trim"] /\ UNCHANGED job
  <2>1. "trim" \in Places /\ "trim" \notin Asking
    BY DEF Places, Asking
  <2> QED BY <1>1, <1>4, <2>1, PcStep
<1> QED BY <1>2, <1>3, <1>4 DEF Refused

LEMMA UnusedIsEntry == Unused \in Entry /\ Unused.mem = None /\ Unused.clip = 0
<1>1. None \in Mem
  BY IdleIsRequest
<1> QED BY <1>1 DEF Unused, Entry

LEMMA EvictKeeps ==
  ASSUME Typed, NEW c \in 1 .. NCache, Evict(c)
  PROVE  cache' \in [1 .. NCache -> Entry] /\ retire' \in Seq(Mem) /\ snd' = snd
<1>1. cache[c].mem \in Mem
  BY DEF Entry, Typed
<1>2. retire' = retire \/ retire' = Append(retire, cache[c].mem)
  BY DEF Evict, audio_pcm_free_deferred
<1>3. retire \in Seq(Mem)
  BY DEF Typed
<1>4. retire' \in Seq(Mem)
  BY <1>1, <1>2, <1>3
<1> QED BY <1>4, UnusedIsEntry DEF Evict, Typed

\* Whatever leaves the cache's samples and the Sounds' types alone.
LEMMA RefsKeep ==
  ASSUME Typed, NEW c, NEW d \in Int,
         cache' = [cache EXCEPT ![c] = [cache[c] EXCEPT !.refs = cache[c].refs + d]]
  PROVE  /\ cache' \in [1 .. NCache -> Entry]
         /\ \A e \in 1 .. NCache : cache'[e].mem = cache[e].mem /\ cache'[e].clip = cache[e].clip
         /\ \A e \in 1 .. NCache : cache'[e].refs = IF e = c THEN cache[e].refs + d ELSE cache[e].refs
<1>1. ASSUME NEW e \in 1 .. NCache
      PROVE  /\ cache'[e] \in Entry
             /\ cache'[e].mem = cache[e].mem /\ cache'[e].clip = cache[e].clip
             /\ cache'[e].refs = IF e = c THEN cache[e].refs + d ELSE cache[e].refs
  <2>0. cache[e] \in Entry /\ cache \in [1 .. NCache -> Entry]
    BY DEF Typed
  <2>1. CASE e = c
    <3>1. cache'[e] = [cache[e] EXCEPT !.refs = cache[e].refs + d]
      BY <2>0, <2>1
    <3> QED BY <2>0, <3>1 DEF Entry
  <2>2. CASE e # c
    <3>1. cache'[e] = cache[e]
      BY <2>0, <2>2
    <3> QED BY <2>0, <3>1
  <2> QED BY <2>1, <2>2
<1>2. cache' = [e \in 1 .. NCache |-> cache'[e]]
  BY DEF Typed
<1> QED BY <1>1, <1>2

LEMMA TypedStep ==
  ASSUME HeapIInv, [Next]_vars
  PROVE  Typed'
<1> USE DEF HeapIInv
<1>0. Jobs /\ held \subseteq Mem
  BY DEF Typed
<1>j. \A t \in Threads : job[t] \in Request
  BY DEF Typed, Jobs
<1>s. CASE UNCHANGED <<cache, retire, snd>> /\ Jobs' /\ held' \subseteq Mem
  BY <1>s DEF Typed
<1>u. CASE UNCHANGED <<cache, retire, snd, pc, job>> /\ held' \subseteq Mem
  BY <1>u, <1>s DEF Typed, Jobs
<1>m. \A m \in Segs \X (0 .. SegSize - 1) : PoolIInv => m \in Mem
  <2>1. Segs \subseteq Int
    BY DEF Segs
  <2>2. 0 .. SegSize - 1 \subseteq Int
    OBVIOUS
  <2> QED BY ONLY <2>1, <2>2 DEF Mem
<1>l. \A i \in 1 .. NLib : <<0, i>> \in Mem
  BY DEF Mem
<1>k. ASSUME NEW t \in Threads, NEW n \in Sizes[t] PROVE n \in Nat /\ n # 0
  BY HeapAssumption
<1>g. Game \in Threads
  BY HeapAssumption
<1>1. ASSUME NEW t \in Threads, NEW n \in Sizes[t], Znwj_diag(t, n) PROVE Typed'
  <2>1. [Idle EXCEPT !.op = "new", !.n = n] \in Request
    BY <1>1, <1>k, IdleIsRequest DEF Request, Ops
  <2>2. [Idle EXCEPT !.op = "new", !.n = n].n = n /\ [Idle EXCEPT !.op = "new", !.n = n].op = "new"
    BY IdleIsRequest DEF Idle
  <2>3. Jobs'
    BY <1>0, <1>1, <1>k, <2>1, <2>2, AsksKeeps DEF Znwj_diag
  <2> QED BY <1>0, <1>1, <1>s, <2>3 DEF Znwj_diag, Asks, sound, mixer
<1>2. ASSUME NEW n \in Sizes[Game], malloc_diag(n) PROVE Typed'
  <2>1. [Idle EXCEPT !.op = "malloc", !.n = n] \in Request
    BY <1>2, <1>k, <1>g, IdleIsRequest DEF Request, Ops
  <2>2. /\ [Idle EXCEPT !.op = "malloc", !.n = n].n = n
        /\ [Idle EXCEPT !.op = "malloc", !.n = n].op = "malloc"
    BY IdleIsRequest DEF Idle
  <2>3. Jobs'
    BY <1>0, <1>2, <1>g, <1>k, <2>1, <2>2, AsksKeeps DEF malloc_diag
  <2> QED BY <1>0, <1>2, <1>s, <2>3 DEF malloc_diag, Asks, sound, mixer
<1>3. ASSUME NEW n \in Sizes[Game], NEW m \in held, realloc_diag(m, n) PROVE Typed'
  <2>0. m \in Mem
    BY <1>0
  <2>1. [Idle EXCEPT !.op = "realloc", !.n = n, !.old = m] \in Request
    BY <1>3, <1>k, <1>g, <2>0, IdleIsRequest DEF Request, Ops
  <2>2. /\ [Idle EXCEPT !.op = "realloc", !.n = n, !.old = m].n = n
        /\ [Idle EXCEPT !.op = "realloc", !.n = n, !.old = m].op = "realloc"
    BY IdleIsRequest DEF Idle
  <2>3. Jobs'
    BY <1>0, <1>3, <1>g, <1>k, <2>1, <2>2, AsksKeeps DEF realloc_diag
  <2> QED BY <1>0, <1>3, <1>s, <2>3 DEF realloc_diag, Asks, sound, mixer
<1>4. ASSUME NEW t \in Threads, NEW m \in held, ZdlPv_diag(t, m) PROVE Typed'
  BY <1>0, <1>4, <1>u DEF ZdlPv_diag, sound, mixer
<1>5. ASSUME NEW t \in Threads, Serves(t) PROVE Typed'
  <2>0. job[t] \in Request /\ job[t].old \in Mem
    BY <1>j DEF Request
  <2>1. CASE Bigalloc(t)
    <3>1. CASE \E m \in Segs \X (0 .. SegSize - 1) : takes(job[t].n, m) /\ Got(t, m)
      BY <1>0, <1>m, <1>s, <2>1, <3>1, GotKeeps DEF Bigalloc, sound, mixer
    <3>2. CASE pc' = [pc EXCEPT ![t] = "malloc"] /\ UNCHANGED <<job, held>>
      <4>1. "malloc" \in Places /\ "malloc" \notin {"trim", "insert"} /\ pc[t] \in Asking
        BY <2>1 DEF Places, Asking, Bigalloc
      <4>2. Jobs'
        BY <1>0, <3>2, <4>1, PcStep
      <4> QED BY <1>0, <1>s, <2>1, <3>2, <4>2 DEF Bigalloc, sound, mixer
    <3> QED BY <2>1, <3>1, <3>2 DEF Bigalloc
  <2>2. CASE Malloc(t)
    <3>1. CASE \E i \in 1 .. NLib : malloc(i) /\ Got(t, <<0, i>>)
      BY <1>0, <1>l, <1>s, <2>2, <3>1, GotKeeps DEF Malloc, sound, mixer
    <3>2. CASE /\ held' = held \cup {job[t].old}
               /\ pc' = [pc EXCEPT ![t] = "idle"] /\ job' = [job EXCEPT ![t] = Idle]
      BY <1>0, <1>s, <2>0, <2>2, <3>2, IdleStep DEF Malloc, sound, mixer
    <3>3. CASE pc' = [pc EXCEPT ![t] = "rescue"] /\ UNCHANGED <<nl, job, held>>
      <4>1. "rescue" \in Places /\ "rescue" \notin {"trim", "insert"} /\ pc[t] \in Asking
        BY <2>2 DEF Places, Asking, Malloc
      <4>2. Jobs'
        BY <1>0, <3>3, <4>1, PcStep
      <4> QED BY <1>0, <1>s, <2>2, <3>3, <4>2 DEF Malloc, sound, mixer
    <3> QED BY <2>2, <3>1, <3>2, <3>3 DEF Malloc
  <2>3. CASE bigalloc_rescue(t)
    <3>1. CASE \E m \in Segs \X (0 .. SegSize - 1) : takes(job[t].n, m) /\ Got(t, m)
      BY <1>0, <1>m, <1>s, <2>3, <3>1, GotKeeps DEF bigalloc_rescue, sound, mixer
    <3>2. CASE Refused(t)
      BY <1>0, <1>s, <2>3, <3>2, RefusedKeeps DEF bigalloc_rescue, sound, mixer
    <3> QED BY <2>3, <3>1, <3>2 DEF bigalloc_rescue
  <2>4. CASE FreeOld(t)
    BY <1>0, <1>s, <2>4, IdleStep DEF FreeOld, sound, mixer
  <2>5. CASE Loop(t)
    <3>1. CASE \E i \in 1 .. NLib : malloc(i) /\ Got(t, <<0, i>>)
      BY <1>0, <1>l, <1>s, <2>5, <3>1, GotKeeps DEF Loop, sound, mixer
    <3>2. CASE /\ pc' = [pc EXCEPT ![t] = "purge"]
               /\ job' = [job EXCEPT ![t].got = FALSE] /\ UNCHANGED <<nl, held>>
      <4> DEFINE r == [job[t] EXCEPT !.got = FALSE]
      <4>1. job' = [job EXCEPT ![t] = r]
        BY <3>2
      <4>2. r \in Request /\ r.clip = job[t].clip /\ r.op = job[t].op
        BY <2>0 DEF Request
      <4>3. "purge" \in Places /\ "purge" \notin Asking /\ "purge" \notin {"trim", "insert"}
        BY DEF Places, Asking
      <4>4. job[t].op = "decode" => job[t].clip # 0
        BY <1>0 DEF Jobs
      <4> HIDE DEF r
      <4>5. Jobs'
        BY <1>0, <3>2, <4>1, <4>2, <4>3, <4>4, JobStep
      <4> QED BY <1>0, <1>s, <2>5, <3>2, <4>5 DEF Loop, sound, mixer
    <3>3. CASE pc' = [pc EXCEPT ![t] = "threw"] /\ UNCHANGED <<nl, job, held, lock>>
      BY <1>0, <1>s, <2>5, <3>3, PcStep, Words DEF Loop, sound, mixer
    <3> QED BY <2>5, <3>1, <3>2, <3>3 DEF Loop
  <2>6. CASE audio_cache_purge(t)
    <3>1. PICK c \in 1 .. NCache : Evict(c) /\ job' = [job EXCEPT ![t].got = @ \/ Bytes(c) > 0]
      BY <2>6 DEF audio_cache_purge, Evictable
    <3> DEFINE g == job[t].got \/ Bytes(c) > 0
               r == [job[t] EXCEPT !.got = g]
    <3>2. job' = [job EXCEPT ![t] = r]
      BY <3>1
    <3>3. g \in BOOLEAN
      OBVIOUS
    <3> HIDE DEF g
    <3>4. r \in Request /\ r.clip = job[t].clip /\ r.op = job[t].op
      BY <2>0, <3>3 DEF Request
    <3>5. "purge" \in Places /\ "purge" \notin Asking /\ "purge" \notin {"trim", "insert"}
      BY DEF Places, Asking
    <3>6. job[t].op = "decode" => job[t].clip # 0
      BY <1>0 DEF Jobs
    <3>7. pc' = [pc EXCEPT ![t] = "purge"]
      BY <1>0, <2>6 DEF audio_cache_purge, Jobs
    <3> HIDE DEF r
    <3>8. Jobs'
      BY <1>0, <3>2, <3>4, <3>5, <3>6, <3>7, JobStep
    <3> QED BY <1>0, <2>6, <3>1, <3>8, EvictKeeps DEF audio_cache_purge, Typed
  <2>7. CASE heap_new_handler(t)
    BY <1>0, <1>s, <2>7, PcStep, Words DEF heap_new_handler, sound, mixer
  <2> QED BY <1>5, <2>1, <2>2, <2>3, <2>4, <2>5, <2>6, <2>7 DEF Serves
<1>6. ASSUME NEW k \in DOMAIN Clips, createSound(k) PROVE Typed'
  <2>0. k \in Nat /\ k # 0 /\ Clips[k] \in Nat /\ Clips[k] # 0
    BY HeapAssumption
  <2>1. ASSUME NEW c \in Found(k), cache' = [cache EXCEPT ![c].refs = @ + 1],
               pc' = [pc EXCEPT ![Game] = "sound"], job' = [job EXCEPT ![Game].slot = c],
               UNCHANGED <<held, snd, mixer>>
        PROVE  Typed'
    <3>1. c \in 1 .. NCache /\ c \in 0 .. NCache
      BY HeapAssumption DEF Found
    <3>2. cache' = [cache EXCEPT ![c] = [cache[c] EXCEPT !.refs = cache[c].refs + 1]]
      BY <2>1
    <3> DEFINE r == [job[Game] EXCEPT !.slot = c]
    <3>3. job' = [job EXCEPT ![Game] = r]
      BY <2>1
    <3>4. r \in Request /\ r.clip = job[Game].clip /\ r.op = job[Game].op
      BY <1>j, <1>g, <3>1 DEF Request
    <3>5. job[Game].op = "decode" => job[Game].clip # 0
      BY <1>0, <1>g DEF Jobs
    <3>6. "sound" \in Places /\ "sound" \notin Asking /\ "sound" \notin {"trim", "insert"}
      BY DEF Places, Asking
    <3> HIDE DEF r
    <3>7. Jobs'
      BY <1>0, <1>g, <2>1, <3>3, <3>4, <3>5, <3>6, JobStep
    <3>8. cache' \in [1 .. NCache -> Entry]
      BY <3>2, RefsKeep, 1 \in Int
    <3> QED BY <2>1, <3>7, <3>8 DEF Typed, mixer
  <2>2. CASE Asks(Game, [Idle EXCEPT !.op = "decode", !.n = Clips[k], !.clip = k])
             /\ UNCHANGED <<held, snd, cache>>
    <3> DEFINE r == [Idle EXCEPT !.op = "decode", !.n = Clips[k], !.clip = k]
    <3>1. r \in Request
      BY <2>0, IdleIsRequest DEF Request, Ops
    <3>2. r.n = Clips[k] /\ r.clip = k
      BY IdleIsRequest DEF Idle
    <3> HIDE DEF r
    <3>3. Asks(Game, r)
      BY <2>2 DEF r
    <3>4. Jobs'
      BY <1>0, <1>g, <2>0, <3>1, <3>2, <3>3, AsksKeeps
    <3> QED BY <1>0, <1>s, <2>2, <3>4 DEF Asks, mixer
  <2>3. CASE /\ pc' = [pc EXCEPT ![Game] = "trim"]
             /\ job' = [job EXCEPT ![Game].clip = k]
             /\ UNCHANGED <<held, snd, cache, mixer>>
    <3> DEFINE r == [job[Game] EXCEPT !.clip = k]
    <3>1. job' = [job EXCEPT ![Game] = r]
      BY <2>3
    <3>2. r \in Request /\ r.clip = k
      BY <1>j, <1>g, <2>0 DEF Request
    <3>3. "trim" \in Places /\ "trim" \notin Asking
      BY DEF Places, Asking
    <3> HIDE DEF r
    <3>4. Jobs'
      BY <1>0, <1>g, <2>0, <2>3, <3>1, <3>2, <3>3, JobStep
    <3> QED BY <1>0, <1>s, <2>3, <3>4 DEF mixer
  <2> QED BY <1>6, <2>1, <2>2, <2>3 DEF createSound
<1>7. CASE Creates
  <2>0. job[Game] \in Request /\ job[Game].mem \in Mem /\ job[Game].clip \in Nat
        /\ job[Game].slot \in 0 .. NCache
    BY <1>j, <1>g DEF Request
  <2>1. CASE InsertBegins
    <3>1. "insert" \in Places /\ "insert" \notin Asking
      BY DEF Places, Asking
    <3>2. Jobs'
      BY <1>0, <1>g, <2>1, <3>1, PcStep DEF InsertBegins
    <3> QED BY <1>0, <1>s, <2>1, <3>2 DEF InsertBegins, sound, mixer
  <2>2. CASE InsertEvicts
    <3>1. PICK c \in 1 .. NCache : Evict(c)
      BY <2>2 DEF InsertEvicts, Evictable
    <3>2. Jobs' /\ held' \subseteq Mem
      BY <1>0, <2>2 DEF InsertEvicts, Jobs
    <3> QED BY <3>1, <3>2, EvictKeeps DEF Typed
  <2>3. CASE Insert
    <3>1. PICK c \in Empty :
             /\ cache' = [cache EXCEPT ![c] = [clip |-> job[Game].clip, refs |-> 1, mem |-> job[Game].mem]]
             /\ job' = [job EXCEPT ![Game] = [Idle EXCEPT !.slot = c]]
      BY <2>3 DEF Insert
    <3>2. c \in 1 .. NCache /\ c \in 0 .. NCache
      BY HeapAssumption DEF Empty
    <3> DEFINE r == [Idle EXCEPT !.slot = c]
               e == [clip |-> job[Game].clip, refs |-> 1, mem |-> job[Game].mem]
    <3>3. r \in Request /\ r.op = "none"
      BY <3>2, IdleIsRequest DEF Request
    <3>4. e \in Entry
      BY <2>0 DEF Entry
    <3>5. "sound" \in Places /\ "sound" \notin Asking /\ "sound" \notin {"trim", "insert"}
      BY DEF Places, Asking
    <3> HIDE DEF r, e
    <3>6. pc' = [pc EXCEPT ![Game] = "sound"] /\ job' = [job EXCEPT ![Game] = r]
      BY <2>3, <3>1 DEF Insert, r
    <3>7. Jobs'
      BY <1>0, <1>g, <3>3, <3>5, <3>6, JobStep
    <3>8. cache' \in [1 .. NCache -> Entry]
      <4>1. cache' = [cache EXCEPT ![c] = e]
        BY <3>1 DEF e
      <4> QED BY ONLY <4>1, <3>4, Typed DEF Typed
    <3> QED BY <1>0, <2>3, <3>7, <3>8 DEF Insert, Typed, mixer
  <2>4. CASE InsertRefused
    BY <1>0, <1>g, <1>s, <2>4, PcStep, Words DEF InsertRefused, sound, mixer
  <2>5. CASE Drop
    BY <1>0, <1>g, <1>s, <2>5, IdleStep DEF Drop, sound, mixer
  <2>6. CASE NewSound
    <3>1. Jobs'
      BY <1>0, <1>g, <2>6, IdleStep DEF NewSound
    <3>2. CASE \E h \in 1 .. NSounds : snd' = [snd EXCEPT ![h] = job[Game].slot] /\ UNCHANGED cache
      <4>1. snd' \in [1 .. NSounds -> 0 .. NCache]
        BY <2>0, <3>2 DEF Typed
      <4> QED BY <2>6, <3>1, <3>2, <4>1 DEF NewSound, Typed, mixer
    <3>3. CASE cache' = [cache EXCEPT ![job[Game].slot].refs = @ - 1] /\ UNCHANGED snd
      <4>1. cache' = [cache EXCEPT ![job[Game].slot]
                        = [cache[job[Game].slot] EXCEPT !.refs = cache[job[Game].slot].refs + (-1)]]
        <5>1. ASSUME NEW e \in 1 .. NCache PROVE cache[e].refs - 1 = cache[e].refs + (-1)
          BY DEF Typed, Entry
        <5> QED BY <3>3, <5>1 DEF Typed
      <4>2. cache' \in [1 .. NCache -> Entry]
        BY <4>1, RefsKeep, -1 \in Int
      <4> QED BY <2>6, <3>1, <3>3, <4>2 DEF NewSound, Typed, mixer
    <3> QED BY <2>6, <3>2, <3>3 DEF NewSound
  <2> QED BY <1>7, <2>1, <2>2, <2>3, <2>4, <2>5, <2>6 DEF Creates
<1>8. ASSUME NEW h \in 1 .. NSounds, Snd_release(h) PROVE Typed'
  <2>1. cache' = [cache EXCEPT ![snd[h]] = [cache[snd[h]] EXCEPT !.refs = cache[snd[h]].refs + (-1)]]
    <3>1. ASSUME NEW e \in 1 .. NCache PROVE cache[e].refs - 1 = cache[e].refs + (-1)
      BY DEF Typed, Entry
    <3> QED BY <1>8, <3>1 DEF Snd_release, Typed
  <2>2. cache' \in [1 .. NCache -> Entry]
    BY <2>1, RefsKeep, -1 \in Int
  <2>3. snd' \in [1 .. NSounds -> 0 .. NCache]
    <3>1. 0 \in 0 .. NCache
      BY HeapAssumption
    <3> QED BY <1>8, <3>1 DEF Snd_release, Typed
  <2> QED BY <1>0, <1>8, <2>2, <2>3 DEF Snd_release, Typed, Jobs, mixer
<1>9. CASE Mixes
  <2>1. CASE MixBegin
    BY <1>0, <1>u, <2>1 DEF MixBegin, sound
  <2>2. CASE MixEnd
    <3>1. retire' \in Seq(Mem)
      BY <2>2 DEF MixEnd
    <3> QED BY <2>2, <3>1 DEF MixEnd, Typed, Jobs, sound
  <2>3. CASE MixFrees
    BY <1>0, <1>u, <2>3 DEF MixFrees, sound
  <2> QED BY <1>9, <2>1, <2>2, <2>3 DEF Mixes
<1>10. CASE UNCHANGED vars
  BY <1>0, <1>u, <1>10 DEF vars, sound, mixer
<1> QED BY <1>1, <1>2, <1>3, <1>4, <1>5, <1>6, <1>7, <1>8, <1>9, <1>10 DEF Next

-----------------------------------------------------------------------------
(* What the grain reads.                                                   *)

\* Nothing that can be read went away.
LEMMA StillKept ==
  ASSUME ReadsKept, reads' \subseteq reads, mixing' = mixing,
         \A m \in reads : Kept(m) => Kept(m)'
  PROVE  ReadsKept'
BY DEF ReadsKept

LEMMA EvictKeepsReads ==
  ASSUME HeapIInv, NEW c \in 1 .. NCache, Evict(c)
  PROVE  EmptyHasNothing' /\ ReadsKept'
<1> USE DEF HeapIInv
<1>0. cache' = [cache EXCEPT ![c] = Unused] /\ cache \in [1 .. NCache -> Entry]
      /\ reads' = reads /\ mixing' = mixing /\ retire \in Seq(Mem)
  BY DEF Evict, Typed
<1>1. EmptyHasNothing'
  BY <1>0, UnusedIsEntry DEF EmptyHasNothing
<1>2. ASSUME NEW m \in reads, Kept(m) PROVE Kept(m)'
  <2>0. mixing /\ m # None
    BY DEF ReadsKept
  <2>1. \/ retire' = Append(retire, cache[c].mem) /\ leaked' = leaked
        \/ retire' = retire /\ leaked' = leaked \cup ({cache[c].mem} \ {None})
    BY <2>0 DEF Evict, audio_pcm_free_deferred
  <2>2. CASE \E d \in 1 .. NCache : cache[d].mem = m
    <3>1. PICK d \in 1 .. NCache : cache[d].mem = m
      BY <2>2
    <3>2. CASE d # c
      BY <1>0, <3>1, <3>2 DEF Kept
    <3>3. CASE d = c /\ retire' = Append(retire, m)
      <4>1. cache[c].mem \in Mem
        BY <1>0 DEF Entry
      <4>2. m \in Mem
        BY <3>1, <3>3, <4>1
      <4>3. Len(retire) + 1 \in DOMAIN retire' /\ retire'[Len(retire) + 1] = m
        BY <1>0, <3>3, <4>2
      <4> QED BY <4>3 DEF Kept
    <3>4. CASE d = c /\ leaked' = leaked \cup ({m} \ {None})
      BY <2>0, <3>4 DEF Kept
    <3> QED BY <2>1, <3>1, <3>2, <3>3, <3>4
  <2>3. CASE \E i \in DOMAIN retire : retire[i] = m
    <3>1. PICK i \in DOMAIN retire : retire[i] = m
      BY <2>3
    <3>2. cache[c].mem \in Mem
      BY <1>0 DEF Entry
    <3>3. i \in DOMAIN retire' /\ retire'[i] = m
      BY <1>0, <2>1, <3>1, <3>2
    <3> QED BY <3>3 DEF Kept
  <2>4. CASE m \in leaked
    BY <2>1, <2>4 DEF Kept
  <2> QED BY <1>2, <2>2, <2>3, <2>4 DEF Kept
<1> QED BY <1>0, <1>1, <1>2, StillKept

LEMMA ReadsStep ==
  ASSUME HeapIInv, [Next]_vars
  PROVE  EmptyHasNothing' /\ ReadsKept'
<1> USE DEF HeapIInv
<1>u. CASE UNCHANGED <<cache, mixer>>
  BY <1>u DEF mixer, EmptyHasNothing, ReadsKept, Kept
<1>r. ASSUME UNCHANGED mixer,
             \A e \in 1 .. NCache : cache'[e].mem = cache[e].mem /\ cache'[e].clip = cache[e].clip
      PROVE  EmptyHasNothing' /\ ReadsKept'
  BY <1>r DEF mixer, EmptyHasNothing, ReadsKept, Kept
<1>d. ASSUME NEW c, cache' = [cache EXCEPT ![c].refs = @ - 1]
      PROVE  \A e \in 1 .. NCache : cache'[e].mem = cache[e].mem /\ cache'[e].clip = cache[e].clip
  <2>1. ASSUME NEW e \in 1 .. NCache PROVE cache[e].refs - 1 = cache[e].refs + (-1)
    BY DEF Typed, Entry
  <2>2. cache' = [cache EXCEPT ![c] = [cache[c] EXCEPT !.refs = cache[c].refs + (-1)]]
    BY <1>d, <2>1 DEF Typed
  <2> QED BY <2>2, RefsKeep, -1 \in Int
<1>1. ASSUME NEW t, NEW n, Znwj_diag(t, n) PROVE EmptyHasNothing' /\ ReadsKept'
  BY <1>1, <1>u DEF Znwj_diag, Asks, sound
<1>2. ASSUME NEW n, malloc_diag(n) PROVE EmptyHasNothing' /\ ReadsKept'
  BY <1>2, <1>u DEF malloc_diag, Asks, sound
<1>3. ASSUME NEW n, NEW m, realloc_diag(m, n) PROVE EmptyHasNothing' /\ ReadsKept'
  BY <1>3, <1>u DEF realloc_diag, Asks, sound
<1>4. ASSUME NEW t, NEW m, ZdlPv_diag(t, m) PROVE EmptyHasNothing' /\ ReadsKept'
  BY <1>4, <1>u DEF ZdlPv_diag, sound
<1>5. ASSUME NEW t \in Threads, Serves(t) PROVE EmptyHasNothing' /\ ReadsKept'
  <2>1. CASE audio_cache_purge(t)
    BY <2>1, EvictKeepsReads DEF audio_cache_purge, Evictable
  <2>2. CASE Bigalloc(t) \/ Malloc(t) \/ bigalloc_rescue(t)
    BY <2>2, <1>u DEF Bigalloc, Malloc, bigalloc_rescue, sound
  <2>3. CASE FreeOld(t) \/ Loop(t) \/ heap_new_handler(t)
    BY <2>3, <1>u DEF FreeOld, Loop, heap_new_handler, sound
  <2> QED BY <1>5, <2>1, <2>2, <2>3 DEF Serves
<1>6. ASSUME NEW k, createSound(k) PROVE EmptyHasNothing' /\ ReadsKept'
  <2>1. ASSUME NEW c, cache' = [cache EXCEPT ![c].refs = @ + 1], UNCHANGED mixer
        PROVE  EmptyHasNothing' /\ ReadsKept'
    <3>1. cache' = [cache EXCEPT ![c] = [cache[c] EXCEPT !.refs = cache[c].refs + 1]]
      BY <2>1
    <3> QED BY <1>r, <2>1, <3>1, RefsKeep, 1 \in Int
  <2>2. CASE UNCHANGED <<cache, mixer>>
    BY <2>2, <1>u
  <2> QED BY <1>6, <2>1, <2>2 DEF createSound, Asks
<1>7. CASE Creates
  <2>1. CASE InsertEvicts
    BY <2>1, EvictKeepsReads DEF InsertEvicts, Evictable
  <2>2. CASE Insert
    <3>1. PICK c \in 1 .. NCache :
             /\ cache[c].clip = 0
             /\ cache' = [cache EXCEPT ![c] = [clip |-> job[Game].clip, refs |-> 1, mem |-> job[Game].mem]]
      BY <2>2 DEF Insert, Empty
    <3>2. cache[c].mem = None /\ job[Game].clip # 0
      <4>1. Game \in Threads
        BY HeapAssumption
      <4> QED BY <2>2, <3>1, <4>1 DEF Insert, EmptyHasNothing, Typed, Jobs
    <3>3. cache \in [1 .. NCache -> Entry]
      BY DEF Typed
    <3>4. EmptyHasNothing'
      BY <3>1, <3>2, <3>3 DEF EmptyHasNothing
    <3>5. ASSUME NEW m \in reads, Kept(m) PROVE Kept(m)'
      <4>1. m # None
        BY DEF ReadsKept
      <4>2. ASSUME NEW d \in 1 .. NCache, cache[d].mem = m PROVE cache'[d].mem = m
        BY <3>1, <3>2, <3>3, <4>1, <4>2
      <4> QED BY <2>2, <3>5, <4>2 DEF Insert, mixer, Kept
    <3> QED BY <2>2, <3>4, <3>5, StillKept DEF Insert, mixer
  <2>3. CASE NewSound
    BY <1>d, <1>r, <1>u, <2>3 DEF NewSound
  <2>4. CASE InsertBegins \/ InsertRefused \/ Drop
    BY <2>4, <1>u DEF InsertBegins, InsertRefused, Drop, sound
  <2> QED BY <1>7, <2>1, <2>2, <2>3, <2>4 DEF Creates
<1>8. ASSUME NEW h \in 1 .. NSounds, Snd_release(h) PROVE EmptyHasNothing' /\ ReadsKept'
  BY <1>d, <1>r, <1>8 DEF Snd_release
<1>9. CASE Mixes
  <2>1. CASE MixBegin
    <3>1. ASSUME NEW m \in Playable PROVE m # None /\ Kept(m)
      <4>1. PICK h \in 1 .. NSounds : snd[h] # 0 /\ m = cache[snd[h]].mem
        BY DEF Playable
      <4>2. snd[h] \in 1 .. NCache
        BY <4>1, HeapAssumption DEF Typed
      <4> QED BY <4>1, <4>2 DEF Playable, Kept
    <3>2. \A m \in reads' : mixing' /\ m # None /\ Kept(m)
      BY <2>1, <3>1 DEF MixBegin
    <3> QED BY <2>1, <3>2 DEF MixBegin, sound, ReadsKept, Kept, EmptyHasNothing
  <2>2. CASE MixEnd
    BY <2>2 DEF MixEnd, sound, ReadsKept, EmptyHasNothing
  <2>3. CASE MixFrees
    BY <2>3 DEF MixFrees, sound, ReadsKept, Kept, EmptyHasNothing
  <2> QED BY <1>9, <2>1, <2>2, <2>3 DEF Mixes
<1>10. CASE UNCHANGED vars
  BY <1>10, <1>u DEF vars, sound
<1> QED BY <1>1, <1>2, <1>3, <1>4, <1>5, <1>6, <1>7, <1>8, <1>9, <1>10 DEF Next

LEMMA InitHolds == Init => HeapIInv
<1> SUFFICES ASSUME Init PROVE HeapIInv
  OBVIOUS
<1>1. PoolIInv
  BY PoolStarts DEF Init
<1>2. Jobs
  <2>1. "idle" \in Places /\ "idle" \notin Asking /\ "idle" \notin {"trim", "insert"}
    BY DEF Places, Asking
  <2>2. \A t \in Threads : pc[t] = "idle" /\ job[t] = Idle
    BY DEF Init
  <2>3. pc \in [Threads -> Places] /\ job \in [Threads -> Request]
    BY <2>1, IdleIsRequest DEF Init
  <2> QED BY <2>1, <2>2, <2>3, IdleIsRequest DEF Jobs
<1>3. Typed /\ EmptyHasNothing
  <2>1. cache \in [1 .. NCache -> Entry]
    BY UnusedIsEntry DEF Init
  <2>2. 0 \in 0 .. NCache
    BY HeapAssumption
  <2>3. snd \in [1 .. NSounds -> 0 .. NCache]
    BY <2>2 DEF Init
  <2> QED BY <1>2, <2>1, <2>3, UnusedIsEntry DEF Init, Typed, EmptyHasNothing
<1>4. ReadsKept
  BY DEF Init, ReadsKept
<1> QED BY <1>1, <1>3, <1>4 DEF HeapIInv

LEMMA HeapInductive == HeapIInv /\ [Next]_vars => HeapIInv'
BY PoolPart, TypedStep, ReadsStep DEF HeapIInv

\* HeapIInv is an invariant.
THEOREM HeapInvariant == Spec => []HeapIInv
BY InitHolds, HeapInductive, PTL DEF Spec

\* Whatever is asked for, refused, resized, purged and freed, in any order and by any
\* number of threads, the pool's blocks tile its segments (bigalloc.c:183-309).
THEOREM HeapTiled == Spec => []PoolTiled
<1>1. HeapIInv => PoolTiled
  BY PoolIsTiled DEF HeapIInv
<1> QED BY <1>1, HeapInvariant, PTL

\* For a cache, a table of sounds and budgets of any size, the samples a grain reads are
\* the cache's or wait for the grain's end (audio_patch.c:276-296, 519-533).
THEOREM MixedSamplesKept == Spec => []MixedSamplesStay
<1>1. ASSUME HeapIInv, NEW m \in reads
      PROVE  \E o \in Owners(m) : o[1] \in {"cache", "retire", "leaked"}
  <2>1. Kept(m)
    BY <1>1 DEF HeapIInv, ReadsKept
  <2>2. CASE \E c \in 1 .. NCache : cache[c].mem = m
    <3>1. PICK c \in 1 .. NCache : cache[c].mem = m
      BY <2>2
    <3>2. <<"cache", c>> \in Owners(m)
      BY <3>1 DEF Owners
    <3> QED BY <3>2
  <2>3. CASE \E i \in DOMAIN retire : retire[i] = m
    <3>1. PICK i \in DOMAIN retire : retire[i] = m
      BY <2>3
    <3>2. <<"retire", i>> \in Owners(m)
      BY <3>1 DEF Owners
    <3> QED BY <3>2
  <2>4. CASE m \in leaked
    <3>1. <<"leaked", 0>> \in Owners(m)
      BY <2>4 DEF Owners
    <3> QED BY <3>1
  <2> QED BY <2>1, <2>2, <2>3, <2>4 DEF Kept
<1>2. HeapIInv => MixedSamplesStay
  BY <1>1 DEF MixedSamplesStay
<1> QED BY <1>2, HeapInvariant, PTL

-----------------------------------------------------------------------------
(* Who is to give memory back.                                             *)

\* Request r of a thread has m; m is in place i of those of kind k.
JobHas(m, t) == m \in {job[t].mem, job[t].old}
Owns(m, k, i) ==
  \/ k = "cache" /\ i \in 1 .. NCache /\ cache[i].mem = m
  \/ k = "retire" /\ i \in DOMAIN retire /\ retire[i] = m
  \/ k = "ret" /\ i \in DOMAIN ret /\ ret[i] = m
  \/ k = "job" /\ i \in Threads /\ JobHas(m, i)
  \/ k = "game" /\ i = 0 /\ m \in held
  \/ k = "leaked" /\ i = 0 /\ m \in leaked

\* What is in use is in one place, and what is not is in none.
Books ==
  \A m : m # None =>
    /\ m \in InUse <=> \E k, i : Owns(m, k, i)
    /\ \A k, i, l, j : Owns(m, k, i) /\ Owns(m, l, j) => k = l /\ i = j

\* A thread has samples only until they are stored, and an old block only in realloc.
Storing == {"trim", "insert", "drop"}
Holds(l, r) ==
  /\ r.mem # None => l \in Storing
  /\ r.old # None => r.op = "realloc" /\ l \notin Storing \cup {"idle", "sound"}

Phases == \A t \in Threads : Holds(pc[t], job[t])

\* The audio thread frees what a grain left before it begins another.
Returned == ret \in Seq(Mem) /\ (mixing => ret = <<>>)

Small == nl \subseteq 1 .. NLib

OwnIInv == HeapIInv /\ Small /\ Phases /\ Returned /\ Books

-----------------------------------------------------------------------------
(* What becomes of a block.                                                *)

LEMMA NothingMoves ==
  ASSUME Books, InUse' = InUse,
         \A m, k, i : m # None => (Owns(m, k, i)' <=> Owns(m, k, i))
  PROVE  Books'
BY DEF Books

LEMMA BlockComes ==
  ASSUME Books, NEW p, p \notin InUse, p # None, InUse' = InUse \cup {p}, NEW x, NEW y,
         \A m, k, i : m # None =>
           (Owns(m, k, i)' <=> Owns(m, k, i) \/ (m = p /\ k = x /\ i = y))
  PROVE  Books'
BY DEF Books

LEMMA BlockGoes ==
  ASSUME Books, NEW p, InUse' = InUse \ {p}, NEW x, NEW y, p # None => Owns(p, x, y),
         \A m, k, i : m # None =>
           (Owns(m, k, i)' <=> Owns(m, k, i) /\ ~(m = p /\ k = x /\ i = y))
  PROVE  Books'
BY DEF Books

\* p goes from place y of kind x to place w of kind z.
Moves(p, x, y, z, w) ==
  /\ p # None => Owns(p, x, y)
  /\ \A m, k, i : m # None =>
       (Owns(m, k, i)' <=> \/ Owns(m, k, i) /\ ~(m = p /\ k = x /\ i = y)
                           \/ m = p /\ k = z /\ i = w)

LEMMA BlockMoves ==
  ASSUME Books, InUse' = InUse, NEW p, NEW x, NEW y, NEW z, NEW w, Moves(p, x, y, z, w)
  PROVE  Books'
BY DEF Books, Moves

LEMMA LibAndPool == InUse = {<<0, i>> : i \in nl} \cup PoolLive
BY DEF InUse, PoolLive

LEMMA PoolIsAbove == \A p \in PoolLive : p[1] > 0
<1>1. \A p \in PoolLive : p[1] \in 1 .. nseg
  BY LiveIs DEF PoolLive
<1> QED BY <1>1

LEMMA NoneIsFree ==
  ASSUME Small
  PROVE  None \notin InUse
<1>1. None \notin PoolLive
  BY PoolIsAbove DEF None
<1>2. 0 \notin nl
  BY HeapAssumption DEF Small
<1> QED BY <1>1, <1>2, LibAndPool DEF None

LEMMA MallocUses ==
  ASSUME Small, NEW i \in 1 .. NLib, malloc(i), UNCHANGED pool
  PROVE  /\ <<0, i>> \notin InUse /\ <<0, i>> # None
         /\ InUse' = InUse \cup {<<0, i>>}
<1>1. <<0, i>> \notin PoolLive
  BY PoolIsAbove
<1>2. PoolLive' = PoolLive
  BY DEF PoolLive, pool, Live
<1>3. InUse' = {<<0, j>> : j \in nl'} \cup PoolLive'
  BY DEF InUse, PoolLive
<1>4. <<0, i>> # None
  BY HeapAssumption DEF None
<1> QED BY <1>1, <1>2, <1>3, <1>4, LibAndPool DEF malloc

LEMMA TakesUses ==
  ASSUME PoolIInv, NEW n \in Nat \ {0}, NEW p, takes(n, p), UNCHANGED nl
  PROVE  p \notin InUse /\ p # None /\ InUse' = InUse \cup {p}
<1>1. p \notin PoolLive /\ PoolLive' = PoolLive \cup {p} /\ p[1] > 0
  BY TakesLive
<1>2. InUse' = {<<0, j>> : j \in nl'} \cup PoolLive'
  BY DEF InUse, PoolLive
<1>3. p # None /\ p \notin {<<0, j>> : j \in nl}
  BY <1>1 DEF None
<1> QED BY <1>1, <1>2, <1>3, LibAndPool

LEMMA FailsUses ==
  ASSUME PoolIInv, NEW n, takeFails(n), UNCHANGED nl
  PROVE  InUse' = InUse
<1>1. PoolLive' = PoolLive
  BY TakeFailsLive
<1>2. InUse' = {<<0, j>> : j \in nl'} \cup PoolLive'
  BY DEF InUse, PoolLive
<1> QED BY <1>1, <1>2, LibAndPool

LEMMA SameUses ==
  ASSUME UNCHANGED <<pool, nl>>
  PROVE  InUse' = InUse
BY DEF InUse, pool, Live

LEMMA FreeUses ==
  ASSUME PoolIInv, Small, NEW p \in InUse \cup {None}, big_free(p) \/ audio_pcm_free(p)
  PROVE  InUse' = InUse \ {p}
<1>0. InUse' = {<<0, j>> : j \in nl'} \cup PoolLive'
  BY DEF InUse, PoolLive
<1>1. CASE bigalloc_owns(p) /\ bigfree(p) /\ UNCHANGED nl
  <2>1. PoolLive' = PoolLive \ {p}
    BY <1>1, FreeLive
  <2>2. p \notin {<<0, j>> : j \in nl}
    BY <1>1 DEF bigalloc_owns
  <2> QED BY <1>0, <1>1, <2>1, <2>2, LibAndPool
<1>2. CASE ~bigalloc_owns(p) /\ nl' = nl \ {p[2]} /\ UNCHANGED pool
  <2>1. PoolLive' = PoolLive /\ p \notin PoolLive
    BY <1>2, PoolIsAbove DEF PoolLive, pool, Live, bigalloc_owns
  <2>2. p = <<0, p[2]>>
    <3>1. None = <<0, None[2]>>
      BY DEF None
    <3>2. \A q \in {<<0, j>> : j \in nl} : q = <<0, q[2]>>
      OBVIOUS
    <3> QED BY <2>1, <3>1, <3>2, LibAndPool
  <2>3. {<<0, j>> : j \in nl'} = {<<0, j>> : j \in nl} \ {<<0, p[2]>>}
    BY <1>2
  <2> QED BY ONLY <1>0, <2>1, <2>2, <2>3, LibAndPool
<1>3. CASE p = None /\ UNCHANGED <<pool, nl>>
  BY <1>3, SameUses, NoneIsFree
<1> QED BY <1>1, <1>2, <1>3 DEF big_free, audio_pcm_free

\* What is owned is in use.
LEMMA OwnedInUse ==
  ASSUME Books, NEW m, NEW k, NEW i, Owns(m, k, i)
  PROVE  m \in InUse \cup {None}
BY DEF Books

-----------------------------------------------------------------------------
(* How the places change.                                                  *)

JobKept == \A m, t : m # None => (JobHas(m, t)' <=> JobHas(m, t))
JobGets(u, p) == \A m, t : m # None => (JobHas(m, t)' <=> JobHas(m, t) \/ (m = p /\ t = u))
JobLoses(u, p) == \A m, t : m # None => (JobHas(m, t)' <=> JobHas(m, t) /\ ~(m = p /\ t = u))

LEMMA JobChange ==
  ASSUME Jobs, NEW t \in Threads, NEW r, job' = [job EXCEPT ![t] = r], NEW p
  PROVE  /\ r.mem = job[t].mem /\ r.old = job[t].old => JobKept
         /\ job[t].mem = None /\ job[t].old = None /\ {r.mem, r.old} = {p, None} => JobGets(t, p)
         /\ r.mem = None /\ r.old = None /\ {job[t].mem, job[t].old} = {p, None} => JobLoses(t, p)
<1>1. job'[t] = r /\ \A u : u # t => job'[u] = job[u]
  BY DEF Jobs
<1>2. \A m : JobHas(m, t)' <=> m \in {r.mem, r.old}
  BY <1>1 DEF JobHas
<1>3. \A m, u : u # t => (JobHas(m, u)' <=> JobHas(m, u))
  BY <1>1 DEF JobHas
<1>4. \A m : JobHas(m, t) <=> m \in {job[t].mem, job[t].old}
  BY DEF JobHas
<1>5. ASSUME r.mem = job[t].mem /\ r.old = job[t].old PROVE JobKept
  BY ONLY <1>2, <1>3, <1>4, <1>5 DEF JobKept
<1>6. ASSUME job[t].mem = None /\ job[t].old = None /\ {r.mem, r.old} = {p, None} PROVE JobGets(t, p)
  BY ONLY <1>2, <1>3, <1>4, <1>6 DEF JobGets
<1>7. ASSUME r.mem = None /\ r.old = None /\ {job[t].mem, job[t].old} = {p, None} PROVE JobLoses(t, p)
  BY ONLY <1>2, <1>3, <1>4, <1>7 DEF JobLoses
<1> QED BY ONLY <1>5, <1>6, <1>7

LEMMA JobUnchanged ==
  ASSUME UNCHANGED job
  PROVE  JobKept
BY DEF JobKept, JobHas

CacheHas(m, c) == c \in 1 .. NCache /\ cache[c].mem = m
CacheKept == \A m, c : CacheHas(m, c)' <=> CacheHas(m, c)

LEMMA CacheUnchanged ==
  ASSUME UNCHANGED cache \/ \A c \in 1 .. NCache : cache'[c].mem = cache[c].mem
  PROVE  CacheKept
BY DEF CacheKept, CacheHas

\* The other places stay.
Others == retire' = retire /\ ret' = ret /\ leaked' = leaked
GameKept == held' = held

LEMMA OwnsIs ==
  ASSUME NEW m, NEW k, NEW i
  PROVE  Owns(m, k, i) <=>
           \/ k = "cache" /\ CacheHas(m, i)
           \/ k = "retire" /\ i \in DOMAIN retire /\ retire[i] = m
           \/ k = "ret" /\ i \in DOMAIN ret /\ ret[i] = m
           \/ k = "job" /\ i \in Threads /\ JobHas(m, i)
           \/ k = "game" /\ i = 0 /\ m \in held
           \/ k = "leaked" /\ i = 0 /\ m \in leaked
BY DEF Owns, CacheHas

LEMMA Quiet ==
  ASSUME Books, InUse' = InUse, JobKept, CacheKept, Others, GameKept
  PROVE  Books'
<1>1. ASSUME NEW m, NEW k, NEW i, m # None PROVE Owns(m, k, i)' <=> Owns(m, k, i)
  BY <1>1 DEF Owns, JobKept, CacheKept, CacheHas, Others, GameKept
<1> QED BY <1>1, NothingMoves

LEMMA GameGets ==
  ASSUME Books, NEW p, p \notin InUse, p # None, InUse' = InUse \cup {p},
         JobKept, CacheKept, Others, held' = held \cup {p}
  PROVE  Books'
<1>1. ASSUME NEW m, NEW k, NEW i, m # None
      PROVE  Owns(m, k, i)' <=> Owns(m, k, i) \/ (m = p /\ k = "game" /\ i = 0)
  BY <1>1 DEF Owns, JobKept, CacheKept, CacheHas, Others
<1> QED BY ONLY <1>1, Books, p \notin InUse, p # None, InUse' = InUse \cup {p}, BlockComes

LEMMA ThreadGets ==
  ASSUME Books, NEW p, p \notin InUse, p # None, InUse' = InUse \cup {p},
         NEW t \in Threads, JobGets(t, p), CacheKept, Others, GameKept
  PROVE  Books'
<1>1. ASSUME NEW m, NEW k, NEW i, m # None
      PROVE  Owns(m, k, i)' <=> Owns(m, k, i) \/ (m = p /\ k = "job" /\ i = t)
  BY <1>1 DEF Owns, JobGets, CacheKept, CacheHas, Others, GameKept
<1> QED BY ONLY <1>1, Books, p \notin InUse, p # None, InUse' = InUse \cup {p}, BlockComes

LEMMA GameFrees ==
  ASSUME Books, NEW p \in held, InUse' = InUse \ {p},
         JobKept, CacheKept, Others, held' = held \ {p}
  PROVE  Books'
<1>1. ASSUME NEW m, NEW k, NEW i, m # None
      PROVE  Owns(m, k, i)' <=> Owns(m, k, i) /\ ~(m = p /\ k = "game" /\ i = 0)
  BY <1>1 DEF Owns, JobKept, CacheKept, CacheHas, Others
<1>2. Owns(p, "game", 0)
  BY DEF Owns
<1> QED BY <1>1, <1>2, BlockGoes

LEMMA ThreadFrees ==
  ASSUME Books, NEW t \in Threads, NEW p, JobHas(p, t), InUse' = InUse \ {p},
         JobLoses(t, p), CacheKept, Others, GameKept
  PROVE  Books'
<1>1. ASSUME NEW m, NEW k, NEW i, m # None
      PROVE  Owns(m, k, i)' <=> Owns(m, k, i) /\ ~(m = p /\ k = "job" /\ i = t)
  BY <1>1 DEF Owns, JobLoses, CacheKept, CacheHas, Others, GameKept
<1>2. Owns(p, "job", t)
  BY DEF Owns
<1> QED BY <1>1, <1>2, BlockGoes

LEMMA GameToThread ==
  ASSUME Books, NEW p \in held, InUse' = InUse, NEW t \in Threads,
         JobGets(t, p), CacheKept, Others, held' = held \ {p}
  PROVE  Books'
<1>1. ASSUME NEW m, NEW k, NEW i, m # None
      PROVE  Owns(m, k, i)' <=> \/ Owns(m, k, i) /\ ~(m = p /\ k = "game" /\ i = 0)
                                \/ m = p /\ k = "job" /\ i = t
  BY <1>1 DEF Owns, JobGets, CacheKept, CacheHas, Others
<1>2. Owns(p, "game", 0)
  BY DEF Owns
<1>3. Moves(p, "game", 0, "job", t)
  BY ONLY <1>1, <1>2 DEF Moves
<1> QED BY ONLY <1>3, Books, InUse' = InUse, BlockMoves

LEMMA ThreadToGame ==
  ASSUME Books, NEW t \in Threads, NEW p, JobHas(p, t), InUse' = InUse,
         JobLoses(t, p), CacheKept, Others, \A m : m # None => (m \in held' <=> m \in held \/ m = p)
  PROVE  Books'
<1>1. ASSUME NEW m, NEW k, NEW i, m # None
      PROVE  Owns(m, k, i)' <=> \/ Owns(m, k, i) /\ ~(m = p /\ k = "job" /\ i = t)
                                \/ m = p /\ k = "game" /\ i = 0
  BY <1>1 DEF Owns, JobLoses, CacheKept, CacheHas, Others
<1>2. Owns(p, "job", t)
  BY DEF Owns
<1>3. Moves(p, "job", t, "game", 0)
  BY ONLY <1>1, <1>2 DEF Moves
<1> QED BY ONLY <1>3, Books, InUse' = InUse, BlockMoves

\* The cache's entry c gave up or took p.
CacheLoses(c, p) ==
  /\ CacheHas(p, c)
  /\ \A m, d : m # None => (CacheHas(m, d)' <=> CacheHas(m, d) /\ ~(m = p /\ d = c))
CacheGets(c, p) ==
  \A m, d : m # None => (CacheHas(m, d)' <=> CacheHas(m, d) \/ (m = p /\ d = c))

LEMMA CacheChange ==
  ASSUME Typed, NEW c \in 1 .. NCache, NEW e, cache' = [cache EXCEPT ![c] = e]
  PROVE  /\ e.mem = None => CacheLoses(c, cache[c].mem)
         /\ cache[c].mem = None => CacheGets(c, e.mem)
<1>1. cache'[c] = e /\ \A d \in 1 .. NCache : d # c => cache'[d] = cache[d]
  BY DEF Typed
<1>2. \A m, d : d # c => (CacheHas(m, d)' <=> CacheHas(m, d))
  BY <1>1 DEF CacheHas
<1>3. \A m : (CacheHas(m, c)' <=> e.mem = m) /\ (CacheHas(m, c) <=> cache[c].mem = m)
  BY <1>1 DEF CacheHas
<1>4. ASSUME e.mem = None PROVE CacheLoses(c, cache[c].mem)
  BY ONLY <1>2, <1>3, <1>4 DEF CacheLoses
<1>5. ASSUME cache[c].mem = None PROVE CacheGets(c, e.mem)
  BY ONLY <1>2, <1>3, <1>5 DEF CacheGets
<1> QED BY ONLY <1>4, <1>5

LEMMA CacheFrees ==
  ASSUME Books, NEW c, NEW p, InUse' = InUse \ {p}, JobKept, CacheLoses(c, p), Others, GameKept
  PROVE  Books'
<1>1. ASSUME NEW m, NEW k, NEW i, m # None
      PROVE  Owns(m, k, i)' <=> Owns(m, k, i) /\ ~(m = p /\ k = "cache" /\ i = c)
  <2>1. CacheHas(m, i)' <=> CacheHas(m, i) /\ ~(m = p /\ i = c)
    BY <1>1 DEF CacheLoses
  <2> QED BY <1>1, <2>1 DEF Owns, JobKept, CacheHas, Others, GameKept
<1>2. Owns(p, "cache", c)
  BY DEF Owns, CacheLoses, CacheHas
<1> QED BY ONLY <1>1, <1>2, Books, InUse' = InUse \ {p}, BlockGoes

LEMMA CacheToLeaked ==
  ASSUME Books, NEW c, NEW p, InUse' = InUse, JobKept, CacheLoses(c, p), GameKept,
         retire' = retire, ret' = ret, leaked' = leaked \cup ({p} \ {None})
  PROVE  Books'
<1>1. ASSUME NEW m, NEW k, NEW i, m # None
      PROVE  Owns(m, k, i)' <=> \/ Owns(m, k, i) /\ ~(m = p /\ k = "cache" /\ i = c)
                                \/ m = p /\ k = "leaked" /\ i = 0
  <2>1. CacheHas(m, i)' <=> CacheHas(m, i) /\ ~(m = p /\ i = c)
    BY <1>1 DEF CacheLoses
  <2> QED BY <1>1, <2>1 DEF Owns, JobKept, CacheHas, GameKept
<1>2. Owns(p, "cache", c)
  BY DEF Owns, CacheLoses, CacheHas
<1>3. Moves(p, "cache", c, "leaked", 0)
  BY ONLY <1>1, <1>2 DEF Moves
<1> QED BY ONLY <1>3, Books, InUse' = InUse, BlockMoves

LEMMA CacheToRetire ==
  ASSUME Books, NEW c, NEW p \in Mem, InUse' = InUse, JobKept, CacheLoses(c, p), GameKept,
         retire \in Seq(Mem), retire' = Append(retire, p), ret' = ret, leaked' = leaked
  PROVE  Books'
<1>0. PICK z : z = Len(retire) + 1
  OBVIOUS
<1>r. \A m, i : i \in DOMAIN retire' /\ retire'[i] = m
                <=> (i \in DOMAIN retire /\ retire[i] = m) \/ (m = p /\ i = z)
  BY <1>0
<1>1. ASSUME NEW m, NEW k, NEW i, m # None
      PROVE  Owns(m, k, i)' <=> \/ Owns(m, k, i) /\ ~(m = p /\ k = "cache" /\ i = c)
                                \/ m = p /\ k = "retire" /\ i = z
  <2>1. CacheHas(m, i)' <=> CacheHas(m, i) /\ ~(m = p /\ i = c)
    BY <1>1 DEF CacheLoses
  <2>2. i \in DOMAIN retire' /\ retire'[i] = m
        <=> (i \in DOMAIN retire /\ retire[i] = m) \/ (m = p /\ i = z)
    BY <1>r
  <2>3. JobHas(m, i)' <=> JobHas(m, i)
    BY <1>1 DEF JobKept
  <2>4. /\ Owns(m, k, i)' <=>
             \/ k = "cache" /\ CacheHas(m, i)'
             \/ k = "retire" /\ i \in DOMAIN retire' /\ retire'[i] = m
             \/ k = "ret" /\ i \in DOMAIN ret /\ ret[i] = m
             \/ k = "job" /\ i \in Threads /\ JobHas(m, i)'
             \/ k = "game" /\ i = 0 /\ m \in held
             \/ k = "leaked" /\ i = 0 /\ m \in leaked
    BY DEF Owns, CacheHas, GameKept
  <2> QED BY ONLY <2>1, <2>2, <2>3, <2>4, OwnsIs
<1>2. Owns(p, "cache", c)
  BY DEF Owns, CacheLoses, CacheHas
<1>3. Moves(p, "cache", c, "retire", z)
  BY ONLY <1>1, <1>2 DEF Moves
<1> QED BY ONLY <1>3, Books, InUse' = InUse, BlockMoves

\* The insert hands the request's samples to the entry.
LEMMA ThreadToCache ==
  ASSUME Books, NEW t \in Threads, NEW c \in 1 .. NCache, NEW p, JobHas(p, t), InUse' = InUse,
         JobLoses(t, p), CacheGets(c, p), Others, GameKept
  PROVE  Books'
<1>1. ASSUME NEW m, NEW k, NEW i, m # None
      PROVE  Owns(m, k, i)' <=> \/ Owns(m, k, i) /\ ~(m = p /\ k = "job" /\ i = t)
                                \/ m = p /\ k = "cache" /\ i = c
  <2>1. CacheHas(m, i)' <=> CacheHas(m, i) \/ (m = p /\ i = c)
    BY <1>1 DEF CacheGets
  <2> QED BY <1>1, <2>1 DEF Owns, JobLoses, CacheHas, Others, GameKept
<1>2. Owns(p, "job", t)
  BY DEF Owns
<1>3. Moves(p, "job", t, "cache", c)
  BY ONLY <1>1, <1>2 DEF Moves
<1> QED BY ONLY <1>3, Books, InUse' = InUse, BlockMoves

\* The audio thread takes over what waits for the grain's end.
LEMMA RetireToRet ==
  ASSUME Books, InUse' = InUse, JobKept, CacheKept, GameKept, leaked' = leaked,
         ret = <<>>, ret' = retire, retire' = <<>>
  PROVE  Books'
<1>1. ASSUME NEW m, NEW k, NEW i, m # None
      PROVE  Owns(m, k, i)' <=> \/ k \notin {"retire", "ret"} /\ Owns(m, k, i)
                                \/ k = "ret" /\ Owns(m, "retire", i)
  <2>1. DOMAIN retire' = {} /\ DOMAIN ret = {}
    OBVIOUS
  <2>2. /\ Owns(m, k, i)' <=>
             \/ k = "cache" /\ CacheHas(m, i)
             \/ k = "ret" /\ i \in DOMAIN retire /\ retire[i] = m
             \/ k = "job" /\ i \in Threads /\ JobHas(m, i)
             \/ k = "game" /\ i = 0 /\ m \in held
             \/ k = "leaked" /\ i = 0 /\ m \in leaked
    BY <1>1, <2>1 DEF Owns, CacheHas, GameKept, JobKept, CacheKept
  <2>3. Owns(m, "retire", i) <=> i \in DOMAIN retire /\ retire[i] = m
    BY DEF Owns
  <2> QED BY ONLY <2>1, <2>2, <2>3, OwnsIs
<1>2. \A m, i : ~Owns(m, "ret", i)
  BY DEF Owns
<1>3. ASSUME NEW m, m # None
      PROVE  /\ m \in InUse' <=> \E k, i : Owns(m, k, i)'
             /\ \A k, i, l, j : Owns(m, k, i)' /\ Owns(m, l, j)' => k = l /\ i = j
  <2>1. /\ m \in InUse <=> \E k, i : Owns(m, k, i)
        /\ \A k, i, l, j : Owns(m, k, i) /\ Owns(m, l, j) => k = l /\ i = j
    BY <1>3 DEF Books
  <2>2. \A k, i : Owns(m, k, i)' <=> \/ k \notin {"retire", "ret"} /\ Owns(m, k, i)
                                     \/ k = "ret" /\ Owns(m, "retire", i)
    BY <1>1, <1>3
  <2>3. \A i : ~Owns(m, "ret", i)
    BY <1>2
  <2> QED BY ONLY <2>1, <2>2, <2>3, InUse' = InUse
<1> QED BY ONLY <1>3 DEF Books

\* It frees the first, and the others move up.
LEMMA RetFrees ==
  ASSUME Books, ret \in Seq(Mem), ret # <<>>, ret' = Tail(ret), InUse' = InUse \ {Head(ret)},
         JobKept, CacheKept, GameKept, leaked' = leaked, retire' = retire
  PROVE  Books'
<1>0. \A m, i : i \in DOMAIN ret' /\ ret'[i] = m
                <=> i \in Nat /\ i # 0 /\ i + 1 \in DOMAIN ret /\ ret[i + 1] = m
  OBVIOUS
<1>1. ASSUME NEW m, NEW k, NEW i, m # None
      PROVE  Owns(m, k, i)' <=> \/ k # "ret" /\ Owns(m, k, i)
                                \/ k = "ret" /\ i \in Nat /\ i # 0 /\ Owns(m, "ret", i + 1)
  <2>1. i \in DOMAIN ret' /\ ret'[i] = m
        <=> i \in Nat /\ i # 0 /\ i + 1 \in DOMAIN ret /\ ret[i + 1] = m
    BY <1>0
  <2>2. /\ Owns(m, k, i)' <=>
             \/ k = "cache" /\ CacheHas(m, i)
             \/ k = "retire" /\ i \in DOMAIN retire /\ retire[i] = m
             \/ k = "ret" /\ i \in DOMAIN ret' /\ ret'[i] = m
             \/ k = "job" /\ i \in Threads /\ JobHas(m, i)
             \/ k = "game" /\ i = 0 /\ m \in held
             \/ k = "leaked" /\ i = 0 /\ m \in leaked
    BY <1>1 DEF Owns, CacheHas, GameKept, JobKept, CacheKept
  <2>3. Owns(m, "ret", i + 1) <=> i + 1 \in DOMAIN ret /\ ret[i + 1] = m
    BY DEF Owns
  <2> QED BY ONLY <2>1, <2>2, <2>3, OwnsIs
<1>h. 1 \in DOMAIN ret /\ Head(ret) = ret[1]
  OBVIOUS
<1>2. Owns(Head(ret), "ret", 1)
  BY <1>h DEF Owns
<1>d. \A m, i : Owns(m, "ret", i) => i \in Nat /\ i # 0
  BY DEF Owns
<1>3. ASSUME NEW m, m # None
      PROVE  /\ m \in InUse' <=> \E k, i : Owns(m, k, i)'
             /\ \A k, i, l, j : Owns(m, k, i)' /\ Owns(m, l, j)' => k = l /\ i = j
  <2>1. /\ m \in InUse <=> \E k, i : Owns(m, k, i)
        /\ \A k, i, l, j : Owns(m, k, i) /\ Owns(m, l, j) => k = l /\ i = j
    BY <1>3 DEF Books
  <2>2. \A k, i : Owns(m, k, i)' <=> \/ k # "ret" /\ Owns(m, k, i)
                                     \/ k = "ret" /\ i \in Nat /\ i # 0 /\ Owns(m, "ret", i + 1)
    BY <1>1, <1>3
  <2>3. CASE m = Head(ret)
    <3>1. \A k, i : ~Owns(m, k, i)'
      <4>1. \A k, i : Owns(m, k, i) => k = "ret" /\ i = 1
        BY <1>2, <2>1, <2>3
      <4>2. \A i \in Nat : i + 1 = 1 => i = 0
        OBVIOUS
      <4> QED BY ONLY <2>2, <4>1, <4>2
    <3> QED BY ONLY <2>3, <3>1, InUse' = InUse \ {Head(ret)}
  <2>4. CASE m # Head(ret)
    <3>1. \A i : Owns(m, "ret", i) => i \in Nat /\ i # 0 /\ i # 1
      BY <1>d, <1>h, <2>4 DEF Owns
    <3>2. \A i : Owns(m, "ret", i) => /\ i - 1 \in Nat /\ i - 1 # 0 /\ (i - 1) + 1 = i
      BY <3>1
    <3>3. (\E k, i : Owns(m, k, i)) <=> (\E k, i : Owns(m, k, i)')
      <4>1. ASSUME NEW k, NEW i, Owns(m, k, i) PROVE \E l, j : Owns(m, l, j)'
        <5>1. CASE k # "ret"
          BY ONLY <5>1, <4>1, <2>2
        <5>2. CASE k = "ret"
          <6>1. i - 1 \in Nat /\ i - 1 # 0 /\ Owns(m, "ret", (i - 1) + 1)
            BY <3>2, <4>1, <5>2
          <6>2. Owns(m, "ret", i - 1)'
            BY ONLY <6>1, <2>2
          <6> QED BY <6>2
        <5> QED BY <5>1, <5>2
      <4>2. ASSUME NEW k, NEW i, Owns(m, k, i)' PROVE \E l, j : Owns(m, l, j)
        BY ONLY <2>2, <4>2
      <4> QED BY <4>1, <4>2
    <3>4. ASSUME NEW k, NEW i, NEW l, NEW j, Owns(m, k, i)', Owns(m, l, j)'
          PROVE  k = l /\ i = j
      <4>1. CASE k = "ret" /\ l = "ret"
        <5>1. i \in Nat /\ j \in Nat /\ i + 1 = j + 1
          BY ONLY <4>1, <3>4, <2>1, <2>2
        <5> QED BY ONLY <5>1, <4>1
      <4>2. CASE ~(k = "ret" /\ l = "ret")
        BY ONLY <4>2, <3>4, <2>1, <2>2
      <4> QED BY <4>1, <4>2
    <3>5. m \in InUse' <=> m \in InUse
      BY <2>4
    <3> QED BY ONLY <3>3, <3>4, <3>5, <2>1
  <2> QED BY <2>3, <2>4
<1> QED BY ONLY <1>3 DEF Books

-----------------------------------------------------------------------------
(* What the threads do.                                                    *)

LEMMA PhaseStep ==
  ASSUME Jobs, Phases, NEW t \in Threads, NEW l, NEW r,
         pc' = [pc EXCEPT ![t] = l], job' = [job EXCEPT ![t] = r], Holds(l, r)
  PROVE  Phases'
<1>1. pc'[t] = l /\ job'[t] = r /\ \A u \in Threads : u # t => pc'[u] = pc[u] /\ job'[u] = job[u]
  BY DEF Jobs
<1>2. ASSUME NEW u \in Threads PROVE Holds(pc[u], job[u])'
  <2>1. Holds(pc[u], job[u])' <=> Holds(pc'[u], job'[u])
    BY DEF Holds, Storing
  <2>2. Holds(pc[u], job[u])
    BY DEF Phases
  <2> QED BY ONLY <1>1, <2>1, <2>2, Holds(l, r), u \in Threads
<1> QED BY <1>2 DEF Phases

LEMMA PhaseStays ==
  ASSUME Phases, UNCHANGED <<pc, job>>
  PROVE  Phases'
BY DEF Phases, Holds, Storing

\* It goes on with the same request.
LEMMA PhaseGoesOn ==
  ASSUME Jobs, Phases, NEW t \in Threads, NEW l, pc' = [pc EXCEPT ![t] = l], UNCHANGED job,
         Holds(l, job[t])
  PROVE  Phases' /\ JobKept
<1>1. job' = [job EXCEPT ![t] = job[t]]
  BY DEF Jobs
<1> QED BY <1>1, PhaseStep, JobUnchanged

LEMMA IdleHolds ==
  ASSUME NEW l
  PROVE  Holds(l, Idle) /\ Idle.mem = None /\ Idle.old = None
<1>1. Idle.mem = None /\ Idle.old = None
  BY DEF Idle
<1> QED BY <1>1 DEF Holds

\* It is done: what it had is p, if anything.
LEMMA PhaseEnds ==
  ASSUME Jobs, Phases, NEW t \in Threads, NEW l, pc' = [pc EXCEPT ![t] = l],
         job' = [job EXCEPT ![t] = Idle], NEW p, {job[t].mem, job[t].old} = {p, None}
  PROVE  Phases' /\ JobLoses(t, p) /\ (p = None => JobKept)
<1>1. Phases'
  BY IdleHolds, PhaseStep
<1>2. JobLoses(t, p)
  BY IdleHolds, JobChange
<1>3. ASSUME p = None PROVE JobKept
  <2>1. job[t].mem = Idle.mem /\ job[t].old = Idle.old
    BY <1>3, IdleHolds
  <2> QED BY <2>1, JobChange
<1> QED BY <1>1, <1>2, <1>3

\* While memory is asked for, the request has no samples yet.
Serving == {"idle", "bigalloc", "malloc", "rescue", "free", "loop", "purge", "threw", "sound"}

LEMMA ServingHolds ==
  ASSUME Phases, NEW t \in Threads, pc[t] \in Serving
  PROVE  /\ job[t].mem = None
         /\ job[t].op # "realloc" \/ pc[t] \in {"idle", "sound"} => job[t].old = None
BY DEF Phases, Holds, Serving, Storing

LEMMA GotOwn ==
  ASSUME OwnIInv, NEW t \in Threads, pc[t] \in Serving, NEW p \in Mem, Got(t, p),
         p \notin InUse, p # None, InUse' = InUse \cup {p}, CacheKept, Others
  PROVE  Phases' /\ Books'
<1>0. Jobs /\ Phases /\ Books
  BY DEF OwnIInv, HeapIInv, Typed
<1>1. CASE /\ job[t].op \in {"new", "malloc"}
           /\ held' = held \cup {p}
           /\ pc' = [pc EXCEPT ![t] = "idle"] /\ job' = [job EXCEPT ![t] = Idle]
  <2>1. job[t].mem = None /\ job[t].old = None
    BY <1>0, <1>1, ServingHolds
  <2>2. Phases' /\ JobKept
    <3>1. {job[t].mem, job[t].old} = {None, None}
      BY <2>1
    <3> QED BY ONLY <1>0, <1>1, <3>1, PhaseEnds, t \in Threads
  <2> QED BY <1>0, <1>1, <2>2, GameGets
<1>2. CASE /\ job[t].op = "realloc"
           /\ held' = held \cup {p}
           /\ pc' = [pc EXCEPT ![t] = "free"] /\ UNCHANGED job
  <2>1. job[t].mem = None
    BY <1>0, ServingHolds
  <2>2. Holds("free", job[t])
    BY <1>2, <2>1 DEF Holds, Storing
  <2>3. Phases' /\ JobKept
    BY ONLY <1>0, <1>2, <2>2, PhaseGoesOn, t \in Threads
  <2> QED BY <1>0, <1>2, <2>3, GameGets
<1>3. CASE /\ job[t].op = "decode"
           /\ pc' = [pc EXCEPT ![t] = "trim"]
           /\ job' = [job EXCEPT ![t].mem = p] /\ UNCHANGED held
  <2>1. job[t].mem = None /\ job[t].old = None
    BY <1>0, <1>3, ServingHolds
  <2> DEFINE r == [job[t] EXCEPT !.mem = p]
  <2>2. r.mem = p /\ r.old = job[t].old
    BY <1>0 DEF Jobs, Request
  <2>3. job' = [job EXCEPT ![t] = r]
    BY <1>0, <1>3
  <2> HIDE DEF r
  <2>4. Holds("trim", r)
    BY <2>1, <2>2 DEF Holds, Storing
  <2>5. Phases'
    BY ONLY <1>0, <1>3, <2>3, <2>4, PhaseStep, t \in Threads
  <2>6. JobGets(t, p)
    <3>1. {r.mem, r.old} = {p, None}
      BY <2>1, <2>2
    <3> QED BY ONLY <1>0, <2>1, <2>3, <3>1, JobChange, t \in Threads
  <2>7. GameKept
    BY <1>3 DEF GameKept
  <2> QED BY <1>0, <2>5, <2>6, <2>7, ThreadGets
<1> QED BY <1>1, <1>2, <1>3 DEF Got

\* Nothing was got, and the request goes on or comes to nothing.
LEMMA RefusedOwn ==
  ASSUME OwnIInv, NEW t \in Threads, pc[t] \in Serving, Refused(t),
         InUse' = InUse, CacheKept, Others
  PROVE  Phases' /\ Books'
<1>0. Jobs /\ Phases /\ Books
  BY DEF OwnIInv, HeapIInv, Typed
<1>m. job[t].mem = None
  BY <1>0, ServingHolds
<1>1. CASE job[t].op = "new" /\ pc' = [pc EXCEPT ![t] = "loop"] /\ UNCHANGED <<job, held>>
  <2>1. job[t].old = None
    BY <1>0, <1>1, ServingHolds
  <2>2. Holds("loop", job[t])
    BY <1>m, <2>1 DEF Holds
  <2>3. Phases' /\ JobKept /\ GameKept
    BY <1>0, <1>1, <2>2, PhaseGoesOn DEF GameKept
  <2> QED BY <1>0, <2>3, Quiet
<1>2. CASE /\ job[t].op \in {"malloc", "realloc"}
           /\ held' = held \cup ({job[t].old} \ {None})
           /\ pc' = [pc EXCEPT ![t] = "idle"] /\ job' = [job EXCEPT ![t] = Idle]
  <2>1. {job[t].mem, job[t].old} = {job[t].old, None}
    BY <1>m
  <2>2. Phases' /\ JobLoses(t, job[t].old)
    BY ONLY <1>0, <1>2, <2>1, PhaseEnds, t \in Threads
  <2>3. JobHas(job[t].old, t)
    BY DEF JobHas
  <2>4. \A m : m # None => (m \in held' <=> m \in held \/ m = job[t].old)
    BY <1>2
  <2> QED BY <1>0, <2>2, <2>3, <2>4, ThreadToGame
<1>3. CASE job[t].op = "decode" /\ UNCHANGED held
           /\ pc' = [pc EXCEPT ![t] = "idle"] /\ job' = [job EXCEPT ![t] = Idle]
  <2>1. {job[t].mem, job[t].old} = {None, None}
    BY <1>0, <1>3, <1>m, ServingHolds
  <2>2. Phases' /\ JobKept
    BY ONLY <1>0, <1>3, <2>1, PhaseEnds, t \in Threads
  <2> QED BY <1>0, <1>3, <2>2, Quiet DEF GameKept
<1>4. CASE job[t].op = "decode" /\ UNCHANGED held
           /\ pc' = [pc EXCEPT ![t] = "trim"] /\ UNCHANGED job
  <2>1. job[t].old = None
    BY <1>0, <1>4, ServingHolds
  <2>2. Holds("trim", job[t])
    BY <1>m, <2>1 DEF Holds
  <2>3. Phases' /\ JobKept /\ GameKept
    BY <1>0, <1>4, <2>2, PhaseGoesOn DEF GameKept
  <2> QED BY <1>0, <2>3, Quiet
<1> QED BY <1>1, <1>2, <1>3, <1>4 DEF Refused

LEMMA AsksOwn ==
  ASSUME OwnIInv, NEW t \in Threads, NEW r, Asks(t, r), r.mem = None, CacheKept,
         \/ r.old = None /\ UNCHANGED held
         \/ r.old \in held /\ r.op = "realloc" /\ held' = held \ {r.old}
  PROVE  Phases' /\ Books'
<1>0. Jobs /\ Phases /\ Books
  BY DEF OwnIInv, HeapIInv, Typed
<1>1. PICK l \in Asking : pc' = [pc EXCEPT ![t] = l]
  BY DEF Asks, Asking
<1>2. pc[t] = "idle" /\ job' = [job EXCEPT ![t] = r] /\ UNCHANGED <<pool, nl>> /\ Others
  BY DEF Asks, Others, mixer
<1>3. job[t].mem = None /\ job[t].old = None
  BY <1>0, <1>2, ServingHolds DEF Serving
<1>4. InUse' = InUse
  BY <1>2, SameUses
<1>5. Holds(l, r)
  BY <1>1 DEF Holds, Asking, Storing
<1>6. Phases'
  BY ONLY <1>0, <1>1, <1>2, <1>5, PhaseStep, t \in Threads
<1>7. CASE r.old = None /\ UNCHANGED held
  <2>1. r.mem = job[t].mem /\ r.old = job[t].old
    BY <1>3, <1>7
  <2>2. JobKept
    BY ONLY <1>0, <1>2, <2>1, JobChange, t \in Threads
  <2> QED BY <1>0, <1>2, <1>4, <1>6, <1>7, <2>2, Quiet DEF GameKept
<1>8. CASE r.old \in held /\ r.op = "realloc" /\ held' = held \ {r.old}
  <2>1. {r.mem, r.old} = {r.old, None}
    OBVIOUS
  <2>2. JobGets(t, r.old)
    BY ONLY <1>0, <1>2, <1>3, <2>1, JobChange, t \in Threads
  <2> QED BY <1>0, <1>2, <1>4, <1>6, <1>8, <2>2, GameToThread
<1> QED BY <1>6, <1>7, <1>8

LEMMA EvictOwn ==
  ASSUME OwnIInv, NEW c \in 1 .. NCache, Evict(c), JobKept, GameKept
  PROVE  Books'
<1>0. Typed /\ Books /\ PoolIInv /\ Small
  BY DEF OwnIInv, HeapIInv
<1> DEFINE p == cache[c].mem
<1>1. CacheLoses(c, p)
  <2>1. cache' = [cache EXCEPT ![c] = Unused] /\ Unused.mem = None
    BY DEF Evict, Unused
  <2> QED BY ONLY <1>0, <2>1, CacheChange, c \in 1 .. NCache
<1>2. p \in Mem
  BY <1>0 DEF Typed, Entry
<1>3. p \in InUse \cup {None}
  <2>1. Owns(p, "cache", c)
    BY DEF Owns
  <2> QED BY <1>0, <2>1, OwnedInUse
<1>4. ret' = ret /\ retire \in Seq(Mem)
  BY <1>0 DEF Evict, Typed
<1> HIDE DEF p
<1>5. CASE retire' = Append(retire, p) /\ UNCHANGED <<leaked, pool, nl>>
  BY ONLY <1>0, <1>1, <1>2, <1>4, <1>5, SameUses, CacheToRetire, JobKept, GameKept
<1>6. CASE leaked' = leaked \cup ({p} \ {None}) /\ UNCHANGED <<retire, pool, nl>>
  BY ONLY <1>0, <1>1, <1>4, <1>6, SameUses, CacheToLeaked, JobKept, GameKept
<1>7. CASE audio_pcm_free(p) /\ UNCHANGED <<retire, leaked>>
  <2>1. InUse' = InUse \ {p}
    BY ONLY <1>0, <1>3, <1>7, FreeUses
  <2>2. Others
    BY <1>4, <1>7 DEF Others
  <2> QED BY ONLY <1>0, <1>1, <2>1, <2>2, CacheFrees, JobKept, GameKept
<1> QED BY <1>5, <1>6, <1>7 DEF Evict, audio_pcm_free_deferred, p

\* One step of a thread that is being served.
LEMMA ServesOwn ==
  ASSUME OwnIInv, NEW t \in Threads, Serves(t)
  PROVE  Phases' /\ Books'
<1>0. Jobs /\ Phases /\ Books /\ PoolIInv /\ Small /\ held \subseteq Mem /\ Typed
  BY DEF OwnIInv, HeapIInv, Typed
<1>n. pc[t] \in Asking => job[t].n \in Nat \ {0}
  BY <1>0 DEF Jobs, Request
<1>p. \A m : m \in Segs \X (0 .. SegSize - 1) => m \in Mem
  BY DEF Mem, Segs
<1>1. CASE Bigalloc(t)
  <2>0. /\ pc[t] \in Serving /\ pc[t] \in Asking /\ CacheKept /\ Others /\ UNCHANGED nl
        /\ pc[t] = "bigalloc"
    BY <1>1, CacheUnchanged DEF Bigalloc, Serving, Asking, sound, mixer, Others
  <2>1. CASE \E m \in Segs \X (0 .. SegSize - 1) : takes(job[t].n, m) /\ Got(t, m)
    <3>1. PICK m \in Mem : takes(job[t].n, m) /\ Got(t, m)
      BY <1>p, <2>1
    <3>2. m \notin InUse /\ m # None /\ InUse' = InUse \cup {m}
      BY <1>0, <1>n, <2>0, <3>1, TakesUses
    <3> QED BY ONLY <2>0, <3>1, <3>2, GotOwn, OwnIInv, t \in Threads
  <2>2. CASE takeFails(job[t].n) /\ pc' = [pc EXCEPT ![t] = "malloc"] /\ UNCHANGED <<job, held>>
    <3>1. InUse' = InUse
      BY <1>0, <2>0, <2>2, FailsUses
    <3>2. Holds("malloc", job[t])
      BY <1>0, <2>0 DEF Phases, Holds, Storing
    <3>3. Phases' /\ JobKept
      BY ONLY <1>0, <2>2, <3>2, PhaseGoesOn, t \in Threads
    <3> QED BY <1>0, <2>0, <2>2, <3>1, <3>3, Quiet DEF GameKept
  <2> QED BY <1>1, <2>1, <2>2 DEF Bigalloc
<1>2. CASE Malloc(t)
  <2>0. /\ pc[t] \in Serving /\ CacheKept /\ Others /\ UNCHANGED pool
        /\ pc[t] = "malloc"
    BY <1>2, CacheUnchanged DEF Malloc, Serving, sound, mixer, Others
  <2>1. CASE \E i \in 1 .. NLib : malloc(i) /\ Got(t, <<0, i>>)
    <3>1. PICK i \in 1 .. NLib : malloc(i) /\ Got(t, <<0, i>>)
      BY <2>1
    <3>2. <<0, i>> \notin InUse /\ <<0, i>> # None /\ InUse' = InUse \cup {<<0, i>>}
      BY <1>0, <2>0, <3>1, MallocUses
    <3>3. <<0, i>> \in Mem
      BY DEF Mem
    <3> QED BY ONLY <2>0, <3>1, <3>2, <3>3, GotOwn, OwnIInv, t \in Threads
  <2>2. CASE /\ Resizes(t)
             /\ held' = held \cup {job[t].old}
             /\ pc' = [pc EXCEPT ![t] = "idle"] /\ job' = [job EXCEPT ![t] = Idle]
             /\ UNCHANGED nl
    <3>1. InUse' = InUse
      BY <2>0, <2>2, SameUses
    <3>2. {job[t].mem, job[t].old} = {job[t].old, None}
      BY <1>0, <2>0, ServingHolds
    <3>3. Phases' /\ JobLoses(t, job[t].old)
      BY ONLY <1>0, <2>2, <3>2, PhaseEnds, t \in Threads
    <3>4. JobHas(job[t].old, t)
      BY DEF JobHas
    <3>5. \A m : m # None => (m \in held' <=> m \in held \/ m = job[t].old)
      BY <2>2
    <3> QED BY <1>0, <2>0, <3>1, <3>3, <3>4, <3>5, ThreadToGame
  <2>3. CASE pc' = [pc EXCEPT ![t] = "rescue"] /\ UNCHANGED <<nl, job, held>>
    <3>1. InUse' = InUse
      BY <2>0, <2>3, SameUses
    <3>2. Holds("rescue", job[t])
      BY <1>0, <2>0 DEF Phases, Holds, Storing
    <3>3. Phases' /\ JobKept
      BY ONLY <1>0, <2>3, <3>2, PhaseGoesOn, t \in Threads
    <3> QED BY <1>0, <2>0, <2>3, <3>1, <3>3, Quiet DEF GameKept
  <2> QED BY <1>2, <2>1, <2>2, <2>3 DEF Malloc
<1>3. CASE bigalloc_rescue(t)
  <2>0. /\ pc[t] \in Serving /\ pc[t] \in Asking /\ CacheKept /\ Others /\ UNCHANGED nl
    BY <1>3, CacheUnchanged DEF bigalloc_rescue, Serving, Asking, sound, mixer, Others
  <2>1. CASE \E m \in Segs \X (0 .. SegSize - 1) : takes(job[t].n, m) /\ Got(t, m)
    <3>1. PICK m \in Mem : takes(job[t].n, m) /\ Got(t, m)
      BY <1>p, <2>1
    <3>2. m \notin InUse /\ m # None /\ InUse' = InUse \cup {m}
      BY <1>0, <1>n, <2>0, <3>1, TakesUses
    <3> QED BY ONLY <2>0, <3>1, <3>2, GotOwn, OwnIInv, t \in Threads
  <2>2. CASE takeFails(job[t].n) /\ Refused(t)
    <3>1. InUse' = InUse
      BY <1>0, <2>0, <2>2, FailsUses
    <3> QED BY ONLY <2>0, <2>2, <3>1, RefusedOwn, OwnIInv, t \in Threads
  <2> QED BY <1>3, <2>1, <2>2 DEF bigalloc_rescue
<1>4. CASE FreeOld(t)
  <2>0. /\ pc[t] \in Serving /\ CacheKept /\ Others /\ GameKept
    BY <1>4, CacheUnchanged DEF FreeOld, Serving, sound, mixer, Others, GameKept
  <2>1. JobHas(job[t].old, t)
    BY DEF JobHas
  <2>2. InUse' = InUse \ {job[t].old}
    <3>1. Owns(job[t].old, "job", t)
      BY <2>1 DEF Owns
    <3>2. job[t].old \in InUse \cup {None}
      BY <1>0, <3>1, OwnedInUse
    <3> QED BY <1>0, <1>4, <3>2, FreeUses DEF FreeOld
  <2>3. {job[t].mem, job[t].old} = {job[t].old, None}
    BY <1>0, <2>0, ServingHolds
  <2>4. pc' = [pc EXCEPT ![t] = "idle"] /\ job' = [job EXCEPT ![t] = Idle]
    BY <1>4 DEF FreeOld
  <2>5. Phases' /\ JobLoses(t, job[t].old)
    BY ONLY <1>0, <2>3, <2>4, PhaseEnds, t \in Threads
  <2> QED BY <1>0, <2>0, <2>1, <2>2, <2>5, ThreadFrees
<1>5. CASE Loop(t)
  <2>0. /\ pc[t] \in Serving /\ CacheKept /\ Others /\ UNCHANGED pool
        /\ pc[t] = "loop"
    BY <1>5, CacheUnchanged DEF Loop, Serving, sound, mixer, Others
  <2>1. CASE \E i \in 1 .. NLib : malloc(i) /\ Got(t, <<0, i>>)
    <3>1. PICK i \in 1 .. NLib : malloc(i) /\ Got(t, <<0, i>>)
      BY <2>1
    <3>2. <<0, i>> \notin InUse /\ <<0, i>> # None /\ InUse' = InUse \cup {<<0, i>>}
      BY <1>0, <2>0, <3>1, MallocUses
    <3>3. <<0, i>> \in Mem
      BY DEF Mem
    <3> QED BY ONLY <2>0, <3>1, <3>2, <3>3, GotOwn, OwnIInv, t \in Threads
  <2>2. CASE /\ pc' = [pc EXCEPT ![t] = "purge"]
             /\ job' = [job EXCEPT ![t].got = FALSE] /\ UNCHANGED <<nl, held>>
    <3> DEFINE r == [job[t] EXCEPT !.got = FALSE]
    <3>1. InUse' = InUse
      BY <2>0, <2>2, SameUses
    <3>2. r.mem = job[t].mem /\ r.old = job[t].old /\ r.op = job[t].op
      BY <1>0 DEF Jobs, Request
    <3>3. job' = [job EXCEPT ![t] = r]
      BY <1>0, <2>2
    <3> HIDE DEF r
    <3>4. Holds("purge", r)
      BY <1>0, <2>0, <3>2 DEF Phases, Holds, Storing
    <3>5. Phases'
      BY ONLY <1>0, <2>2, <3>3, <3>4, PhaseStep, t \in Threads
    <3>6. JobKept
      BY ONLY <1>0, <3>2, <3>3, JobChange, t \in Threads
    <3> QED BY <1>0, <2>0, <2>2, <3>1, <3>5, <3>6, Quiet DEF GameKept
  <2>3. CASE pc' = [pc EXCEPT ![t] = "threw"] /\ UNCHANGED <<nl, job, held>>
    <3>1. InUse' = InUse
      BY <2>0, <2>3, SameUses
    <3>2. Holds("threw", job[t])
      BY <1>0, <2>0 DEF Phases, Holds, Storing
    <3>3. Phases' /\ JobKept
      BY ONLY <1>0, <2>3, <3>2, PhaseGoesOn, t \in Threads
    <3> QED BY <1>0, <2>0, <2>3, <3>1, <3>3, Quiet DEF GameKept
  <2> QED BY <1>5, <2>1, <2>2, <2>3 DEF Loop
<1>6. CASE audio_cache_purge(t)
  <2>1. PICK c \in 1 .. NCache : Evict(c) /\ job' = [job EXCEPT ![t].got = @ \/ Bytes(c) > 0]
    BY <1>6 DEF audio_cache_purge, Evictable
  <2>2. PICK g : g = (job[t].got \/ Bytes(c) > 0)
    OBVIOUS
  <2> DEFINE r == [job[t] EXCEPT !.got = g]
  <2>3. r.mem = job[t].mem /\ r.old = job[t].old /\ r.op = job[t].op
    BY <1>0 DEF Jobs, Request
  <2>4. job' = [job EXCEPT ![t] = r]
    BY ONLY <1>0, <2>1, <2>2, Zenon DEF Jobs
  <2> HIDE DEF r
  <2>5. pc[t] = "purge" /\ pc' = pc /\ GameKept
    BY <1>6 DEF audio_cache_purge, GameKept
  <2>6. Holds("purge", r)
    BY <1>0, <2>3, <2>5 DEF Phases, Holds
  <2>7. pc' = [pc EXCEPT ![t] = "purge"]
    BY <1>0, <2>5 DEF Jobs
  <2>8. Phases'
    BY ONLY <1>0, <2>4, <2>6, <2>7, PhaseStep, t \in Threads
  <2>9. JobKept
    BY ONLY <1>0, <2>3, <2>4, JobChange, t \in Threads
  <2> QED BY <2>1, <2>5, <2>8, <2>9, EvictOwn
<1>7. CASE heap_new_handler(t)
  <2>1. /\ CacheKept /\ Others /\ UNCHANGED <<pool, nl>> /\ GameKept
        /\ pc[t] = "purge" /\ pc' = [pc EXCEPT ![t] = "loop"] /\ UNCHANGED job
    BY <1>7, CacheUnchanged DEF heap_new_handler, sound, mixer, Others, GameKept
  <2>2. Holds("loop", job[t])
    BY <1>0, <2>1 DEF Phases, Holds, Storing
  <2>3. Phases' /\ JobKept
    BY ONLY <1>0, <2>1, <2>2, PhaseGoesOn, t \in Threads
  <2> QED BY <1>0, <2>1, <2>3, SameUses, Quiet
<1> QED BY <1>1, <1>2, <1>3, <1>4, <1>5, <1>6, <1>7 DEF Serves

\* One step of a sound's creation.
LEMMA CreatesOwn ==
  ASSUME OwnIInv, Creates
  PROVE  Phases' /\ Books'
<1> USE HeapAssumption
<1>0. Jobs /\ Phases /\ Books /\ PoolIInv /\ Small /\ Typed /\ EmptyHasNothing
  BY DEF OwnIInv, HeapIInv, Typed
<1>g. Game \in Threads
  OBVIOUS
<1>h. Holds(pc[Game], job[Game])
  BY <1>0 DEF Phases
<1>s. pc[Game] \in Storing => {job[Game].mem, job[Game].old} = {job[Game].mem, None}
  BY <1>h DEF Holds
<1>1. CASE InsertBegins \/ InsertRefused
  <2>1. PICK l \in Storing : pc' = [pc EXCEPT ![Game] = l]
    BY <1>1 DEF InsertBegins, InsertRefused, Storing
  <2>2. /\ CacheKept /\ Others /\ UNCHANGED <<pool, nl>> /\ GameKept /\ UNCHANGED job
        /\ pc[Game] \in Storing
    BY <1>1, CacheUnchanged DEF InsertBegins, InsertRefused, Storing, sound, mixer, Others, GameKept
  <2>3. Holds(l, job[Game])
    BY <1>h, <2>2 DEF Holds
  <2>4. Phases' /\ JobKept
    BY ONLY <1>0, <1>g, <2>1, <2>2, <2>3, PhaseGoesOn
  <2> QED BY <1>0, <2>2, <2>4, SameUses, Quiet
<1>2. CASE InsertEvicts
  <2>1. PICK c \in 1 .. NCache : Evict(c)
    BY <1>2 DEF InsertEvicts, Evictable
  <2>2. UNCHANGED <<pc, job>> /\ GameKept
    BY <1>2 DEF InsertEvicts, GameKept
  <2> QED BY <1>0, <2>1, <2>2, EvictOwn, JobUnchanged, PhaseStays
<1>3. CASE Insert
  <2>1. PICK c \in 1 .. NCache :
           /\ cache[c].clip = 0
           /\ cache' = [cache EXCEPT ![c] = [clip |-> job[Game].clip, refs |-> 1, mem |-> job[Game].mem]]
           /\ job' = [job EXCEPT ![Game] = [Idle EXCEPT !.slot = c]]
    BY <1>3 DEF Insert, Empty
  <2> DEFINE e == [clip |-> job[Game].clip, refs |-> 1, mem |-> job[Game].mem]
             r == [Idle EXCEPT !.slot = c]
  <2>2. e.mem = job[Game].mem /\ cache' = [cache EXCEPT ![c] = e] /\ cache[c].mem = None
    BY <1>0, <2>1 DEF EmptyHasNothing
  <2>3. job' = [job EXCEPT ![Game] = r] /\ r.mem = None /\ r.old = None
    BY <2>1 DEF Idle
  <2> HIDE DEF e, r
  <2>4. /\ pc[Game] \in Storing /\ pc' = [pc EXCEPT ![Game] = "sound"]
        /\ UNCHANGED <<pool, nl>> /\ Others /\ GameKept
    BY <1>3 DEF Insert, Storing, mixer, Others, GameKept
  <2>5. Holds("sound", r)
    BY <2>3 DEF Holds
  <2>6. Phases'
    BY ONLY <1>0, <1>g, <2>3, <2>4, <2>5, PhaseStep
  <2>7. JobLoses(Game, job[Game].mem)
    BY ONLY <1>0, <1>g, <1>s, <2>3, <2>4, JobChange
  <2>8. CacheGets(c, job[Game].mem)
    BY ONLY <1>0, <2>2, CacheChange, c \in 1 .. NCache
  <2>9. JobHas(job[Game].mem, Game)
    BY DEF JobHas
  <2> QED BY <1>0, <1>g, <2>4, <2>6, <2>7, <2>8, <2>9, SameUses, ThreadToCache
<1>4. CASE Drop
  <2>1. /\ CacheKept /\ Others /\ GameKept /\ pc[Game] \in Storing
        /\ pc' = [pc EXCEPT ![Game] = "idle"] /\ job' = [job EXCEPT ![Game] = Idle]
    BY <1>4, CacheUnchanged DEF Drop, Storing, sound, mixer, Others, GameKept
  <2>2. JobHas(job[Game].mem, Game)
    BY DEF JobHas
  <2>3. InUse' = InUse \ {job[Game].mem}
    <3>1. Owns(job[Game].mem, "job", Game)
      BY <1>g, <2>2 DEF Owns
    <3>2. job[Game].mem \in InUse \cup {None}
      BY <1>0, <3>1, OwnedInUse
    <3> QED BY <1>0, <1>4, <3>2, FreeUses DEF Drop
  <2>4. Phases' /\ JobLoses(Game, job[Game].mem)
    BY ONLY <1>0, <1>g, <1>s, <2>1, PhaseEnds
  <2> QED BY <1>0, <1>g, <2>1, <2>2, <2>3, <2>4, ThreadFrees
<1>5. CASE NewSound
  <2>1. /\ Others /\ GameKept /\ pc[Game] = "sound" /\ UNCHANGED <<pool, nl>>
        /\ pc' = [pc EXCEPT ![Game] = "idle"] /\ job' = [job EXCEPT ![Game] = Idle]
    BY <1>5 DEF NewSound, mixer, Others, GameKept
  <2>2. {job[Game].mem, job[Game].old} = {None, None}
    BY <1>g, <1>0, <2>1, ServingHolds DEF Serving
  <2>3. Phases' /\ JobKept
    BY ONLY <1>0, <1>g, <2>1, <2>2, PhaseEnds
  <2>4. CacheKept
    <3>1. CASE UNCHANGED cache
      BY <3>1, CacheUnchanged
    <3>2. CASE cache' = [cache EXCEPT ![job[Game].slot].refs = @ - 1]
      <4>1. \A c \in 1 .. NCache : cache[c].refs - 1 = cache[c].refs + (-1)
        BY <1>0 DEF Typed, Entry
      <4>2. cache' = [cache EXCEPT ![job[Game].slot]
                        = [cache[job[Game].slot] EXCEPT !.refs = cache[job[Game].slot].refs + (-1)]]
        BY <1>0, <3>2, <4>1 DEF Typed
      <4> QED BY <1>0, <4>2, RefsKeep, CacheUnchanged, -1 \in Int
    <3> QED BY <1>5, <3>1, <3>2 DEF NewSound
  <2> QED BY <1>0, <2>1, <2>3, <2>4, SameUses, Quiet
<1> QED BY <1>1, <1>2, <1>3, <1>4, <1>5 DEF Creates

LEMMA StartsOwn ==
  ASSUME OwnIInv, NEW k \in DOMAIN Clips, createSound(k)
  PROVE  Phases' /\ Books'
<1> USE HeapAssumption
<1>0. Jobs /\ Phases /\ Books /\ PoolIInv /\ Small /\ Typed
  BY DEF OwnIInv, HeapIInv, Typed
<1>g. Game \in Threads
  OBVIOUS
<1>i. pc[Game] = "idle" /\ job[Game].mem = None /\ job[Game].old = None /\ GameKept
  BY <1>0, <1>g, ServingHolds DEF createSound, Serving, GameKept
<1>1. CASE \E c \in Found(k) :
             /\ cache' = [cache EXCEPT ![c].refs = @ + 1]
             /\ pc' = [pc EXCEPT ![Game] = "sound"]
             /\ job' = [job EXCEPT ![Game].slot = c]
             /\ UNCHANGED <<pool, nl, mixer>>
  <2>1. PICK c \in 1 .. NCache :
             /\ cache' = [cache EXCEPT ![c].refs = @ + 1]
             /\ pc' = [pc EXCEPT ![Game] = "sound"]
             /\ job' = [job EXCEPT ![Game].slot = c]
             /\ UNCHANGED <<pool, nl, mixer>>
    BY <1>1 DEF Found
  <2> DEFINE r == [job[Game] EXCEPT !.slot = c]
  <2>2. r.mem = job[Game].mem /\ r.old = job[Game].old
    BY <1>0, <1>g DEF Jobs, Request
  <2>3. job' = [job EXCEPT ![Game] = r]
    BY <1>0, <2>1
  <2> HIDE DEF r
  <2>4. Holds("sound", r)
    BY <1>i, <2>2 DEF Holds
  <2>5. Phases'
    BY ONLY <1>0, <1>g, <2>1, <2>3, <2>4, PhaseStep
  <2>6. JobKept
    BY ONLY <1>0, <1>g, <2>2, <2>3, JobChange
  <2>7. CacheKept
    <3>1. cache' = [cache EXCEPT ![c] = [cache[c] EXCEPT !.refs = cache[c].refs + 1]]
      BY <2>1
    <3> QED BY <1>0, <3>1, RefsKeep, CacheUnchanged, 1 \in Int
  <2>8. Others
    BY <2>1 DEF mixer, Others
  <2> QED BY <1>0, <1>i, <2>1, <2>5, <2>6, <2>7, <2>8, SameUses, Quiet
<1>2. CASE Asks(Game, [Idle EXCEPT !.op = "decode", !.n = Clips[k], !.clip = k]) /\ UNCHANGED cache
  <2> DEFINE r == [Idle EXCEPT !.op = "decode", !.n = Clips[k], !.clip = k]
  <2>1. r.mem = None /\ r.old = None /\ Asks(Game, r)
    <3>1. r.mem = None /\ r.old = None
      BY ONLY DEF Idle
    <3>2. Asks(Game, r)
      BY <1>2
    <3> QED BY <3>1, <3>2
  <2>2. CacheKept /\ UNCHANGED held
    BY <1>2, CacheUnchanged DEF createSound
  <2> HIDE DEF r
  <2> QED BY ONLY <1>g, <2>1, <2>2, OwnIInv, AsksOwn
<1>3. CASE /\ pc' = [pc EXCEPT ![Game] = "trim"]
           /\ job' = [job EXCEPT ![Game].clip = k]
           /\ UNCHANGED <<pool, nl, mixer, cache>>
  <2> DEFINE r == [job[Game] EXCEPT !.clip = k]
  <2>2. r.mem = job[Game].mem /\ r.old = job[Game].old
    BY <1>0, <1>g DEF Jobs, Request
  <2>3. job' = [job EXCEPT ![Game] = r]
    BY <1>0, <1>3
  <2> HIDE DEF r
  <2>4. Holds("trim", r)
    BY <1>i, <2>2 DEF Holds
  <2>5. Phases'
    BY ONLY <1>0, <1>g, <1>3, <2>3, <2>4, PhaseStep
  <2>6. JobKept
    BY ONLY <1>0, <1>g, <2>2, <2>3, JobChange
  <2>7. Others /\ CacheKept
    BY <1>3, CacheUnchanged DEF mixer, Others
  <2> QED BY <1>0, <1>i, <1>3, <2>5, <2>6, <2>7, SameUses, Quiet
<1> QED BY <1>1, <1>2, <1>3 DEF createSound

LEMMA MixesOwn ==
  ASSUME OwnIInv, Mixes
  PROVE  Phases' /\ Books'
<1>0. Jobs /\ Phases /\ Books /\ PoolIInv /\ Small /\ Typed /\ Returned
  BY DEF OwnIInv, HeapIInv, Typed
<1>1. UNCHANGED <<pc, job>> /\ GameKept /\ CacheKept /\ JobKept
  BY CacheUnchanged, JobUnchanged DEF Mixes, MixBegin, MixEnd, MixFrees, sound, GameKept
<1>2. Phases'
  BY <1>0, <1>1, PhaseStays
<1>3. CASE MixBegin
  BY <1>0, <1>1, <1>2, <1>3, SameUses, Quiet DEF MixBegin, Others
<1>4. CASE MixEnd
  <2>1. ret = <<>> /\ ret' = retire /\ retire' = <<>> /\ leaked' = leaked /\ UNCHANGED <<pool, nl>>
    BY <1>0, <1>4 DEF MixEnd, Returned
  <2> QED BY <1>0, <1>1, <1>2, <2>1, SameUses, RetireToRet
<1>5. CASE MixFrees
  <2>1. ret \in Seq(Mem) /\ ret # <<>> /\ ret' = Tail(ret) /\ retire' = retire /\ leaked' = leaked
    BY <1>0, <1>5 DEF MixFrees, Returned
  <2>2. Owns(Head(ret), "ret", 1)
    <3>1. 1 \in DOMAIN ret /\ ret[1] = Head(ret)
      BY <2>1
    <3> QED BY <3>1 DEF Owns
  <2>3. InUse' = InUse \ {Head(ret)}
    BY <1>0, <1>5, <2>2, OwnedInUse, FreeUses DEF MixFrees
  <2> QED BY <1>0, <1>1, <1>2, <2>1, <2>3, RetFrees
<1> QED BY <1>3, <1>4, <1>5 DEF Mixes

LEMMA BooksStep ==
  ASSUME OwnIInv, [Next]_vars
  PROVE  Phases' /\ Books'
<1> USE HeapAssumption
<1>0. Jobs /\ Phases /\ Books /\ PoolIInv /\ Small /\ Typed
  BY DEF OwnIInv, HeapIInv, Typed
<1>g. Game \in Threads
  OBVIOUS
<1>1. ASSUME NEW t \in Threads, NEW n, Znwj_diag(t, n) PROVE Phases' /\ Books'
  <2> DEFINE r == [Idle EXCEPT !.op = "new", !.n = n]
  <2>1. r.mem = None /\ r.old = None /\ Asks(t, r)
    <3>1. r.mem = None /\ r.old = None
      BY ONLY DEF Idle
    <3>2. Asks(t, r)
      BY <1>1 DEF Znwj_diag
    <3> QED BY <3>1, <3>2
  <2>2. CacheKept /\ UNCHANGED held
    BY <1>1, CacheUnchanged DEF Znwj_diag, sound
  <2> HIDE DEF r
  <2> QED BY ONLY <1>1, <2>1, <2>2, OwnIInv, AsksOwn
<1>2. ASSUME NEW n, malloc_diag(n) PROVE Phases' /\ Books'
  <2> DEFINE r == [Idle EXCEPT !.op = "malloc", !.n = n]
  <2>1. r.mem = None /\ r.old = None /\ Asks(Game, r)
    <3>1. r.mem = None /\ r.old = None
      BY ONLY DEF Idle
    <3>2. Asks(Game, r)
      BY <1>2 DEF malloc_diag
    <3> QED BY <3>1, <3>2
  <2>2. CacheKept /\ UNCHANGED held
    BY <1>2, CacheUnchanged DEF malloc_diag, sound
  <2> HIDE DEF r
  <2> QED BY ONLY <1>g, <2>1, <2>2, OwnIInv, AsksOwn
<1>3. ASSUME NEW m \in held, NEW n, realloc_diag(m, n) PROVE Phases' /\ Books'
  <2> DEFINE r == [Idle EXCEPT !.op = "realloc", !.n = n, !.old = m]
  <2>1. r.mem = None /\ r.old = m /\ r.op = "realloc"
    BY DEF Idle
  <2>2. Asks(Game, r) /\ held' = held \ {m} /\ CacheKept
    BY <1>3, CacheUnchanged DEF realloc_diag, sound
  <2> HIDE DEF r
  <2> QED BY ONLY <1>g, <1>3, <2>1, <2>2, OwnIInv, AsksOwn
<1>4. ASSUME NEW t \in Threads, NEW m \in held, ZdlPv_diag(t, m) PROVE Phases' /\ Books'
  <2>1. UNCHANGED <<pc, job>> /\ CacheKept /\ Others /\ held' = held \ {m}
    BY <1>4, CacheUnchanged DEF ZdlPv_diag, sound, mixer, Others
  <2>2. InUse' = InUse \ {m}
    <3>1. Owns(m, "game", 0)
      BY <1>4 DEF Owns
    <3> QED BY <1>0, <1>4, <3>1, OwnedInUse, FreeUses DEF ZdlPv_diag
  <2> QED BY <1>0, <1>4, <2>1, <2>2, JobUnchanged, PhaseStays, GameFrees
<1>5. ASSUME NEW h \in 1 .. NSounds, Snd_release(h) PROVE Phases' /\ Books'
  <2>1. UNCHANGED <<pool, nl, pc, job>> /\ Others /\ GameKept
    BY <1>5 DEF Snd_release, mixer, Others, GameKept
  <2>2. CacheKept
    <3>1. \A c \in 1 .. NCache : cache[c].refs - 1 = cache[c].refs + (-1)
      BY <1>0 DEF Typed, Entry
    <3>2. cache' = [cache EXCEPT ![snd[h]] = [cache[snd[h]] EXCEPT !.refs = cache[snd[h]].refs + (-1)]]
      BY <1>0, <1>5, <3>1 DEF Snd_release, Typed
    <3> QED BY <1>0, <3>2, RefsKeep, CacheUnchanged, -1 \in Int
  <2> QED BY <1>0, <2>1, <2>2, JobUnchanged, PhaseStays, SameUses, Quiet
<1>6. CASE UNCHANGED vars
  <2>1. UNCHANGED <<pool, nl, pc, job>> /\ CacheKept /\ Others /\ GameKept
    BY <1>6, CacheUnchanged DEF vars, sound, mixer, Others, GameKept
  <2> QED BY <1>0, <2>1, JobUnchanged, PhaseStays, SameUses, Quiet
<1> QED BY <1>1, <1>2, <1>3, <1>4, <1>5, <1>6, ServesOwn, CreatesOwn, StartsOwn, MixesOwn DEF Next

LEMMA SmallKept ==
  ASSUME Small, NEW m, big_free(m) \/ audio_pcm_free(m)
  PROVE  Small'
BY DEF Small, big_free, audio_pcm_free

LEMMA SmallStep ==
  ASSUME Small, [Next]_vars
  PROVE  Small'
<1>s. UNCHANGED nl => Small'
  BY DEF Small
<1>e. ASSUME NEW c, Evict(c) PROVE Small'
  BY <1>s, <1>e, SmallKept DEF Evict, audio_pcm_free_deferred
<1>m. ASSUME NEW i \in 1 .. NLib, malloc(i) PROVE Small'
  BY <1>m DEF malloc, Small
<1>1. ASSUME NEW t \in Threads, Serves(t) PROVE Small'
  <2>1. CASE Malloc(t) \/ Loop(t)
    BY <2>1, <1>s, <1>m DEF Malloc, Loop
  <2>2. CASE FreeOld(t)
    BY <2>2, SmallKept DEF FreeOld
  <2>3. CASE audio_cache_purge(t)
    BY <2>3, <1>e DEF audio_cache_purge
  <2>4. CASE Bigalloc(t) \/ bigalloc_rescue(t) \/ heap_new_handler(t)
    BY <2>4, <1>s DEF Bigalloc, bigalloc_rescue, heap_new_handler
  <2> QED BY <1>1, <2>1, <2>2, <2>3, <2>4 DEF Serves
<1>2. CASE Creates
  BY <1>2, <1>s, <1>e, SmallKept DEF Creates, InsertBegins, InsertEvicts, Insert, InsertRefused, Drop, NewSound
<1>3. CASE Mixes
  BY <1>3, <1>s, SmallKept DEF Mixes, MixBegin, MixEnd, MixFrees
<1>4. ASSUME NEW t, NEW m, ZdlPv_diag(t, m) PROVE Small'
  BY <1>4, SmallKept DEF ZdlPv_diag
<1>5. ASSUME NEW t, NEW n, Znwj_diag(t, n) \/ malloc_diag(n) \/ realloc_diag(t, n) PROVE Small'
  BY <1>5, <1>s DEF Znwj_diag, malloc_diag, realloc_diag, Asks
<1>6. ASSUME NEW k, createSound(k) \/ Snd_release(k) PROVE Small'
  BY <1>6, <1>s DEF createSound, Snd_release, Asks
<1>7. CASE UNCHANGED vars
  BY <1>7, <1>s DEF vars
<1> QED BY <1>1, <1>2, <1>3, <1>4, <1>5, <1>6, <1>7 DEF Next

LEMMA ReturnedStep ==
  ASSUME Returned, Typed, [Next]_vars
  PROVE  Returned'
<1>s. UNCHANGED <<ret, mixing>> => Returned'
  BY DEF Returned
<1>e. ASSUME NEW c, Evict(c) PROVE Returned'
  BY <1>s, <1>e DEF Evict
<1>1. ASSUME NEW t \in Threads, Serves(t) PROVE Returned'
  <2>3. CASE audio_cache_purge(t)
    BY <2>3, <1>e DEF audio_cache_purge
  <2>4. CASE ~audio_cache_purge(t)
    BY <1>1, <2>4, <1>s DEF Serves, Bigalloc, Malloc, bigalloc_rescue, FreeOld, Loop,
         heap_new_handler, mixer
  <2> QED BY <2>3, <2>4
<1>2. CASE Creates
  BY <1>2, <1>s, <1>e DEF Creates, InsertBegins, InsertEvicts, Insert, InsertRefused, Drop, NewSound, mixer
<1>3. CASE MixBegin
  BY <1>3 DEF MixBegin, Returned
<1>4. CASE MixEnd
  BY <1>4 DEF MixEnd, Returned, Typed
<1>5. CASE MixFrees
  <2>1. Tail(ret) \in Seq(Mem)
    BY <1>5 DEF MixFrees, Returned
  <2> QED BY <1>5, <2>1 DEF MixFrees, Returned
<1>6. ASSUME NEW t, NEW m, ZdlPv_diag(t, m) PROVE Returned'
  BY <1>6, <1>s DEF ZdlPv_diag, mixer
<1>7. ASSUME NEW t, NEW n, Znwj_diag(t, n) \/ malloc_diag(n) \/ realloc_diag(t, n) PROVE Returned'
  BY <1>7, <1>s DEF Znwj_diag, malloc_diag, realloc_diag, Asks, mixer
<1>8. ASSUME NEW k, createSound(k) \/ Snd_release(k) PROVE Returned'
  BY <1>8, <1>s DEF createSound, Snd_release, Asks, mixer
<1>9. CASE UNCHANGED vars
  BY <1>9, <1>s DEF vars, mixer
<1> QED BY <1>1, <1>2, <1>3, <1>4, <1>5, <1>6, <1>7, <1>8, <1>9 DEF Next, Mixes

LEMMA OwnInit == Init => OwnIInv
<1> SUFFICES ASSUME Init PROVE OwnIInv
  OBVIOUS
<1>1. HeapIInv
  BY InitHolds
<1>2. Small /\ Returned
  BY HeapAssumption DEF Init, Small, Returned
<1>3. \A t \in Threads : job[t].mem = None /\ job[t].old = None
  BY IdleHolds DEF Init
<1>4. Phases
  BY <1>3 DEF Phases, Holds
<1>5. InUse = {}
  <2>1. PoolLive = {}
    <3>1. nseg = 0
      BY DEF Init, PoolInit
    <3>2. \A p \in PoolLive : p[1] \in 1 .. nseg
      BY LiveIs DEF PoolLive
    <3> QED BY <3>1, <3>2
  <2> QED BY <2>1, LibAndPool DEF Init
<1>6. ASSUME NEW m, m # None, NEW k, NEW i PROVE ~Owns(m, k, i)
  <2>1. \A c \in 1 .. NCache : cache[c].mem = None
    BY DEF Init, Unused
  <2>2. ~JobHas(m, i) \/ i \notin Threads
    BY <1>3, <1>6 DEF JobHas
  <2>3. held = {} /\ leaked = {} /\ DOMAIN retire = {} /\ DOMAIN ret = {}
    BY DEF Init
  <2> QED BY ONLY <1>6, <2>1, <2>2, <2>3 DEF Owns
<1>7. Books
  BY ONLY <1>5, <1>6 DEF Books
<1> QED BY <1>1, <1>2, <1>4, <1>7 DEF OwnIInv

LEMMA OwnInductive == OwnIInv /\ [Next]_vars => OwnIInv'
BY HeapInductive, SmallStep, ReturnedStep, BooksStep DEF OwnIInv, HeapIInv

LEMMA OwnersAre ==
  ASSUME NEW m, NEW o
  PROVE  o \in Owners(m) <=> \E k, i : o = <<k, i>> /\ Owns(m, k, i)
<1>1. ASSUME NEW k, NEW i, o = <<k, i>>, Owns(m, k, i) PROVE o \in Owners(m)
  BY <1>1 DEF Owners, Owns, JobHas
<1>2. ASSUME o \in Owners(m) PROVE \E k, i : o = <<k, i>> /\ Owns(m, k, i)
  BY <1>2 DEF Owners, Owns, JobHas
<1> QED BY <1>1, <1>2

LEMMA OneEach == OwnIInv => OneOwner
<1> SUFFICES ASSUME OwnIInv PROVE OneOwner
  OBVIOUS
<1>0. Books /\ Small
  BY DEF OwnIInv
<1>1. ASSUME NEW m \in InUse PROVE Cardinality(Owners(m)) = 1
  <2>0. m # None
    BY <1>0, NoneIsFree
  <2>1. PICK k, i : Owns(m, k, i)
    BY <1>0, <2>0 DEF Books
  <2>2. \A l, j : Owns(m, l, j) => l = k /\ j = i
    BY <1>0, <2>0, <2>1 DEF Books
  <2>3. Owners(m) = {<<k, i>>}
    BY ONLY <2>1, <2>2, OwnersAre
  <2> QED BY <2>3, FS_Singleton
<1>2. ASSUME NEW m, NEW k, NEW i, Owns(m, k, i) PROVE m = None \/ m \in InUse
  BY <1>0, <1>2, OwnedInUse
<1>3. \A m \in held : Owns(m, "game", 0)
  BY DEF Owns
<1>4. \A m \in leaked : Owns(m, "leaked", 0)
  BY DEF Owns
<1>5. \A m \in Range(retire) : \E i : Owns(m, "retire", i)
  BY DEF Owns, Range
<1>6. \A m \in Range(ret) : \E i : Owns(m, "ret", i)
  BY DEF Owns, Range
<1>7. \A m \in {cache[c].mem : c \in 1 .. NCache} : \E i : Owns(m, "cache", i)
  BY DEF Owns
<1>8. \A m \in UNION {{job[t].mem, job[t].old} : t \in Threads} : \E i : Owns(m, "job", i)
  BY DEF Owns, JobHas
<1> QED BY <1>1, <1>2, <1>3, <1>4, <1>5, <1>6, <1>7, <1>8 DEF OneOwner

\* For any threads, requests, cache and pool: a block that is handed out has exactly one
\* owner who will give it back, through realloc, evictions, deferred frees, refused
\* inserts and purges, and nobody owns what was given back (dynlib.c:677-707,
\* bigalloc.c:225-320, audio_patch.c:278-312, 519-533).
THEOREM EachHasOneOwner == Spec => []OneOwner
BY OwnInit, OwnInductive, OneEach, PTL DEF Spec

\* Both together, for any threads, requests and segments (bigalloc.c:183-309, dynlib.c:677-707).
THEOREM BlocksStaySound == Spec => []BlocksSound
<1>1. PoolTiled /\ OneOwner => BlocksSound
  BY DEF BlocksSound
<1> QED BY <1>1, HeapTiled, EachHasOneOwner, PTL

-----------------------------------------------------------------------------
(* What the cache counts.                                                  *)

Refers(c) == {h \in 1 .. NSounds : snd[h] = c}
Pending(c) == IF pc[Game] = "sound" /\ job[Game].slot = c THEN 1 ELSE 0
Weights == [c \in 1 .. NCache |-> Bytes(c)]

\* The references, and that an empty entry has none.
RefsAre ==
  \A c \in 1 .. NCache :
    /\ cache[c].refs = Cardinality(Refers(c)) + Pending(c)
    /\ cache[c].clip = 0 => cache[c].refs = 0

ClipsKnown ==
  /\ \A c \in 1 .. NCache : cache[c].clip \in 0 .. Len(Clips)
  /\ \A t \in Threads : job[t].clip \in 0 .. Len(Clips)

BytesAre == pcm_bytes \in Nat /\ pcm_bytes <= Budget /\ pcm_bytes = Total(Weights)

CacheIInv == HeapIInv /\ RefsAre /\ ClipsKnown /\ BytesAre

LEMMA TotalIs ==
  ASSUME NEW f
  PROVE  \E s : IsSum(s, f, NCache) /\ Total(f) = s[NCache]
<1>n. NCache \in Nat
  BY HeapAssumption
<1>1. \E s : s = [m \in 0 .. NCache |-> IF m = 0 THEN 0 ELSE s[m - 1] + f[m]]
  BY ONLY <1>n, SumExists
<1>2. PICK s : /\ s = [m \in 0 .. NCache |-> IF m = 0 THEN 0 ELSE s[m - 1] + f[m]]
               /\ Total(f) = s[NCache]
  BY <1>1 DEF Total
<1>3. IsSum(s, f, NCache)
  BY <1>n, <1>2 DEF IsSum
<1> QED BY <1>2, <1>3

\* An entry's bytes became d.
LEMMA TotalChange ==
  ASSUME NEW c \in 1 .. NCache, NEW f, NEW g,
         \A e \in 1 .. NCache : f[e] \in Nat /\ g[e] \in Nat /\ (e # c => g[e] = f[e])
  PROVE  Total(f) \in Nat /\ Total(f) >= f[c] /\ Total(g) = Total(f) - f[c] + g[c]
<1>n. NCache \in Nat
  BY HeapAssumption
<1>1. PICK s : IsSum(s, f, NCache) /\ Total(f) = s[NCache]
  BY TotalIs
<1>2. PICK z : IsSum(z, g, NCache) /\ Total(g) = z[NCache]
  BY TotalIs
<1>3. s[NCache] \in Nat /\ s[NCache] >= f[c] /\ z[NCache] = s[NCache] - f[c] + g[c]
  BY <1>n, <1>1, <1>2, SumChange
<1> QED BY ONLY <1>1, <1>2, <1>3

LEMMA TotalSame ==
  ASSUME NEW f, NEW g, \A e \in 1 .. NCache : g[e] = f[e]
  PROVE  Total(g) = Total(f)
<1>n. NCache \in Nat
  BY HeapAssumption
<1>1. PICK s : IsSum(s, f, NCache) /\ Total(f) = s[NCache]
  BY TotalIs
<1>2. PICK z : IsSum(z, g, NCache) /\ Total(g) = z[NCache]
  BY TotalIs
<1>3. z[NCache] = s[NCache]
  BY <1>n, <1>1, <1>2, SumSame
<1> QED BY ONLY <1>1, <1>2, <1>3

LEMMA WeightsAre ==
  ASSUME Typed, EmptyHasNothing, ClipsKnown
  PROVE  \A c \in 1 .. NCache :
           /\ Weights[c] = Bytes(c) /\ Bytes(c) \in Nat
           /\ Weights'[c] = IF cache'[c].mem = None THEN 0 ELSE Clips[cache'[c].clip]
<1>1. ASSUME NEW c \in 1 .. NCache PROVE Bytes(c) \in Nat
  <2>1. CASE cache[c].mem = None
    BY <2>1 DEF Bytes
  <2>2. CASE cache[c].mem # None
    <3>1. cache[c].clip \in 1 .. Len(Clips)
      BY <2>2, HeapAssumption DEF EmptyHasNothing, ClipsKnown
    <3> QED BY <2>2, <3>1, HeapAssumption DEF Bytes
  <2> QED BY <2>1, <2>2
<1> QED BY <1>1 DEF Weights, Bytes

LEMMA RefersFinite ==
  ASSUME NEW c
  PROVE  IsFiniteSet(Refers(c)) /\ Cardinality(Refers(c)) \in Nat
<1>1. IsFiniteSet(1 .. NSounds)
  BY FS_Interval, HeapAssumption
<1> QED BY <1>1, FS_Subset, FS_CardinalityType DEF Refers

\* Nothing of the cache changed.
PendingKept == \A c \in 1 .. NCache : Pending(c)' = Pending(c)

LEMMA CountsStay ==
  ASSUME RefsAre, BytesAre, ClipsKnown, UNCHANGED <<cache, snd, pcm_bytes>>, PendingKept,
         \A t \in Threads : job'[t].clip \in 0 .. Len(Clips)
  PROVE  RefsAre' /\ BytesAre' /\ ClipsKnown'
<1>1. Weights' = Weights
  BY DEF Weights, Bytes
<1>2. BytesAre'
  BY <1>1 DEF BytesAre, Total
<1>3. RefsAre'
  BY DEF RefsAre, Refers, PendingKept
<1> QED BY <1>2, <1>3 DEF ClipsKnown

\* Only references changed.
LEMMA BytesStay ==
  ASSUME BytesAre, ClipsKnown, UNCHANGED pcm_bytes,
         \A c \in 1 .. NCache : cache'[c].mem = cache[c].mem /\ cache'[c].clip = cache[c].clip,
         \A t \in Threads : job'[t].clip \in 0 .. Len(Clips)
  PROVE  BytesAre' /\ ClipsKnown'
<1>1. \A c \in 1 .. NCache : Weights'[c] = Weights[c]
  BY DEF Weights, Bytes
<1>2. Total(Weights') = Total(Weights)
  BY <1>1, TotalSame
<1> QED BY <1>2 DEF BytesAre, ClipsKnown, Total

LEMMA EvictCounts ==
  ASSUME CacheIInv, NEW c \in 1 .. NCache, cache[c].refs = 0, Evict(c), PendingKept,
         \A t \in Threads : job'[t].clip \in 0 .. Len(Clips)
  PROVE  RefsAre' /\ BytesAre' /\ ClipsKnown'
<1>0. Typed /\ EmptyHasNothing /\ ClipsKnown /\ BytesAre /\ RefsAre /\ Budget \in Nat /\ Len(Clips) \in Nat
  BY HeapAssumption DEF CacheIInv, HeapIInv
<1>1. cache' = [cache EXCEPT ![c] = Unused] /\ UNCHANGED snd
      /\ pcm_bytes' = IF pcm_bytes > Bytes(c) THEN pcm_bytes - Bytes(c) ELSE 0
  BY DEF Evict
<1>2. /\ cache'[c].refs = 0 /\ cache'[c].mem = None /\ cache'[c].clip = 0
      /\ \A e \in 1 .. NCache : e # c => cache'[e] = cache[e]
  BY <1>0, <1>1 DEF Unused, Typed
<1>3. RefsAre'
  BY <1>0, <1>1, <1>2 DEF RefsAre, Refers, PendingKept
<1>4. ClipsKnown'
  BY <1>0, <1>2 DEF ClipsKnown
<1>5. \A e \in 1 .. NCache : /\ Weights[e] \in Nat /\ Weights'[e] \in Nat
                             /\ e # c => Weights'[e] = Weights[e]
  BY <1>0, <1>2, WeightsAre DEF Bytes
<1>6. Weights[c] = Bytes(c) /\ Bytes(c) \in Nat /\ Weights'[c] = 0
  BY <1>0, <1>2, WeightsAre
<1>7. /\ Total(Weights) \in Nat /\ Total(Weights) >= Bytes(c)
      /\ Total(Weights') = Total(Weights) - Bytes(c) + 0
  <2> DEFINE f == Weights
             g == Weights'
  <2>1. \A e \in 1 .. NCache : f[e] \in Nat /\ g[e] \in Nat /\ (e # c => g[e] = f[e])
    BY <1>5
  <2>2. f[c] = Bytes(c) /\ g[c] = 0
    BY <1>6
  <2> HIDE DEF f, g
  <2>3. Total(f) \in Nat /\ Total(f) >= f[c] /\ Total(g) = Total(f) - f[c] + g[c]
    BY ONLY <2>1, TotalChange, c \in 1 .. NCache
  <2> QED BY <2>2, <2>3 DEF f, g
<1>8. BytesAre'
  <2>1. BytesAre' <=> pcm_bytes' \in Nat /\ pcm_bytes' <= Budget /\ pcm_bytes' = Total(Weights')
    BY DEF BytesAre, Total
  <2> QED BY ONLY <1>0, <1>1, <1>6, <1>7, <2>1 DEF BytesAre
<1> QED BY <1>3, <1>4, <1>8

\* A reference more or less, with the Sounds that refer and what is pending.
LEMMA RefersMore ==
  ASSUME NEW h \in 1 .. NSounds, NEW c \in Nat \ {0}, snd \in [1 .. NSounds -> 0 .. NCache],
         snd[h] = 0, snd' = [snd EXCEPT ![h] = c]
  PROVE  \A e \in 1 .. NCache :
           Cardinality(Refers(e)') = Cardinality(Refers(e)) + (IF e = c THEN 1 ELSE 0)
<1>1. ASSUME NEW e \in 1 .. NCache
      PROVE  Cardinality(Refers(e)') = Cardinality(Refers(e)) + (IF e = c THEN 1 ELSE 0)
  <2>1. Refers(e)' = IF e = c THEN Refers(e) \cup {h} ELSE Refers(e)
    BY DEF Refers
  <2>2. h \notin Refers(e)
    BY DEF Refers
  <2>3. IsFiniteSet(Refers(e)) /\ Cardinality(Refers(e)) \in Nat
    BY RefersFinite
  <2>4. Cardinality(Refers(e) \cup {h}) = Cardinality(Refers(e)) + 1
    BY ONLY <2>2, <2>3, FS_AddElement
  <2> QED BY ONLY <2>1, <2>3, <2>4
<1> QED BY <1>1

LEMMA RefersLess ==
  ASSUME NEW h \in 1 .. NSounds, snd \in [1 .. NSounds -> 0 .. NCache],
         snd' = [snd EXCEPT ![h] = 0]
  PROVE  \A e \in 1 .. NCache :
           Cardinality(Refers(e)') = Cardinality(Refers(e)) - (IF e = snd[h] THEN 1 ELSE 0)
<1>1. ASSUME NEW e \in 1 .. NCache
      PROVE  Cardinality(Refers(e)') = Cardinality(Refers(e)) - (IF e = snd[h] THEN 1 ELSE 0)
  <2>1. Refers(e)' = IF e = snd[h] THEN Refers(e) \ {h} ELSE Refers(e)
    BY DEF Refers
  <2>2. e = snd[h] => h \in Refers(e)
    BY DEF Refers
  <2>3. IsFiniteSet(Refers(e)) /\ Cardinality(Refers(e)) \in Nat
    BY RefersFinite
  <2>4. h \in Refers(e) => Cardinality(Refers(e) \ {h}) = Cardinality(Refers(e)) - 1
    BY ONLY <2>3, FS_RemoveElement
  <2> QED BY ONLY <2>1, <2>2, <2>3, <2>4
<1> QED BY <1>1

\* A request of any thread leaves the Game's pending Sound alone.
LEMMA PendingStays ==
  ASSUME Jobs, NEW t \in Threads, NEW l, NEW r, pc[t] # "sound", l # "sound",
         pc' = [pc EXCEPT ![t] = l], job' = [job EXCEPT ![t] = r]
  PROVE  PendingKept
<1>1. pc'[t] = l /\ \A u \in Threads : u # t => pc'[u] = pc[u] /\ job'[u] = job[u]
  BY DEF Jobs
<1>2. CASE Game = t
  BY ONLY <1>1, <1>2, pc[t] # "sound", l # "sound" DEF PendingKept, Pending
<1>3. CASE Game # t
  BY ONLY <1>1, <1>3, HeapAssumption DEF PendingKept, Pending, HeapAssumption
<1> QED BY <1>2, <1>3

LEMMA PendingUnchanged ==
  ASSUME UNCHANGED <<pc, job>>
  PROVE  PendingKept
BY DEF PendingKept, Pending

\* Its clip is none, or as it was.
LEMMA ClipsStay ==
  ASSUME Jobs, ClipsKnown, NEW t \in Threads, NEW r, job' = [job EXCEPT ![t] = r],
         r.clip \in 0 .. Len(Clips)
  PROVE  \A u \in Threads : job'[u].clip \in 0 .. Len(Clips)
<1>1. job'[t] = r /\ \A u \in Threads : u # t => job'[u] = job[u]
  BY DEF Jobs
<1> QED BY <1>1 DEF ClipsKnown

Steady(t, l, r) ==
  /\ pc[t] # "sound" /\ l # "sound" /\ r.clip \in 0 .. Len(Clips)
  /\ pc' = [pc EXCEPT ![t] = l] /\ job' = [job EXCEPT ![t] = r]

LEMMA SteadyCounts ==
  ASSUME CacheIInv, NEW t \in Threads, NEW l, NEW r, Steady(t, l, r)
  PROVE  PendingKept /\ \A u \in Threads : job'[u].clip \in 0 .. Len(Clips)
<1>0. Jobs /\ ClipsKnown
  BY DEF CacheIInv, HeapIInv, Typed
<1> QED BY <1>0, PendingStays, ClipsStay DEF Steady

LEMMA ServesCounts ==
  ASSUME CacheIInv, NEW t \in Threads, Serves(t)
  PROVE  RefsAre' /\ BytesAre' /\ ClipsKnown'
<1>0. Jobs /\ Typed /\ ClipsKnown /\ BytesAre /\ RefsAre
  BY DEF CacheIInv, HeapIInv, Typed
<1>i. Idle.clip \in 0 .. Len(Clips)
  BY HeapAssumption DEF Idle
<1>c. job[t].clip \in 0 .. Len(Clips)
  BY <1>0 DEF ClipsKnown
<1>s. ASSUME NEW l, pc' = [pc EXCEPT ![t] = l], UNCHANGED job, pc[t] # "sound", l # "sound"
      PROVE  Steady(t, l, job[t])
  BY <1>0, <1>c, <1>s DEF Steady, Jobs
<1>e. ASSUME NEW l, pc' = [pc EXCEPT ![t] = l], job' = [job EXCEPT ![t] = Idle],
             pc[t] # "sound", l # "sound"
      PROVE  Steady(t, l, Idle)
  BY <1>i, <1>e DEF Steady
<1>m. ASSUME NEW m, pc[t] # "sound", Got(t, m) PROVE \E l, r : Steady(t, l, r)
  <2>1. CASE pc' = [pc EXCEPT ![t] = "idle"] /\ job' = [job EXCEPT ![t] = Idle]
    BY <1>e, <1>m, <2>1
  <2>2. CASE pc' = [pc EXCEPT ![t] = "free"] /\ UNCHANGED job
    BY <1>s, <1>m, <2>2
  <2>3. CASE pc' = [pc EXCEPT ![t] = "trim"] /\ job' = [job EXCEPT ![t].mem = m]
    <3> DEFINE r == [job[t] EXCEPT !.mem = m]
    <3>1. r.clip = job[t].clip
      BY <1>0 DEF Jobs, Request
    <3>2. job' = [job EXCEPT ![t] = r]
      BY <1>0, <2>3
    <3> HIDE DEF r
    <3>3. Steady(t, "trim", r)
      BY <1>c, <1>m, <2>3, <3>1, <3>2 DEF Steady
    <3> QED BY <3>3
  <2> QED BY <1>m, <2>1, <2>2, <2>3 DEF Got
<1>q. ASSUME UNCHANGED sound, \E l, r : Steady(t, l, r) PROVE RefsAre' /\ BytesAre' /\ ClipsKnown'
  <2>1. PICK l, r : Steady(t, l, r)
    BY <1>q
  <2>2. PendingKept /\ \A u \in Threads : job'[u].clip \in 0 .. Len(Clips)
    BY <2>1, SteadyCounts
  <2>3. UNCHANGED <<cache, snd, pcm_bytes>>
    BY <1>q DEF sound
  <2> QED BY ONLY <1>0, <2>2, <2>3, CountsStay
<1>1. CASE Bigalloc(t)
  <2>1. \E l, r : Steady(t, l, r)
    BY <1>1, <1>m, <1>s DEF Bigalloc
  <2> QED BY <1>1, <1>q, <2>1 DEF Bigalloc
<1>2. CASE Malloc(t)
  <2>1. \E l, r : Steady(t, l, r)
    BY <1>2, <1>m, <1>s, <1>e DEF Malloc
  <2> QED BY <1>2, <1>q, <2>1 DEF Malloc
<1>3. CASE bigalloc_rescue(t)
  <2>1. pc[t] # "sound" /\ UNCHANGED sound /\ (Refused(t) \/ \E m : Got(t, m))
    BY <1>3 DEF bigalloc_rescue
  <2>2. CASE Refused(t)
    <3>1. \/ pc' = [pc EXCEPT ![t] = "loop"] /\ UNCHANGED job
          \/ pc' = [pc EXCEPT ![t] = "trim"] /\ UNCHANGED job
          \/ pc' = [pc EXCEPT ![t] = "idle"] /\ job' = [job EXCEPT ![t] = Idle]
      BY <2>2 DEF Refused
    <3>2. \E l, r : Steady(t, l, r)
      BY <1>s, <1>e, <2>1, <3>1
    <3> QED BY <1>q, <2>1, <3>2
  <2> QED BY <1>m, <1>q, <2>1, <2>2
<1>4. CASE FreeOld(t)
  <2>1. \E l, r : Steady(t, l, r)
    BY <1>4, <1>e DEF FreeOld
  <2> QED BY <1>4, <1>q, <2>1 DEF FreeOld
<1>5. CASE Loop(t)
  <2>0. pc[t] # "sound" /\ UNCHANGED sound
    BY <1>5 DEF Loop
  <2>1. CASE pc' = [pc EXCEPT ![t] = "purge"] /\ job' = [job EXCEPT ![t].got = FALSE]
    <3> DEFINE r == [job[t] EXCEPT !.got = FALSE]
    <3>1. r.clip = job[t].clip
      BY <1>0 DEF Jobs, Request
    <3>2. job' = [job EXCEPT ![t] = r]
      BY <1>0, <2>1
    <3> HIDE DEF r
    <3>3. Steady(t, "purge", r)
      BY <1>c, <2>0, <2>1, <3>1, <3>2 DEF Steady
    <3> QED BY <1>q, <2>0, <3>3
  <2>2. CASE ~(pc' = [pc EXCEPT ![t] = "purge"] /\ job' = [job EXCEPT ![t].got = FALSE])
    <3>1. \E l, r : Steady(t, l, r)
      BY <1>5, <1>m, <1>s, <2>2 DEF Loop
    <3> QED BY <1>q, <2>0, <3>1
  <2> QED BY <2>1, <2>2
<1>6. CASE audio_cache_purge(t)
  <2>1. PICK c \in 1 .. NCache : /\ cache[c].refs = 0 /\ Evict(c)
                                 /\ job' = [job EXCEPT ![t].got = @ \/ Bytes(c) > 0]
    BY <1>6 DEF audio_cache_purge, Evictable
  <2>2. PICK g : g = (job[t].got \/ Bytes(c) > 0)
    OBVIOUS
  <2> DEFINE r == [job[t] EXCEPT !.got = g]
  <2>3. r.clip = job[t].clip
    BY <1>0 DEF Jobs, Request
  <2>4. job' = [job EXCEPT ![t] = r]
    BY ONLY <1>0, <2>1, <2>2, Zenon DEF Jobs
  <2> HIDE DEF r
  <2>5. pc[t] = "purge" /\ pc' = [pc EXCEPT ![t] = "purge"]
    BY <1>0, <1>6 DEF audio_cache_purge, Jobs
  <2>6. Steady(t, "purge", r)
    BY <1>c, <2>3, <2>4, <2>5 DEF Steady
  <2>7. PendingKept /\ \A u \in Threads : job'[u].clip \in 0 .. Len(Clips)
    BY <2>6, SteadyCounts
  <2> QED BY <2>1, <2>7, EvictCounts
<1>7. CASE heap_new_handler(t)
  <2>1. \E l, r : Steady(t, l, r)
    BY <1>7, <1>s DEF heap_new_handler
  <2> QED BY <1>7, <1>q, <2>1 DEF heap_new_handler
<1> QED BY <1>1, <1>2, <1>3, <1>4, <1>5, <1>6, <1>7 DEF Serves

\* References moved by d in entry c, and what is pending.
LEMMA RefsCount ==
  ASSUME CacheIInv, NEW c, NEW d \in Int, UNCHANGED pcm_bytes,
         cache' = [cache EXCEPT ![c] = [cache[c] EXCEPT !.refs = cache[c].refs + d]],
         \A t \in Threads : job'[t].clip \in 0 .. Len(Clips),
         \A e \in 1 .. NCache : Cardinality(Refers(e)') + Pending(e)' =
           Cardinality(Refers(e)) + Pending(e) + (IF e = c THEN d ELSE 0),
         c \in 1 .. NCache => cache[c].clip # 0 \/ cache[c].refs + d = 0
  PROVE  RefsAre' /\ BytesAre' /\ ClipsKnown'
<1>0. Typed /\ ClipsKnown /\ BytesAre /\ RefsAre
  BY DEF CacheIInv, HeapIInv
<1>1. \A e \in 1 .. NCache :
        /\ cache'[e].mem = cache[e].mem /\ cache'[e].clip = cache[e].clip
        /\ cache'[e].refs = IF e = c THEN cache[e].refs + d ELSE cache[e].refs
  BY ONLY <1>0, RefsKeep, d \in Int,
     cache' = [cache EXCEPT ![c] = [cache[c] EXCEPT !.refs = cache[c].refs + d]]
<1>2. BytesAre' /\ ClipsKnown'
  BY <1>0, <1>1, BytesStay
<1>3. RefsAre'
  <2>1. ASSUME NEW e \in 1 .. NCache
        PROVE  /\ cache'[e].refs = Cardinality(Refers(e)') + Pending(e)'
               /\ cache'[e].clip = 0 => cache'[e].refs = 0
    <3>1. cache[e].refs = Cardinality(Refers(e)) + Pending(e) /\ (cache[e].clip = 0 => cache[e].refs = 0)
      BY <1>0 DEF RefsAre
    <3>2. Cardinality(Refers(e)) \in Nat /\ Pending(e) \in Nat
      BY RefersFinite DEF Pending
    <3>3. Cardinality(Refers(e)') + Pending(e)' = Cardinality(Refers(e)) + Pending(e) + (IF e = c THEN d ELSE 0)
      OBVIOUS
    <3>4. e = c => cache[e].clip # 0 \/ cache[e].refs + d = 0
      OBVIOUS
    <3> QED BY ONLY <1>1, <3>1, <3>2, <3>3, <3>4, e \in 1 .. NCache, d \in Int
  <2> QED BY <2>1 DEF RefsAre
<1> QED BY <1>2, <1>3

\* A reference is taken before a Sound refers: found in the cache, or inserted.
LEMMA StartCounts ==
  ASSUME CacheIInv, NEW k \in DOMAIN Clips, createSound(k)
  PROVE  RefsAre' /\ BytesAre' /\ ClipsKnown'
<1> USE HeapAssumption
<1>0. Jobs /\ Typed /\ ClipsKnown /\ BytesAre /\ RefsAre
  BY DEF CacheIInv, HeapIInv, Typed
<1>g. Game \in Threads /\ k \in 1 .. Len(Clips) /\ k \in 0 .. Len(Clips) /\ pc[Game] # "sound"
  BY DEF createSound
<1>c. job[Game].clip \in 0 .. Len(Clips)
  BY <1>0, <1>g DEF ClipsKnown
<1>1. CASE \E c \in Found(k) :
             /\ cache' = [cache EXCEPT ![c].refs = @ + 1]
             /\ pc' = [pc EXCEPT ![Game] = "sound"]
             /\ job' = [job EXCEPT ![Game].slot = c]
  <2>1. PICK c \in 1 .. NCache :
             /\ cache[c].clip = k
             /\ cache' = [cache EXCEPT ![c].refs = @ + 1]
             /\ pc' = [pc EXCEPT ![Game] = "sound"]
             /\ job' = [job EXCEPT ![Game].slot = c]
    BY <1>1 DEF Found
  <2> DEFINE r == [job[Game] EXCEPT !.slot = c]
  <2>2. r.clip = job[Game].clip /\ r.slot = c
    BY <1>0, <1>g DEF Jobs, Request
  <2>3. job' = [job EXCEPT ![Game] = r]
    BY <1>0, <2>1
  <2>4. cache' = [cache EXCEPT ![c] = [cache[c] EXCEPT !.refs = cache[c].refs + 1]]
    BY <2>1
  <2> HIDE DEF r
  <2>5. \A u \in Threads : job'[u].clip \in 0 .. Len(Clips)
    BY ONLY <1>0, <1>g, <1>c, <2>2, <2>3, ClipsStay
  <2>6. \A e \in 1 .. NCache : Pending(e) = 0 /\ Pending(e)' = IF e = c THEN 1 ELSE 0
    <3>1. pc'[Game] = "sound" /\ job'[Game].slot = c
      BY <1>0, <1>g, <2>1, <2>2, <2>3 DEF Jobs
    <3> QED BY <1>g, <3>1 DEF Pending
  <2>7. \A e \in 1 .. NCache : Refers(e)' = Refers(e) /\ Cardinality(Refers(e)) \in Nat
    BY RefersFinite DEF createSound, Refers
  <2>8. \A e \in 1 .. NCache : Cardinality(Refers(e)') + Pending(e)' =
           Cardinality(Refers(e)) + Pending(e) + (IF e = c THEN 1 ELSE 0)
    BY ONLY <2>6, <2>7
  <2>9. cache[c].clip # 0
    BY <1>g, <2>1
  <2>10. UNCHANGED pcm_bytes /\ 1 \in Int
    BY DEF createSound
  <2> QED BY ONLY <2>4, <2>5, <2>8, <2>9, <2>10, CacheIInv, RefsCount
<1>2. CASE Asks(Game, [Idle EXCEPT !.op = "decode", !.n = Clips[k], !.clip = k]) /\ UNCHANGED cache
  <2> DEFINE r == [Idle EXCEPT !.op = "decode", !.n = Clips[k], !.clip = k]
  <2>1. r.clip = k
    BY DEF Idle
  <2>2. PICK l \in Asking : pc' = [pc EXCEPT ![Game] = l]
    BY <1>2 DEF Asks, Asking
  <2>3. job' = [job EXCEPT ![Game] = r]
    BY <1>2 DEF Asks
  <2> HIDE DEF r
  <2>4. Steady(Game, l, r)
    BY <1>g, <2>1, <2>2, <2>3 DEF Steady, Asking
  <2>5. PendingKept /\ \A u \in Threads : job'[u].clip \in 0 .. Len(Clips)
    BY <1>g, <2>4, SteadyCounts
  <2>6. UNCHANGED <<cache, snd, pcm_bytes>>
    BY <1>2 DEF createSound
  <2> QED BY ONLY <1>0, <2>5, <2>6, CountsStay
<1>3. CASE /\ pc' = [pc EXCEPT ![Game] = "trim"]
           /\ job' = [job EXCEPT ![Game].clip = k]
           /\ UNCHANGED cache
  <2> DEFINE r == [job[Game] EXCEPT !.clip = k]
  <2>1. r.clip = k
    BY <1>0, <1>g DEF Jobs, Request
  <2>2. job' = [job EXCEPT ![Game] = r]
    BY <1>0, <1>3
  <2> HIDE DEF r
  <2>3. Steady(Game, "trim", r)
    BY <1>g, <1>3, <2>1, <2>2 DEF Steady
  <2>4. PendingKept /\ \A u \in Threads : job'[u].clip \in 0 .. Len(Clips)
    BY <1>g, <2>3, SteadyCounts
  <2>5. UNCHANGED <<cache, snd, pcm_bytes>>
    BY <1>3 DEF createSound
  <2> QED BY ONLY <1>0, <2>4, <2>5, CountsStay
<1> QED BY <1>1, <1>2, <1>3 DEF createSound

LEMMA InsertCounts ==
  ASSUME CacheIInv, Insert
  PROVE  RefsAre' /\ BytesAre' /\ ClipsKnown'
<1> USE HeapAssumption
<1>0. Jobs /\ Typed /\ ClipsKnown /\ BytesAre /\ RefsAre /\ EmptyHasNothing
  BY DEF CacheIInv, HeapIInv, Typed
<1>g. Game \in Threads /\ job[Game].clip \in 1 .. Len(Clips) /\ pc[Game] = "insert"
  BY <1>0 DEF Insert, Jobs, ClipsKnown
<1>1. PICK c \in 1 .. NCache :
         /\ cache[c].clip = 0
         /\ cache' = [cache EXCEPT ![c] = [clip |-> job[Game].clip, refs |-> 1, mem |-> job[Game].mem]]
         /\ job' = [job EXCEPT ![Game] = [Idle EXCEPT !.slot = c]]
  BY DEF Insert, Empty
<1>2. /\ cache'[c].clip = job[Game].clip /\ cache'[c].refs = 1 /\ cache'[c].mem = job[Game].mem
      /\ \A e \in 1 .. NCache : e # c => cache'[e] = cache[e]
  BY <1>0, <1>1 DEF Typed
<1> DEFINE r == [Idle EXCEPT !.slot = c]
<1>3. r.clip = 0 /\ r.slot = c /\ job' = [job EXCEPT ![Game] = r]
  BY <1>1 DEF Idle
<1> HIDE DEF r
<1>4. ClipsKnown'
  <2>1. \A u \in Threads : job'[u].clip \in 0 .. Len(Clips)
    <3>1. 0 \in 0 .. Len(Clips)
      OBVIOUS
    <3> QED BY ONLY <1>0, <1>g, <1>3, <3>1, ClipsStay
  <2>2. \A e \in 1 .. NCache : cache'[e].clip \in 0 .. Len(Clips)
    BY <1>0, <1>g, <1>2 DEF ClipsKnown
  <2> QED BY <2>1, <2>2 DEF ClipsKnown
<1>5. RefsAre'
  <2>1. \A e \in 1 .. NCache : Pending(e) = 0 /\ Pending(e)' = IF e = c THEN 1 ELSE 0
    <3>1. pc'[Game] = "sound" /\ job'[Game].slot = c
      BY <1>0, <1>g, <1>3 DEF Jobs, Insert
    <3> QED BY <1>g, <3>1 DEF Pending
  <2>2. \A e \in 1 .. NCache : Refers(e)' = Refers(e) /\ Cardinality(Refers(e)) \in Nat
    BY RefersFinite DEF Insert, Refers
  <2>3. \A e \in 1 .. NCache : /\ cache[e].refs = Cardinality(Refers(e)) + Pending(e)
                               /\ cache[e].clip = 0 => cache[e].refs = 0
    BY <1>0 DEF RefsAre
  <2>4. \A e \in 1 .. NCache : /\ cache'[e].refs = Cardinality(Refers(e)') + Pending(e)'
                               /\ cache'[e].clip = 0 => cache'[e].refs = 0
    BY ONLY <1>1, <1>2, <1>g, <2>1, <2>2, <2>3
  <2> QED BY <2>4 DEF RefsAre
<1>6. /\ Weights[c] = 0 /\ Weights'[c] = NewBytes /\ NewBytes \in Nat
      /\ \A e \in 1 .. NCache : /\ Weights[e] \in Nat /\ Weights'[e] \in Nat
                                /\ e # c => Weights'[e] = Weights[e]
  <2>1. cache[c].mem = None
    BY <1>0, <1>1 DEF EmptyHasNothing
  <2>2. Weights'[c] = NewBytes /\ NewBytes \in Nat
    BY <1>0, <1>2, <1>g, WeightsAre DEF NewBytes
  <2>3. Weights[c] = 0
    BY <1>0, <2>1, WeightsAre DEF Bytes
  <2>4. \A e \in 1 .. NCache : Weights[e] \in Nat /\ (e # c => Weights'[e] = Weights[e])
    <3>1. \A e \in 1 .. NCache : /\ Weights[e] \in Nat
                                 /\ Weights[e] = IF cache[e].mem = None THEN 0 ELSE Clips[cache[e].clip]
                                 /\ Weights'[e] = IF cache'[e].mem = None THEN 0 ELSE Clips[cache'[e].clip]
      BY <1>0, WeightsAre DEF Bytes
    <3> QED BY ONLY <1>2, <3>1
  <2> QED BY ONLY <2>2, <2>3, <2>4
<1>7. Total(Weights) \in Nat /\ Total(Weights') = Total(Weights) - 0 + NewBytes
  <2> DEFINE f == Weights
             g == Weights'
  <2>1. \A e \in 1 .. NCache : f[e] \in Nat /\ g[e] \in Nat /\ (e # c => g[e] = f[e])
    BY <1>6
  <2>2. f[c] = 0 /\ g[c] = NewBytes
    BY <1>6
  <2> HIDE DEF f, g
  <2>3. Total(f) \in Nat /\ Total(f) >= f[c] /\ Total(g) = Total(f) - f[c] + g[c]
    BY ONLY <2>1, TotalChange, c \in 1 .. NCache
  <2> QED BY <2>2, <2>3 DEF f, g
<1>8. BytesAre'
  <2>1. BytesAre' <=> pcm_bytes' \in Nat /\ pcm_bytes' <= Budget /\ pcm_bytes' = Total(Weights')
    BY DEF BytesAre, Total
  <2>2. pcm_bytes' = pcm_bytes + NewBytes /\ ~(pcm_bytes + NewBytes > Budget) /\ Budget \in Nat
    BY DEF Insert, Full
  <2> QED BY ONLY <1>0, <1>6, <1>7, <2>1, <2>2 DEF BytesAre
<1> QED BY <1>4, <1>5, <1>8

LEMMA NewSoundCounts ==
  ASSUME CacheIInv, NewSound
  PROVE  RefsAre' /\ BytesAre' /\ ClipsKnown'
<1> USE HeapAssumption
<1>0. Jobs /\ Typed /\ ClipsKnown /\ BytesAre /\ RefsAre
  BY DEF CacheIInv, HeapIInv, Typed
<1>1. /\ Game \in Threads /\ pc[Game] = "sound" /\ UNCHANGED pcm_bytes
      /\ pc' = [pc EXCEPT ![Game] = "idle"] /\ job' = [job EXCEPT ![Game] = Idle]
  BY DEF NewSound
<1> DEFINE c == job[Game].slot
<1>2. \A u \in Threads : job'[u].clip \in 0 .. Len(Clips)
  <2>1. Idle.clip \in 0 .. Len(Clips)
    BY DEF Idle
  <2> QED BY ONLY <1>0, <1>1, <2>1, ClipsStay
<1>3. \A e \in 1 .. NCache : Pending(e)' = 0 /\ Pending(e) = IF e = c THEN 1 ELSE 0
  <2>1. pc'[Game] = "idle"
    BY <1>0, <1>1 DEF Jobs
  <2> QED BY <1>1, <2>1 DEF Pending
<1>4. c \in 0 .. NCache
  BY <1>0, <1>1 DEF Jobs, Request
<1>5. \A e \in 1 .. NCache : /\ cache[e].refs = Cardinality(Refers(e)) + Pending(e)
                             /\ cache[e].clip = 0 => cache[e].refs = 0
                             /\ Cardinality(Refers(e)) \in Nat
  BY <1>0, RefersFinite DEF RefsAre
<1> HIDE DEF c
<1>6. CASE \E h \in 1 .. NSounds : snd[h] = 0 /\ snd' = [snd EXCEPT ![h] = c] /\ UNCHANGED cache
  <2>1. PICK h \in 1 .. NSounds : snd[h] = 0 /\ snd' = [snd EXCEPT ![h] = c] /\ UNCHANGED cache
    BY <1>6
  <2>2. \A e \in 1 .. NCache : Cardinality(Refers(e)') = Cardinality(Refers(e)) + (IF e = c THEN 1 ELSE 0)
    <3>1. CASE c # 0
      <4>1. c \in Nat \ {0} /\ snd \in [1 .. NSounds -> 0 .. NCache]
        BY <1>0, <1>4, <3>1 DEF Typed
      <4> QED BY ONLY <2>1, <4>1, RefersMore
    <3>2. CASE c = 0
      <4>1. snd' = snd
        BY <1>0, <2>1, <3>2 DEF Typed
      <4>2. \A e \in 1 .. NCache : Refers(e)' = Refers(e)
        BY <4>1 DEF Refers
      <4> QED BY ONLY <1>5, <3>2, <4>2
    <3> QED BY <3>1, <3>2
  <2>3. RefsAre'
    <3>1. \A e \in 1 .. NCache : cache'[e].refs = Cardinality(Refers(e)') + Pending(e)'
      BY ONLY <1>3, <1>5, <2>1, <2>2
    <3> QED BY <1>5, <2>1, <3>1 DEF RefsAre
  <2>4. BytesAre' /\ ClipsKnown'
    BY <1>0, <1>1, <1>2, <2>1, BytesStay
  <2> QED BY <2>3, <2>4
<1>7. CASE cache' = [cache EXCEPT ![c].refs = @ - 1] /\ UNCHANGED snd
  <2>1. cache' = [cache EXCEPT ![c] = [cache[c] EXCEPT !.refs = cache[c].refs + (-1)]]
    <3>1. \A e \in 1 .. NCache : cache[e].refs - 1 = cache[e].refs + (-1)
      BY <1>0 DEF Typed, Entry
    <3> QED BY <1>0, <1>7, <3>1 DEF Typed
  <2>2. \A e \in 1 .. NCache : Refers(e)' = Refers(e)
    BY <1>7 DEF Refers
  <2>3. \A e \in 1 .. NCache : Cardinality(Refers(e)') + Pending(e)' =
           Cardinality(Refers(e)) + Pending(e) + (IF e = c THEN -1 ELSE 0)
    BY ONLY <1>3, <1>5, <2>2
  <2>4. c \in 1 .. NCache => cache[c].clip # 0
    BY ONLY <1>3, <1>5
  <2> QED BY ONLY <1>1, <1>2, <2>1, <2>3, <2>4, -1 \in Int, CacheIInv, RefsCount
<1> QED BY <1>6, <1>7 DEF NewSound, c

LEMMA ReleaseCounts ==
  ASSUME CacheIInv, NEW h \in 1 .. NSounds, Snd_release(h)
  PROVE  RefsAre' /\ BytesAre' /\ ClipsKnown'
<1> USE HeapAssumption
<1>0. Jobs /\ Typed /\ ClipsKnown /\ BytesAre /\ RefsAre
  BY DEF CacheIInv, HeapIInv, Typed
<1>1. /\ snd[h] # 0 /\ UNCHANGED <<pcm_bytes, pc, job>> /\ snd' = [snd EXCEPT ![h] = 0]
      /\ cache' = [cache EXCEPT ![snd[h]].refs = @ - 1]
  BY DEF Snd_release
<1> DEFINE c == snd[h]
<1>2. cache' = [cache EXCEPT ![c] = [cache[c] EXCEPT !.refs = cache[c].refs + (-1)]]
  <2>1. \A e \in 1 .. NCache : cache[e].refs - 1 = cache[e].refs + (-1)
    BY <1>0 DEF Typed, Entry
  <2> QED BY <1>0, <1>1, <2>1 DEF Typed
<1>3. \A e \in 1 .. NCache : /\ cache[e].refs = Cardinality(Refers(e)) + Pending(e)
                             /\ cache[e].clip = 0 => cache[e].refs = 0
                             /\ Cardinality(Refers(e)) \in Nat /\ Pending(e) \in Nat
  BY <1>0, RefersFinite DEF RefsAre, Pending
<1>4. \A e \in 1 .. NCache : Pending(e)' = Pending(e)
  BY <1>1 DEF Pending
<1>5. \A e \in 1 .. NCache : Cardinality(Refers(e)') = Cardinality(Refers(e)) - (IF e = c THEN 1 ELSE 0)
  BY <1>0, <1>1, RefersLess DEF Typed
<1>6. \A e \in 1 .. NCache : e = c => Cardinality(Refers(e)) # 0
  <2>1. ASSUME NEW e \in 1 .. NCache, e = c PROVE Cardinality(Refers(e)) # 0
    <3>1. h \in Refers(e)
      BY <2>1 DEF Refers
    <3> QED BY <3>1, RefersFinite, FS_EmptySet
  <2> QED BY <2>1
<1> HIDE DEF c
<1>7. \A e \in 1 .. NCache : Cardinality(Refers(e)') + Pending(e)' =
         Cardinality(Refers(e)) + Pending(e) + (IF e = c THEN -1 ELSE 0)
  BY ONLY <1>3, <1>4, <1>5
<1>8. c \in 1 .. NCache => cache[c].clip # 0
  BY ONLY <1>3, <1>6
<1>9. \A t \in Threads : job'[t].clip \in 0 .. Len(Clips)
  BY <1>0, <1>1 DEF ClipsKnown
<1> QED BY ONLY <1>1, <1>2, <1>7, <1>8, <1>9, -1 \in Int, CacheIInv, RefsCount

LEMMA CountsStep ==
  ASSUME CacheIInv, [Next]_vars
  PROVE  RefsAre' /\ BytesAre' /\ ClipsKnown'
<1> USE HeapAssumption
<1>0. Jobs /\ Typed /\ ClipsKnown /\ BytesAre /\ RefsAre
  BY DEF CacheIInv, HeapIInv, Typed
<1>g. Game \in Threads
  OBVIOUS
<1>j. \A t \in Threads : job[t].clip \in 0 .. Len(Clips)
  BY <1>0 DEF ClipsKnown
<1>u. CASE UNCHANGED <<cache, snd, pcm_bytes, pc, job>>
  BY <1>0, <1>u, <1>j, PendingUnchanged, CountsStay
<1>a. ASSUME NEW t \in Threads, NEW r, Asks(t, r), r.clip = 0, UNCHANGED sound
      PROVE  RefsAre' /\ BytesAre' /\ ClipsKnown'
  <2>1. PICK l \in Asking : pc' = [pc EXCEPT ![t] = l]
    BY <1>a DEF Asks, Asking
  <2>2. Steady(t, l, r)
    <3>1. 0 \in 0 .. Len(Clips)
      OBVIOUS
    <3> QED BY ONLY <1>a, <2>1, <3>1 DEF Steady, Asks, Asking
  <2>3. PendingKept /\ \A u \in Threads : job'[u].clip \in 0 .. Len(Clips)
    BY <1>a, <2>2, SteadyCounts
  <2>4. UNCHANGED <<cache, snd, pcm_bytes>>
    BY <1>a DEF sound
  <2> QED BY ONLY <1>0, <2>3, <2>4, CountsStay
<1>1. ASSUME NEW t \in Threads, NEW n, Znwj_diag(t, n) PROVE RefsAre' /\ BytesAre' /\ ClipsKnown'
  <2> DEFINE r == [Idle EXCEPT !.op = "new", !.n = n]
  <2>1. r.clip = 0 /\ Asks(t, r) /\ UNCHANGED sound
    BY <1>1 DEF Idle, Znwj_diag
  <2> HIDE DEF r
  <2> QED BY <1>a, <1>1, <2>1
<1>2. ASSUME NEW n, malloc_diag(n) PROVE RefsAre' /\ BytesAre' /\ ClipsKnown'
  <2> DEFINE r == [Idle EXCEPT !.op = "malloc", !.n = n]
  <2>1. r.clip = 0 /\ Asks(Game, r) /\ UNCHANGED sound
    BY <1>2 DEF Idle, malloc_diag
  <2> HIDE DEF r
  <2> QED BY <1>a, <1>g, <2>1
<1>3. ASSUME NEW m, NEW n, realloc_diag(m, n) PROVE RefsAre' /\ BytesAre' /\ ClipsKnown'
  <2> DEFINE r == [Idle EXCEPT !.op = "realloc", !.n = n, !.old = m]
  <2>1. r.clip = 0 /\ Asks(Game, r) /\ UNCHANGED sound
    BY <1>3 DEF Idle, realloc_diag
  <2> HIDE DEF r
  <2> QED BY <1>a, <1>g, <2>1
<1>4. ASSUME NEW t, NEW m, ZdlPv_diag(t, m) PROVE RefsAre' /\ BytesAre' /\ ClipsKnown'
  BY <1>4, <1>u DEF ZdlPv_diag, sound
<1>5. CASE Creates
  <2>s. ASSUME NEW l, pc' = [pc EXCEPT ![Game] = l], l # "sound", pc[Game] # "sound",
               UNCHANGED sound, UNCHANGED job \/ job' = [job EXCEPT ![Game] = Idle]
        PROVE  RefsAre' /\ BytesAre' /\ ClipsKnown'
    <3>1. PICK r : job' = [job EXCEPT ![Game] = r] /\ r.clip \in 0 .. Len(Clips)
      <4>1. CASE UNCHANGED job
        <5>1. job' = [job EXCEPT ![Game] = job[Game]]
          BY <1>0, <4>1 DEF Jobs
        <5> QED BY <1>g, <1>j, <5>1
      <4>2. CASE job' = [job EXCEPT ![Game] = Idle]
        <5>1. Idle.clip \in 0 .. Len(Clips)
          BY DEF Idle
        <5> QED BY <4>2, <5>1
      <4> QED BY <2>s, <4>1, <4>2
    <3>2. Steady(Game, l, r)
      BY <2>s, <3>1 DEF Steady
    <3>3. PendingKept /\ \A u \in Threads : job'[u].clip \in 0 .. Len(Clips)
      BY <1>g, <3>2, SteadyCounts
    <3>4. UNCHANGED <<cache, snd, pcm_bytes>>
      BY <2>s DEF sound
    <3> QED BY ONLY <1>0, <3>3, <3>4, CountsStay
  <2>1. CASE InsertBegins
    BY <2>1, <2>s DEF InsertBegins
  <2>2. CASE InsertEvicts
    <3>1. PICK c \in 1 .. NCache : cache[c].refs = 0 /\ Evict(c)
      BY <2>2 DEF InsertEvicts, Evictable
    <3>2. PendingKept /\ \A u \in Threads : job'[u].clip \in 0 .. Len(Clips)
      BY <1>j, <2>2, PendingUnchanged DEF InsertEvicts
    <3> QED BY <3>1, <3>2, EvictCounts
  <2>3. CASE InsertRefused
    BY <2>3, <2>s DEF InsertRefused
  <2>4. CASE Drop
    BY <2>4, <2>s DEF Drop
  <2> QED BY <1>5, <2>1, <2>2, <2>3, <2>4, InsertCounts, NewSoundCounts DEF Creates
<1>6. CASE Mixes
  BY <1>6, <1>u DEF Mixes, MixBegin, MixEnd, MixFrees, sound
<1>7. CASE UNCHANGED vars
  BY <1>7, <1>u DEF vars, sound
<1> QED BY <1>1, <1>2, <1>3, <1>4, <1>5, <1>6, <1>7, ServesCounts, StartCounts, ReleaseCounts DEF Next

LEMMA CountsInit == Init => CacheIInv
<1> USE HeapAssumption
<1> SUFFICES ASSUME Init PROVE CacheIInv
  OBVIOUS
<1>1. HeapIInv
  BY InitHolds
<1>2. \A c \in 1 .. NCache : cache[c].clip = 0 /\ cache[c].refs = 0 /\ cache[c].mem = None
  BY DEF Init, Unused
<1>3. ClipsKnown
  BY <1>2, IdleIsRequest DEF Init, ClipsKnown
<1>4. RefsAre
  <2>1. ASSUME NEW c \in 1 .. NCache PROVE Cardinality(Refers(c)) = 0 /\ Pending(c) = 0
    <3>1. Refers(c) = {}
      BY <2>1 DEF Init, Refers
    <3>2. pc[Game] = "idle"
      BY DEF Init
    <3> QED BY <3>1, <3>2, FS_EmptySet DEF Pending
  <2> QED BY <1>2, <2>1 DEF RefsAre
<1>5. BytesAre
  <2>1. \A c \in 1 .. NCache : Weights[c] = 0
    BY <1>2 DEF Weights, Bytes
  <2>2. PICK s : IsSum(s, Weights, NCache) /\ Total(Weights) = s[NCache]
    BY TotalIs
  <2>3. s[NCache] = 0
    <3>1. NCache \in Nat
      OBVIOUS
    <3> QED BY ONLY <2>1, <2>2, <3>1, SumOfNone
  <2>4. pcm_bytes = 0
    BY DEF Init
  <2> QED BY <2>2, <2>3, <2>4 DEF BytesAre
<1> QED BY <1>1, <1>3, <1>4, <1>5 DEF CacheIInv

\* For a cache, a table of Sounds and budgets of any size: an entry has as many
\* references as Sounds refer to it, and the bytes counted against the budgets are the
\* entries', within the larger budget (audio_patch.c:299-343, 1626-1652, 1967).
THEOREM CacheCountsExact == Spec => []CacheExact
<1>1. CacheIInv /\ [Next]_vars => CacheIInv'
  BY HeapInductive, CountsStep DEF CacheIInv
<1>2. CacheIInv => CacheExact
  BY DEF CacheIInv, RefsAre, BytesAre, CacheExact, Refers, Pending, Weights
<1> QED BY CountsInit, <1>1, <1>2, PTL DEF Spec
=============================================================================
