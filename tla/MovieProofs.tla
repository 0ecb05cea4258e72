---------------------------- MODULE MovieProofs -----------------------------
(***************************************************************************)
(* For any number of players, sizes of queues, lengths of buffers and      *)
(* movies: Bink is called back once for each buffer that was used up, for  *)
(* a player that is still there, and the hook pumps the open movie only.   *)
(***************************************************************************)
EXTENDS MovieSound, Numbers, FiniteSetTheorems, SequenceTheorems, TLAPS

-----------------------------------------------------------------------------
(* The lengths of the first buffers of a queue.                            *)

LEMMA UnitsIs ==
  ASSUME NEW q, NEW n \in Nat
  PROVE  \E s : /\ s = [m \in 0 .. n |-> IF m = 0 THEN 0 ELSE s[m - 1] + At(q, m).len]
                /\ Units(q, n) = s[n]
<1> DEFINE f == [m \in 0 .. n |-> At(q, m).len]
<1>1. PICK s : s = [m \in 0 .. n |-> IF m = 0 THEN 0 ELSE s[m - 1] + f[m]]
  <2> HIDE DEF f
  <2> QED BY SumExists
<1>2. \A m \in 0 .. n : f[m] = At(q, m).len
  OBVIOUS
<1> HIDE DEF f
<1>3. s = [m \in 0 .. n |-> IF m = 0 THEN 0 ELSE s[m - 1] + At(q, m).len]
  BY <1>1, <1>2
<1> QED BY <1>3 DEF Units

\* What the first two buffers hold, and that more hold no less.
LEMMA UnitsFew ==
  ASSUME NEW q, NEW n \in Nat, \A m \in 1 .. n : At(q, m).len \in Nat
  PROVE  /\ n = 0 => Units(q, n) = 0
         /\ n = 1 => Units(q, n) = At(q, 1).len
         /\ n >= 2 => Units(q, n) \in Nat /\ Units(q, n) >= At(q, 1).len + At(q, 2).len
<1>1. PICK s : /\ s = [m \in 0 .. n |-> IF m = 0 THEN 0 ELSE s[m - 1] + At(q, m).len]
               /\ Units(q, n) = s[n]
  BY UnitsIs
<1>2. s[0] = 0 /\ \A m \in 1 .. n : s[m] = s[m - 1] + At(q, m).len
  BY <1>1
<1>3. n = 1 => Units(q, n) = At(q, 1).len
  BY <1>1, <1>2
<1>4. ASSUME n >= 2 PROVE Units(q, n) \in Nat /\ Units(q, n) >= At(q, 1).len + At(q, 2).len
  <2> DEFINE Big(m) == s[m] \in Nat /\ s[m] >= At(q, 1).len + At(q, 2).len
             Bad == {m \in 2 .. n : ~Big(m)}
  <2>1. Big(2)
    BY <1>2, <1>4
  <2>2. ASSUME NEW m \in 2 .. n - 1, Big(m) PROVE Big(m + 1)
    BY <1>2, <1>4, <2>2, m + 1 \in 1 .. n
  <2>3. Bad = {}
    <3> SUFFICES ASSUME Bad # {} PROVE FALSE
      OBVIOUS
    <3> HIDE DEF Big
    <3>0. Bad \in SUBSET Nat
      OBVIOUS
    <3>1. PICK b \in Bad : \A y \in Bad : b <= y
      <4> HIDE DEF Bad
      <4> QED BY <3>0, LeastExists
    <3>2. b # 2 /\ b \in 2 .. n /\ ~Big(b)
      BY <2>1
    <3>3. b - 1 \in 2 .. n - 1 /\ Big(b - 1)
      BY <3>1, <3>2
    <3> QED BY <2>2, <3>2, <3>3
  <2> HIDE DEF Big
  <2>4. Big(n)
    BY <1>4, <2>3
  <2> QED BY <1>1, <2>4 DEF Big
<1> QED BY <1>1, <1>2, <1>3, <1>4

\* Rounding up.
LEMMA CeilIs ==
  ASSUME NEW a \in Nat, NEW b \in Nat \ {0}
  PROVE  /\ Ceil(a, b) \in Nat /\ Ceil(a, b) * b >= a /\ Ceil(a, b) * b < a + b
         /\ a > 0 => Ceil(a, b) > 0
<1> DEFINE c == a + b - 1
           d == c \div b
<1>1. c \in Nat
  OBVIOUS
<1>2. d \in Nat /\ c % b \in 0 .. b - 1 /\ c = b * d + (c % b)
  <2> HIDE DEF c
  <2> QED BY <1>1, DivMod
<1>3. Ceil(a, b) = d
  BY DEF Ceil
<1>4. b * d = d * b
  BY <1>2
<1>5. d = 0 => d * b = 0
  BY <1>2
<1> HIDE DEF d
<1> QED BY <1>2, <1>3, <1>4, <1>5

-----------------------------------------------------------------------------
(* The queue of a player.                                                  *)

Buffers == [id : Nat, len : Lens \cup {0}]

Rec(b, f, c, cap, p, ff, d, t) ==
  [buffers |-> b, front |-> f, count |-> c, capacity |-> cap, pos |-> p, fifo |-> ff,
   done |-> d, told |-> t]

QueueShape(q) ==
  /\ q = Rec(q.buffers, q.front, q.count, q.capacity, q.pos, q.fifo, q.done, q.told)
  /\ q.capacity \in Nat \ {0} /\ q.buffers \in [0 .. q.capacity - 1 -> Buffers]
  /\ q.front \in 0 .. q.capacity - 1 /\ q.count \in 0 .. q.capacity /\ q.pos \in Nat
  /\ q.done \in Nat /\ q.told \in Nat

\* The ring holds what was queued and is not used up; what is left over of the last
\* buffer used up, when no other is queued, is less than a frame.
QueueOK(q) ==
  /\ QueueShape(q)
  /\ q.fifo = [n \in 1 .. q.count |-> At(q, n)]
  /\ \A n \in 1 .. q.count : At(q, n).len \in Lens
  /\ IF q.count = 0 THEN q.pos < Step ELSE q.pos < At(q, 1).len

\* What nobody but the mixer and the callback's report changes.
SameBooks(q, r) == r.capacity = q.capacity /\ r.done = q.done /\ r.told = q.told

LEMMA RecFields ==
  ASSUME NEW b, NEW f, NEW c, NEW cap, NEW p, NEW ff, NEW d, NEW t
  PROVE  LET r == Rec(b, f, c, cap, p, ff, d, t)
         IN  /\ r.buffers = b /\ r.front = f /\ r.count = c /\ r.capacity = cap
             /\ r.pos = p /\ r.fifo = ff /\ r.done = d /\ r.told = t
BY DEF Rec

\* The places of a ring.
LEMMA SlotFacts ==
  ASSUME NEW n \in Nat \ {0}, NEW f \in 0 .. n - 1
  PROVE  /\ \A k \in Nat : (f + k) % n \in 0 .. n - 1
         /\ f % n = f
         /\ \A k \in 1 .. n - 1 : (f + k) % n # f
         /\ \A j, k \in Nat : j < k /\ k - j < n => (f + j) % n # (f + k) % n
<1>1. ASSUME NEW k \in Nat PROVE (f + k) % n \in 0 .. n - 1
  BY f + k \in Nat, DivMod
<1>2. f % n = f
  BY ModSmall
<1>3. ASSUME NEW j \in Nat, NEW k \in Nat, j < k, k - j < n
      PROVE  (f + j) % n # (f + k) % n
  BY <1>3, f + j \in Nat, f + k \in Nat, f + j < f + k, (f + k) - (f + j) < n, ModDiffer
<1>4. ASSUME NEW k \in 1 .. n - 1 PROVE (f + k) % n # f
  BY <1>2, <1>4, f + k \in Nat, f < f + k, (f + k) - f < n, ModDiffer
<1> QED BY <1>1, <1>2, <1>3, <1>4

\* A remainder goes on like the number it is of.
LEMMA ModThen ==
  ASSUME NEW n \in Nat \ {0}, NEW a \in Nat, NEW k \in Nat
  PROVE  ((a % n) + k) % n = (a + k) % n
<1> DEFINE q == a \div n
           r == a % n
           p == (r + k) \div n
           s == (r + k) % n
<1>1. q \in Nat /\ r \in 0 .. n - 1 /\ a = n * q + r
  BY DivMod
<1> HIDE DEF q, r
<1>2. p \in Nat /\ s \in 0 .. n - 1 /\ r + k = n * p + s
  BY <1>1, r + k \in Nat, DivMod
<1> HIDE DEF p, s
<1>3. q + p \in Nat /\ a + k = n * (q + p) + s
  BY <1>1, <1>2
<1>4. (a + k) % n = s
  BY <1>2, <1>3, ModUnique
<1> QED BY <1>4 DEF s, r

LEMMA EmptyOK ==
  ASSUME NEW q, QueueShape(q), q.count = 0, q.pos < Step, q.fifo = <<>>
  PROVE  QueueOK(q)
<1>1. q.fifo = [n \in 1 .. q.count |-> At(q, n)]
  <2>1. 1 .. q.count = {}
    OBVIOUS
  <2> QED BY <2>1
<1> QED BY <1>1 DEF QueueOK

LEMMA NewQueueOK ==
  ASSUME NEW c \in Nat \ {0}
  PROVE  QueueOK(NewQueue(c)) /\ NewQueue(c).done = 0 /\ NewQueue(c).told = 0
<1> DEFINE b == [s \in 0 .. c - 1 |-> NoBuffer]
           q == NewQueue(c)
<1>1. q = Rec(b, 0, 0, c, 0, <<>>, 0, 0)
  BY DEF NewQueue, Rec
<1>2. NoBuffer \in Buffers
  BY DEF NoBuffer, Buffers
<1>3. b \in [0 .. c - 1 -> Buffers]
  BY <1>2
<1> HIDE DEF b, q
<1>4. /\ q.buffers = b /\ q.front = 0 /\ q.count = 0 /\ q.capacity = c
      /\ q.pos = 0 /\ q.fifo = <<>> /\ q.done = 0 /\ q.told = 0
  BY <1>1, RecFields
<1>5. QueueShape(q)
  BY <1>1, <1>3, <1>4 DEF QueueShape
<1>6. QueueOK(q)
  BY <1>4, <1>5, MovieAssumption, EmptyOK
<1> QED BY <1>4, <1>6 DEF q

\* Each operation, on a queue given by its fields.
LEMMA ClearedRec ==
  ASSUME NEW b, NEW f, NEW c, NEW cap, NEW p, NEW ff, NEW d, NEW t
  PROVE  Cleared(Rec(b, f, c, cap, p, ff, d, t)) = Rec(b, 0, 0, cap, 0, <<>>, d, t)
<1> DEFINE q == Rec(b, f, c, cap, p, ff, d, t)
<1>1. Cleared(q)
        = [[[[q EXCEPT !.front = 0] EXCEPT !.count = 0] EXCEPT !.pos = 0] EXCEPT !.fifo = <<>>]
  BY DEF Cleared
<1>2. /\ [q EXCEPT !.front = 0] = Rec(b, 0, c, cap, p, ff, d, t)
      /\ [Rec(b, 0, c, cap, p, ff, d, t) EXCEPT !.count = 0] = Rec(b, 0, 0, cap, p, ff, d, t)
      /\ [Rec(b, 0, 0, cap, p, ff, d, t) EXCEPT !.pos = 0] = Rec(b, 0, 0, cap, 0, ff, d, t)
      /\ [Rec(b, 0, 0, cap, 0, ff, d, t) EXCEPT !.fifo = <<>>]
           = Rec(b, 0, 0, cap, 0, <<>>, d, t)
  BY DEF Rec
<1> HIDE DEF q
<1>3. Cleared(q) = Rec(b, 0, 0, cap, 0, <<>>, d, t)
  BY <1>1, <1>2
<1> QED BY <1>3 DEF q

More(b, f, c, cap, p, ff, d, t, e) ==
  Rec([b EXCEPT ![(f + c) % cap] = e], f, c + 1, cap, p, Append(ff, e), d, t)

LEMMA EnqueuedRec ==
  ASSUME NEW b, NEW f, NEW c, NEW cap, NEW p, NEW ff, NEW d, NEW t, NEW e
  PROVE  Enqueued(Rec(b, f, c, cap, p, ff, d, t), e) = More(b, f, c, cap, p, ff, d, t, e)
<1> DEFINE q == Rec(b, f, c, cap, p, ff, d, t)
           w == [b EXCEPT ![(f + c) % cap] = e]
           gg == Append(ff, e)
<1>1. Rear(q) = (f + c) % cap
  BY DEF Rec, Rear
<1>2. q.buffers = b /\ q.count = c /\ q.fifo = ff
  BY DEF Rec
<1>3. Enqueued(q, e)
        = [[[q EXCEPT !.buffers = w] EXCEPT !.count = c + 1] EXCEPT !.fifo = gg]
  <2> HIDE DEF q
  <2>1. Enqueued(q, e)
          = [[[q EXCEPT !.buffers = [q.buffers EXCEPT ![Rear(q)] = e]]
                EXCEPT !.count = q.count + 1] EXCEPT !.fifo = Append(q.fifo, e)]
    BY ONLY 0 = 0 DEF Enqueued
  <2> QED BY ONLY <1>1, <1>2, <2>1, Zenon
<1>4. /\ [q EXCEPT !.buffers = w] = Rec(w, f, c, cap, p, ff, d, t)
      /\ [Rec(w, f, c, cap, p, ff, d, t) EXCEPT !.count = c + 1]
           = Rec(w, f, c + 1, cap, p, ff, d, t)
      /\ [Rec(w, f, c + 1, cap, p, ff, d, t) EXCEPT !.fifo = gg]
           = Rec(w, f, c + 1, cap, p, gg, d, t)
  <2> HIDE DEF w, gg
  <2> QED BY ONLY 0 = 0 DEF Rec
<1> HIDE DEF q, w, gg
<1>5. Enqueued(q, e) = Rec(w, f, c + 1, cap, p, gg, d, t)
  BY <1>3, <1>4, Zenon
<1> QED BY <1>5 DEF q, w, gg, More

LEMMA ToldRec ==
  ASSUME NEW b, NEW f, NEW c, NEW cap, NEW p, NEW ff, NEW d, NEW t
  PROVE  [Rec(b, f, c, cap, p, ff, d, t) EXCEPT !.told = @ + 1]
           = Rec(b, f, c, cap, p, ff, d, t + 1)
BY DEF Rec

LEMMA ShapeFacts ==
  ASSUME NEW q, QueueOK(q)
  PROVE  /\ q = Rec(q.buffers, q.front, q.count, q.capacity, q.pos, q.fifo, q.done, q.told)
         /\ q.capacity \in Nat \ {0} /\ q.buffers \in [0 .. q.capacity - 1 -> Buffers]
         /\ q.front \in 0 .. q.capacity - 1 /\ q.count \in 0 .. q.capacity
         /\ q.pos \in Nat /\ q.done \in Nat /\ q.told \in Nat
         /\ q.front \in Nat /\ q.count \in Nat
BY DEF QueueOK, QueueShape

LEMMA ClearedOK ==
  ASSUME NEW q, QueueOK(q)
  PROVE  QueueOK(Cleared(q)) /\ SameBooks(q, Cleared(q))
<1> DEFINE r == Cleared(q)
<1>2. r = Rec(q.buffers, 0, 0, q.capacity, 0, <<>>, q.done, q.told)
  <2>1. q = Rec(q.buffers, q.front, q.count, q.capacity, q.pos, q.fifo, q.done, q.told)
    BY ShapeFacts
  <2> QED BY ONLY <2>1, ClearedRec
<1> HIDE DEF r
<1>3. /\ r.buffers = q.buffers /\ r.front = 0 /\ r.count = 0 /\ r.capacity = q.capacity
      /\ r.pos = 0 /\ r.fifo = <<>> /\ r.done = q.done /\ r.told = q.told
  BY <1>2, RecFields
<1>4. QueueShape(r)
  BY <1>2, <1>3, ShapeFacts DEF QueueShape
<1>5. QueueOK(r)
  BY <1>3, <1>4, MovieAssumption, EmptyOK
<1> QED BY <1>3, <1>5 DEF r, SameBooks

\* The places of the buffers of a queue.
LEMMA AtFacts ==
  ASSUME NEW q, QueueOK(q), NEW n \in Nat \ {0}
  PROVE  /\ At(q, n) = q.buffers[(q.front + (n - 1)) % q.capacity]
         /\ (q.front + (n - 1)) % q.capacity \in 0 .. q.capacity - 1
         /\ At(q, n) \in Buffers
<1>1. /\ q.capacity \in Nat \ {0} /\ q.buffers \in [0 .. q.capacity - 1 -> Buffers]
      /\ q.front \in 0 .. q.capacity - 1 /\ q.front \in Nat
  BY ShapeFacts
<1>2. n - 1 \in Nat /\ q.front + n - 1 = q.front + (n - 1)
  BY <1>1
<1>3. (q.front + (n - 1)) % q.capacity \in 0 .. q.capacity - 1
  BY <1>1, <1>2, SlotFacts
<1> QED BY <1>1, <1>2, <1>3 DEF At

LEMMA FifoIs ==
  ASSUME NEW q, QueueOK(q)
  PROVE  /\ q.fifo \in Seq(Buffers) /\ Len(q.fifo) = q.count
         /\ \A n \in 1 .. q.count : q.fifo[n] = At(q, n)
<1>1. q.count \in Nat /\ q.fifo = [n \in 1 .. q.count |-> At(q, n)]
  BY ShapeFacts DEF QueueOK
<1>2. \A n \in 1 .. q.count : At(q, n) \in Buffers
  BY <1>1, AtFacts
<1> DEFINE A(n) == At(q, n)
<1>3. q.fifo = [n \in 1 .. q.count |-> A(n)] /\ \A n \in 1 .. q.count : A(n) \in Buffers
  BY <1>1, <1>2
<1>4. \A n \in 1 .. q.count : q.fifo[n] = A(n)
  BY <1>1
<1> HIDE DEF A
<1>5. q.fifo \in Seq(Buffers) /\ Len(q.fifo) = q.count
  BY <1>1, <1>3, IsASeq
<1> QED BY <1>4, <1>5 DEF A

\* A buffer goes behind the last, to a place that none of the others is at.
LEMMA EnqueuedOK ==
  ASSUME NEW q, QueueOK(q), q.count < q.capacity, NEW b \in Buffers, b.len \in Lens
  PROVE  QueueOK(Enqueued(q, b)) /\ SameBooks(q, Enqueued(q, b))
<1> DEFINE r == Enqueued(q, b)
           rear == (q.front + q.count) % q.capacity
           w == [q.buffers EXCEPT ![rear] = b]
<1>1. /\ q.capacity \in Nat \ {0} /\ q.buffers \in [0 .. q.capacity - 1 -> Buffers]
      /\ q.front \in 0 .. q.capacity - 1 /\ q.front \in Nat /\ q.count \in Nat
      /\ q.pos \in Nat /\ q.done \in Nat /\ q.told \in Nat
  BY ShapeFacts
<1>2. r = Rec(w, q.front, q.count + 1, q.capacity, q.pos, Append(q.fifo, b), q.done, q.told)
  <2>1. q = Rec(q.buffers, q.front, q.count, q.capacity, q.pos, q.fifo, q.done, q.told)
    BY ShapeFacts
  <2>2. Enqueued(Rec(q.buffers, q.front, q.count, q.capacity, q.pos, q.fifo, q.done, q.told), b)
          = More(q.buffers, q.front, q.count, q.capacity, q.pos, q.fifo, q.done, q.told, b)
    BY ONLY EnqueuedRec, SMT
  <2>3. r = More(q.buffers, q.front, q.count, q.capacity, q.pos, q.fifo, q.done, q.told, b)
    <3> HIDE DEF w
    <3> QED BY ONLY <2>1, <2>2, Zenon
  <2> QED BY <2>3 DEF More
<1>3. rear \in 0 .. q.capacity - 1
  BY <1>1, SlotFacts
<1>4. /\ w \in [0 .. q.capacity - 1 -> Buffers] /\ w[rear] = b
      /\ \A s \in 0 .. q.capacity - 1 : s # rear => w[s] = q.buffers[s]
  BY <1>1, <1>3
<1> HIDE DEF r, w
<1>7. /\ r.buffers = w /\ r.front = q.front /\ r.count = q.count + 1
      /\ r.capacity = q.capacity /\ r.pos = q.pos /\ r.fifo = Append(q.fifo, b)
      /\ r.done = q.done /\ r.told = q.told
  BY ONLY <1>2 DEF Rec
<1>8. QueueShape(r)
  <2>1. r = Rec(r.buffers, r.front, r.count, r.capacity, r.pos, r.fifo, r.done, r.told)
    BY ONLY <1>2, <1>7
  <2>2. r.count \in 0 .. r.capacity /\ r.count \in Nat
    BY <1>1, <1>7
  <2> QED BY <1>1, <1>4, <1>7, <2>1, <2>2 DEF QueueShape
<1>9. At(r, q.count + 1) = b
  <2>1. r.front + (q.count + 1) - 1 = q.front + q.count
    BY <1>1, <1>7
  <2> QED BY <1>4, <1>7, <2>1 DEF At
<1>10. ASSUME NEW n \in 1 .. q.count PROVE At(r, n) = At(q, n)
  <2>1. n - 1 \in Nat /\ n - 1 < q.count /\ q.count - (n - 1) <= q.count /\ n \in Nat \ {0}
    BY <1>1
  <2>2. (q.front + (n - 1)) % q.capacity # rear
    <3> DEFINE x == q.front + (n - 1)
               y == q.front + q.count
    <3>1. x \in Nat /\ y \in Nat /\ x < y /\ y - x < q.capacity
      <4>1. /\ q.front \in Nat /\ q.count \in Nat /\ q.capacity \in Nat /\ n - 1 \in Nat
            /\ n - 1 < q.count /\ q.count < q.capacity
        BY <1>1, <2>1
      <4> QED BY ONLY <4>1
    <3> HIDE DEF x, y
    <3>2. x % q.capacity # y % q.capacity
      BY <1>1, <3>1, ModDiffer
    <3> QED BY <3>2 DEF x, y
  <2>3. /\ At(q, n) = q.buffers[(q.front + (n - 1)) % q.capacity]
        /\ (q.front + (n - 1)) % q.capacity \in 0 .. q.capacity - 1
    BY <2>1, AtFacts
  <2>4. At(r, n) = w[(q.front + (n - 1)) % q.capacity]
    <3>1. q.front + n - 1 = q.front + (n - 1)
      BY <1>1
    <3> QED BY <1>7, <3>1 DEF At
  <2> QED BY <1>4, <2>2, <2>3, <2>4
<1>11. r.fifo = [n \in 1 .. r.count |-> At(r, n)]
  <2>2. q.fifo \in Seq(Buffers) /\ Len(q.fifo) = q.count /\ \A n \in 1 .. q.count : q.fifo[n] = At(q, n)
    BY FifoIs
  <2> DEFINE a == Append(q.fifo, b)
  <2>3. /\ DOMAIN a = 1 .. q.count + 1 /\ a[q.count + 1] = b
        /\ \A n \in 1 .. q.count : a[n] = q.fifo[n]
        /\ a \in Seq(Buffers)
    BY <2>2, AppendProperties, LenProperties
  <2> HIDE DEF a
  <2>4. \A n \in 1 .. q.count + 1 : a[n] = At(r, n)
    <3> TAKE n \in 1 .. q.count + 1
    <3>1. CASE n = q.count + 1
      BY <1>9, <2>3, <3>1
    <3>2. CASE n \in 1 .. q.count
      BY <1>10, <2>2, <2>3, <3>2
    <3> QED BY <1>1, <3>1, <3>2
  <2>5. a = [n \in 1 .. q.count + 1 |-> a[n]]
    BY <2>3
  <2> QED BY <1>7, <2>4, <2>5 DEF a
<1>12. \A n \in 1 .. r.count : At(r, n).len \in Lens
  <2> TAKE n \in 1 .. r.count
  <2>1. CASE n = q.count + 1
    BY <1>9, <2>1
  <2>2. CASE n \in 1 .. q.count
    BY <1>10, <2>2 DEF QueueOK
  <2> QED BY <1>1, <1>7, <2>1, <2>2
<1>13. r.count # 0 /\ r.pos < At(r, 1).len
  <2>1. CASE q.count = 0
    <3>1. At(r, 1) = b
      BY <1>9, <2>1
    <3>2. q.pos < Step /\ b.len >= Step /\ Step \in Nat /\ b.len \in Nat
      BY <2>1, MovieAssumption DEF QueueOK
    <3> QED BY <1>1, <1>7, <3>1, <3>2
  <2>2. CASE q.count # 0
    BY <1>1, <1>7, <1>10, <2>2 DEF QueueOK
  <2> QED BY <1>1, <1>7, <2>1, <2>2
<1>14. QueueOK(r)
  BY <1>8, <1>11, <1>12, <1>13 DEF QueueOK
<1> QED BY <1>7, <1>14 DEF r, SameBooks

-----------------------------------------------------------------------------
(* What one region of the mix takes from a queue.                          *)

FramesOf(q, n) == IF q.count = 0 THEN 0 ELSE Min({n, Ceil(Units(q, q.count) - q.pos, Step)})
EndOf(q, n) == q.pos + FramesOf(q, n) * Step
UsedOf(q, n) == Max({k \in 0 .. q.count : Units(q, k) <= EndOf(q, n)})

\* The mixer asks for no more than is left of the first buffer.
Within(q, n) == n \in Nat /\ (q.count = 0 \/ n <= FramesToCompletion(q))

LEMMA LensFacts ==
  ASSUME NEW q, QueueOK(q)
  PROVE  \A n \in 1 .. q.count :
           At(q, n).len \in Lens /\ At(q, n).len \in Nat /\ At(q, n).len >= Step
BY MovieAssumption DEF QueueOK

\* Frames that end in the first buffer, or less than a frame past it.
LEMMA EndFacts ==
  ASSUME NEW q, QueueOK(q), NEW n, Within(q, n)
  PROVE  /\ EndOf(q, n) \in Nat
         /\ q.count = 0 => EndOf(q, n) = q.pos
         /\ q.count # 0 => EndOf(q, n) < At(q, 1).len + Step
<1>1. Step \in Nat \ {0} /\ q.pos \in Nat /\ q.count \in Nat /\ n \in Nat
  BY ShapeFacts, MovieAssumption DEF Within
<1>2. CASE q.count = 0
  <2>1. 0 * Step = 0
    BY <1>1
  <2> QED BY <1>1, <1>2, <2>1 DEF EndOf, FramesOf
<1>3. CASE q.count # 0
  <2> DEFINE len == At(q, 1).len
             has == Units(q, q.count)
             a == Ceil(len - q.pos, Step)
             c == Ceil(has - q.pos, Step)
             f == FramesOf(q, n)
  <2>1. len \in Nat /\ q.pos < len
    BY <1>1, <1>3, LensFacts DEF QueueOK
  <2>2. has \in Nat /\ has >= len
    <3>1. \A m \in 1 .. q.count : At(q, m).len \in Nat
      BY LensFacts
    <3>2. /\ q.count = 1 => has = len
          /\ q.count >= 2 => has \in Nat /\ has >= len + At(q, 2).len
      BY <1>1, <3>1, UnitsFew
    <3> QED BY <1>1, <1>3, <2>1, <3>1, <3>2
  <2> HIDE DEF len, has
  <2>3. len - q.pos \in Nat /\ has - q.pos \in Nat
    BY <1>1, <2>1, <2>2
  <2>4. a \in Nat /\ a * Step < (len - q.pos) + Step /\ c \in Nat
    BY <1>1, <2>3, CeilIs
  <2>5. n <= a
    BY <1>3 DEF Within, FramesToCompletion, len
  <2>6. f \in Nat /\ f <= n
    <3>1. f = Min({n, c})
      BY <1>3 DEF FramesOf, has
    <3> HIDE DEF f, c
    <3>2. Min({n, c}) \in Nat /\ Min({n, c}) <= n
      <4>1. \E x \in {n, c} : \A y \in {n, c} : x <= y
        BY <1>1, <2>4
      <4> QED BY <1>1, <2>4, <4>1 DEF Min
    <3> QED BY <3>1, <3>2
  <2> HIDE DEF a, f
  <2>7. f <= a
    BY <1>1, <2>4, <2>5, <2>6
  <2>8. f * Step <= a * Step /\ f * Step \in Nat
    BY <1>1, <2>4, <2>6, <2>7
  <2>9. EndOf(q, n) = q.pos + f * Step
    BY DEF EndOf, f
  <2>10. a * Step \in Nat
    BY <1>1, <2>4
  <2>11. EndOf(q, n) \in Nat /\ EndOf(q, n) < len + Step
    BY <1>1, <2>1, <2>4, <2>8, <2>9, <2>10
  <2> QED BY <1>3, <2>11 DEF len
<1> QED BY <1>2, <1>3

\* So one buffer is used up at most.
LEMMA UsedFacts ==
  ASSUME NEW q, QueueOK(q), NEW n, Within(q, n)
  PROVE  /\ UsedOf(q, n) \in {0, 1} /\ UsedOf(q, n) <= q.count
         /\ UsedOf(q, n) = 0 => /\ Units(q, 0) = 0
                                /\ q.count # 0 => EndOf(q, n) < At(q, 1).len
         /\ UsedOf(q, n) = 1 => /\ Units(q, 1) = At(q, 1).len
                                /\ At(q, 1).len <= EndOf(q, n)
<1> DEFINE end == EndOf(q, n)
           K == {k \in 0 .. q.count : Units(q, k) <= end}
<1>1. Step \in Nat \ {0} /\ q.count \in Nat /\ end \in Nat
  BY ShapeFacts, MovieAssumption, EndFacts
<1>2. q.count # 0 => end < At(q, 1).len + Step
  BY EndFacts
<1>3. ASSUME NEW k \in 0 .. q.count
      PROVE  /\ k = 0 => Units(q, k) = 0
             /\ k = 1 => Units(q, k) = At(q, 1).len
             /\ k >= 2 => Units(q, k) \in Nat /\ Units(q, k) > end
  <2>1. \A m \in 1 .. k : At(q, m).len \in Nat /\ At(q, m).len >= Step
    BY <1>1, LensFacts
  <2>2. /\ k = 0 => Units(q, k) = 0
        /\ k = 1 => Units(q, k) = At(q, 1).len
        /\ k >= 2 => Units(q, k) \in Nat /\ Units(q, k) >= At(q, 1).len + At(q, 2).len
    BY <1>1, <2>1, UnitsFew
  <2> HIDE DEF end
  <2>3. k >= 2 => Units(q, k) > end
    BY <1>1, <1>2, <2>1, <2>2
  <2> QED BY <2>2, <2>3
<1> HIDE DEF end
<1>4. 0 \in K /\ K \subseteq {0, 1}
  BY <1>1, <1>3
<1>5. \E x \in K : \A y \in K : x >= y
  BY <1>4
<1>6. Max(K) \in K /\ \A y \in K : Max(K) >= y
  <2> HIDE DEF K
  <2> QED BY <1>5 DEF Max
<1>7. UsedOf(q, n) = Max(K)
  BY DEF UsedOf, end
<1>8. UsedOf(q, n) = 0 /\ q.count # 0 => end < At(q, 1).len
  <2> SUFFICES ASSUME UsedOf(q, n) = 0, q.count # 0 PROVE end < At(q, 1).len
    OBVIOUS
  <2>1. 1 \notin K
    BY <1>6, <1>7
  <2>2. Units(q, 1) = At(q, 1).len /\ At(q, 1).len \in Nat
    BY <1>1, <1>3, LensFacts
  <2> QED BY <1>1, <2>1, <2>2
<1>9. UsedOf(q, n) \in K
  BY <1>6, <1>7
<1> QED BY <1>1, <1>3, <1>4, <1>8, <1>9 DEF end

\* The places a mix empties, and the queue it leaves.
Emptied(q, n) ==
  [s \in DOMAIN q.buffers |-> IF \E k \in 1 .. UsedOf(q, n) : s = (q.front + k - 1) % q.capacity
                              THEN NoBuffer ELSE q.buffers[s]]
Left(q, n) ==
  LET u == UsedOf(q, n)
  IN  Rec(Emptied(q, n), (q.front + u) % q.capacity, q.count - u, q.capacity,
          EndOf(q, n) - Units(q, u), SubSeq(q.fifo, u + 1, Len(q.fifo)), q.done + u, q.told)

\* The mix puts one field after the other.
PutBuffers(q, x) == [q EXCEPT !.buffers = x]
PutFront(q, x) == [q EXCEPT !.front = x]
PutCount(q, x) == [q EXCEPT !.count = x]
PutPos(q, x) == [q EXCEPT !.pos = x]
PutDone(q, x) == [q EXCEPT !.done = x]
PutFifo(q, x) == [q EXCEPT !.fifo = x]

LEMMA PutFields ==
  ASSUME NEW b, NEW f, NEW c, NEW cap, NEW p, NEW ff, NEW d, NEW t, NEW x
  PROVE  LET r == Rec(b, f, c, cap, p, ff, d, t)
         IN  /\ PutBuffers(r, x) = Rec(x, f, c, cap, p, ff, d, t)
             /\ PutFront(r, x) = Rec(b, x, c, cap, p, ff, d, t)
             /\ PutCount(r, x) = Rec(b, f, x, cap, p, ff, d, t)
             /\ PutPos(r, x) = Rec(b, f, c, cap, x, ff, d, t)
             /\ PutDone(r, x) = Rec(b, f, c, cap, p, ff, x, t)
             /\ PutFifo(r, x) = Rec(b, f, c, cap, p, x, d, t)
BY ONLY 0 = 0 DEF Rec, PutBuffers, PutFront, PutCount, PutPos, PutDone, PutFifo

LEMMA MixedIs ==
  ASSUME NEW q, QueueOK(q), NEW n
  PROVE  Mixed(q, n) = Left(q, n)
<1> DEFINE u == UsedOf(q, n)
           b1 == Emptied(q, n)
           f1 == (q.front + u) % q.capacity
           c1 == q.count - u
           p1 == EndOf(q, n) - Units(q, u)
           ff1 == SubSeq(q.fifo, u + 1, Len(q.fifo))
           d1 == q.done + u
           r == Rec(q.buffers, q.front, q.count, q.capacity, q.pos, q.fifo, q.done, q.told)
<1>1. Mixed(q, n) = [q EXCEPT !.buffers = b1, !.front = f1, !.count = c1, !.pos = p1,
                              !.done = d1, !.fifo = ff1]
  BY ONLY 0 = 0 DEF Mixed, Emptied, UsedOf, EndOf, FramesOf
<1>2. Left(q, n) = Rec(b1, f1, c1, q.capacity, p1, ff1, d1, q.told)
  BY ONLY 0 = 0 DEF Left
<1> HIDE DEF b1, f1, c1, p1, ff1, d1
<1>3. Mixed(q, n) = PutFifo(PutDone(PutPos(PutCount(PutFront(PutBuffers(q, b1), f1), c1), p1),
                                    d1), ff1)
  BY ONLY <1>1 DEF PutBuffers, PutFront, PutCount, PutPos, PutDone, PutFifo
<1>4. q = r
  BY ShapeFacts
<1>5. PutFifo(PutDone(PutPos(PutCount(PutFront(PutBuffers(r, b1), f1), c1), p1), d1), ff1)
        = Rec(b1, f1, c1, q.capacity, p1, ff1, d1, q.told)
  BY ONLY PutFields, SMTT(30)
<1> HIDE DEF r
<1> QED BY ONLY <1>2, <1>3, <1>4, <1>5

LEMMA LeftFields ==
  ASSUME NEW q, NEW n
  PROVE  LET r == Left(q, n)
             u == UsedOf(q, n)
         IN  /\ r = Rec(r.buffers, r.front, r.count, r.capacity, r.pos, r.fifo, r.done, r.told)
             /\ r.buffers = Emptied(q, n) /\ r.front = (q.front + u) % q.capacity
             /\ r.count = q.count - u /\ r.capacity = q.capacity
             /\ r.pos = EndOf(q, n) - Units(q, u)
             /\ r.fifo = SubSeq(q.fifo, u + 1, Len(q.fifo))
             /\ r.done = q.done + u /\ r.told = q.told
<1> DEFINE r == Left(q, n)
           u == UsedOf(q, n)
           b1 == Emptied(q, n)
           f1 == (q.front + u) % q.capacity
           c1 == q.count - u
           p1 == EndOf(q, n) - Units(q, u)
           ff1 == SubSeq(q.fifo, u + 1, Len(q.fifo))
           d1 == q.done + u
<1>1. r = Rec(b1, f1, c1, q.capacity, p1, ff1, d1, q.told)
  BY DEF Left
<1>2. /\ r.buffers = b1 /\ r.front = f1 /\ r.count = c1 /\ r.capacity = q.capacity
      /\ r.pos = p1 /\ r.fifo = ff1 /\ r.done = d1 /\ r.told = q.told
  <2> HIDE DEF b1, f1, c1, p1, ff1, d1, r
  <2> QED BY ONLY <1>1 DEF Rec
<1> QED BY <1>1, <1>2

\* No buffer is used up: the mix goes on in the first.
LEMMA MixedNone ==
  ASSUME NEW q, QueueOK(q), NEW n, Within(q, n), UsedOf(q, n) = 0
  PROVE  QueueOK(Left(q, n))
<1> DEFINE r == Left(q, n)
<1>1. /\ r = Rec(r.buffers, r.front, r.count, r.capacity, r.pos, r.fifo, r.done, r.told)
      /\ r.buffers = Emptied(q, n) /\ r.front = (q.front + 0) % q.capacity
      /\ r.count = q.count - 0 /\ r.capacity = q.capacity
      /\ r.pos = EndOf(q, n) - Units(q, 0) /\ r.fifo = SubSeq(q.fifo, 0 + 1, Len(q.fifo))
      /\ r.done = q.done + 0 /\ r.told = q.told
  BY LeftFields
<1>2. /\ q.capacity \in Nat \ {0} /\ q.buffers \in [0 .. q.capacity - 1 -> Buffers]
      /\ q.front \in 0 .. q.capacity - 1 /\ q.count \in 0 .. q.capacity /\ q.count \in Nat
      /\ q.front \in Nat /\ q.done \in Nat /\ q.told \in Nat
  BY ShapeFacts
<1>3. /\ Units(q, 0) = 0 /\ EndOf(q, n) \in Nat
      /\ q.count = 0 => EndOf(q, n) = q.pos
      /\ q.count # 0 => EndOf(q, n) < At(q, 1).len
  BY UsedFacts, EndFacts
<1>4. Emptied(q, n) = q.buffers
  <2>1. 1 .. UsedOf(q, n) = {}
    OBVIOUS
  <2>2. Emptied(q, n) = [s \in DOMAIN q.buffers |-> q.buffers[s]]
    BY <2>1 DEF Emptied
  <2> QED BY <1>2, <2>2
<1>5. q.front % q.capacity = q.front
  BY <1>2, SlotFacts
<1>6. SubSeq(q.fifo, 1, Len(q.fifo)) = q.fifo
  BY FifoIs, SubSeqFull
<1> HIDE DEF r
<1>7. /\ r.buffers = q.buffers /\ r.front = q.front /\ r.count = q.count
      /\ r.capacity = q.capacity /\ r.pos = EndOf(q, n) /\ r.fifo = q.fifo
      /\ r.done = q.done /\ r.told = q.told
  BY <1>1, <1>2, <1>3, <1>4, <1>5, <1>6
<1>8. QueueShape(r)
  BY <1>1, <1>2, <1>3, <1>7 DEF QueueShape
<1>9. \A m : At(r, m) = At(q, m)
  BY <1>7 DEF At
<1>10. IF r.count = 0 THEN r.pos < Step ELSE r.pos < At(r, 1).len
  BY <1>3, <1>7, <1>9 DEF QueueOK
<1>11. r.fifo = [m \in 1 .. r.count |-> At(r, m)]
  BY <1>7, <1>9 DEF QueueOK
<1>12. \A m \in 1 .. r.count : At(r, m).len \in Lens
  BY <1>7, <1>9 DEF QueueOK
<1>13. QueueOK(r)
  BY <1>8, <1>10, <1>11, <1>12 DEF QueueOK
<1> QED BY <1>13 DEF r

\* The first buffer is used up: the others move up, and what is left is less than a frame.
LEMMA MixedOne ==
  ASSUME NEW q, QueueOK(q), NEW n, Within(q, n), UsedOf(q, n) = 1
  PROVE  QueueOK(Left(q, n))
<1> DEFINE r == Left(q, n)
<1>1. /\ r = Rec(r.buffers, r.front, r.count, r.capacity, r.pos, r.fifo, r.done, r.told)
      /\ r.buffers = Emptied(q, n) /\ r.front = (q.front + 1) % q.capacity
      /\ r.count = q.count - 1 /\ r.capacity = q.capacity
      /\ r.pos = EndOf(q, n) - Units(q, 1) /\ r.fifo = SubSeq(q.fifo, 1 + 1, Len(q.fifo))
      /\ r.done = q.done + 1 /\ r.told = q.told
  BY LeftFields
<1> HIDE DEF r
<1>2. /\ q.capacity \in Nat \ {0} /\ q.buffers \in [0 .. q.capacity - 1 -> Buffers]
      /\ q.front \in 0 .. q.capacity - 1 /\ q.count \in 0 .. q.capacity /\ q.count \in Nat
      /\ q.front \in Nat /\ q.done \in Nat /\ q.told \in Nat
  BY ShapeFacts
<1>3. /\ q.count >= 1 /\ Units(q, 1) = At(q, 1).len /\ At(q, 1).len \in Nat
      /\ EndOf(q, n) \in Nat /\ At(q, 1).len <= EndOf(q, n)
      /\ EndOf(q, n) < At(q, 1).len + Step
  <2>1. q.count >= 1
    BY <1>2, UsedFacts
  <2> QED BY <1>2, <2>1, UsedFacts, EndFacts, LensFacts
<1>4. r.pos \in Nat /\ r.pos < Step
  <2>1. r.pos = EndOf(q, n) - At(q, 1).len /\ Step \in Nat
    BY <1>1, <1>3, MovieAssumption
  <2> QED BY ONLY <1>3, <2>1
<1>5. /\ r.buffers \in [0 .. q.capacity - 1 -> Buffers]
      /\ \A s \in 0 .. q.capacity - 1 : s # q.front => r.buffers[s] = q.buffers[s]
  <2>1. NoBuffer \in Buffers
    BY DEF NoBuffer, Buffers
  <2>2. r.buffers = [s \in 0 .. q.capacity - 1 |->
                       IF \E k \in 1 .. 1 : s = (q.front + k - 1) % q.capacity
                       THEN NoBuffer ELSE q.buffers[s]]
    <3>1. r.buffers = Emptied(q, n) /\ DOMAIN q.buffers = 0 .. q.capacity - 1
      BY <1>1, <1>2
    <3> QED BY ONLY <3>1, UsedOf(q, n) = 1 DEF Emptied
  <2>3. (q.front + 1 - 1) % q.capacity = q.front
    <3>1. q.front + 1 - 1 = q.front
      BY <1>2
    <3> QED BY <1>2, <3>1, SlotFacts
  <2>4. \A s : (\E k \in 1 .. 1 : s = (q.front + k - 1) % q.capacity) <=> s = q.front
    BY <2>3
  <2> DEFINE In(s) == \E k \in 1 .. 1 : s = (q.front + k - 1) % q.capacity
  <2>5. /\ r.buffers = [s \in 0 .. q.capacity - 1 |-> IF In(s) THEN NoBuffer ELSE q.buffers[s]]
        /\ \A s : In(s) <=> s = q.front
    BY <2>2, <2>4
  <2> HIDE DEF In
  <2> QED BY <1>2, <2>1, <2>5
<1>6. QueueShape(r)
  <2>1. (q.front + 1) % q.capacity \in 0 .. q.capacity - 1
    BY <1>2, SlotFacts
  <2>2. q.count - 1 \in 0 .. q.capacity /\ q.done + 1 \in Nat
    BY <1>2, <1>3
  <2>3. /\ r.capacity \in Nat \ {0} /\ r.buffers \in [0 .. r.capacity - 1 -> Buffers]
        /\ r.front \in 0 .. r.capacity - 1 /\ r.count \in 0 .. r.capacity
        /\ r.done \in Nat /\ r.told \in Nat
    BY <1>1, <1>2, <1>5, <2>1, <2>2
  <2> QED BY <1>1, <1>4, <2>3 DEF QueueShape
<1>7. ASSUME NEW k \in 1 .. r.count PROVE At(r, k) = At(q, k + 1)
  <2>1. k \in 1 .. q.capacity - 1 /\ k \in Nat /\ k - 1 \in Nat /\ k + 1 \in Nat \ {0}
    BY <1>1, <1>2, <1>3
  <2>2. (r.front + k - 1) % q.capacity = (q.front + k) % q.capacity
    <3> DEFINE a == q.front + 1
               j == k - 1
    <3>1. a \in Nat /\ j \in Nat /\ a + j = q.front + k
      BY <1>2, <2>1
    <3>2. r.front = a % q.capacity /\ r.front + k - 1 = r.front + j
      BY <1>1, <1>2, <1>6, <2>1 DEF QueueShape
    <3> HIDE DEF a, j
    <3>3. ((a % q.capacity) + j) % q.capacity = (a + j) % q.capacity
      BY <1>2, <3>1, ModThen
    <3> QED BY <3>1, <3>2, <3>3
  <2>3. (q.front + k) % q.capacity # q.front /\ (q.front + k) % q.capacity \in 0 .. q.capacity - 1
    BY <1>2, <2>1, SlotFacts
  <2>4. At(r, k) = r.buffers[(q.front + k) % q.capacity]
    BY <1>1, <2>2 DEF At
  <2>5. At(q, k + 1) = q.buffers[(q.front + k) % q.capacity]
    <3>1. q.front + (k + 1) - 1 = q.front + k
      BY <1>2, <2>1
    <3> QED BY <3>1 DEF At
  <2> QED BY <1>5, <2>3, <2>4, <2>5
<1>8. r.fifo = [k \in 1 .. r.count |-> At(r, k)]
  <2> DEFINE s == q.fifo
  <2>1. s \in Seq(Buffers) /\ Len(s) = q.count /\ \A k \in 1 .. q.count : s[k] = At(q, k)
    BY FifoIs
  <2>2. r.fifo = SubSeq(s, 2, q.count)
    BY <1>1, <2>1
  <2> HIDE DEF s
  <2>3. r.fifo = [k \in 1 .. q.count - 1 |-> s[k + 1]]
    BY <1>2, <1>3, <2>1, <2>2
  <2>4. \A k \in 1 .. q.count - 1 : s[k + 1] = At(q, k + 1)
    BY <1>2, <2>1
  <2> QED BY <1>1, <1>7, <2>3, <2>4
<1>9. \A k \in 1 .. r.count : At(r, k).len \in Lens
  <2> TAKE k \in 1 .. r.count
  <2>1. k + 1 \in 1 .. q.count
    BY <1>1, <1>2
  <2> QED BY <1>7, <2>1 DEF QueueOK
<1>10. r.count # 0 => r.pos < At(r, 1).len
  <2> SUFFICES ASSUME r.count # 0 PROVE r.pos < At(r, 1).len
    OBVIOUS
  <2>1. 1 \in 1 .. r.count
    BY <1>1, <1>2, <1>3
  <2>2. At(r, 1).len \in Nat /\ At(r, 1).len >= Step
    BY <1>9, <2>1, MovieAssumption
  <2> QED BY <1>4, <2>2, MovieAssumption
<1>11. QueueOK(r)
  BY <1>4, <1>6, <1>8, <1>9, <1>10 DEF QueueOK
<1> QED BY <1>11 DEF r

LEMMA MixedOK ==
  ASSUME NEW q, QueueOK(q), NEW n, Within(q, n)
  PROVE  /\ QueueOK(Mixed(q, n)) /\ Mixed(q, n).capacity = q.capacity
         /\ Mixed(q, n).told = q.told
         /\ Mixed(q, n).done \in {q.done, q.done + 1}
<1> DEFINE r == Left(q, n)
           u == UsedOf(q, n)
<1>1. Mixed(q, n) = r
  BY MixedIs
<1>2. u \in {0, 1}
  BY UsedFacts
<1>3. QueueOK(r)
  BY <1>2, MixedNone, MixedOne
<1>4. r = Left(q, n) /\ u = UsedOf(q, n)
  OBVIOUS
<1> HIDE DEF r, u
<1>5. r.capacity = q.capacity /\ r.told = q.told /\ r.done = q.done + u
  <2>1. q = q /\ n = n
    OBVIOUS
  <2> QED BY ONLY <1>4, LeftFields, SMTT(30)
<1>6. q.done \in Nat
  BY ShapeFacts
<1> QED BY <1>1, <1>2, <1>3, <1>5, <1>6

LEMMA ToldOK ==
  ASSUME NEW q, QueueOK(q)
  PROVE  LET r == [q EXCEPT !.told = q.told + 1]
         IN  QueueOK(r) /\ r.capacity = q.capacity /\ r.done = q.done /\ r.told = q.told + 1
<1> DEFINE r == [q EXCEPT !.told = q.told + 1]
<1>1. q = Rec(q.buffers, q.front, q.count, q.capacity, q.pos, q.fifo, q.done, q.told)
  BY ShapeFacts
<1>2. r = Rec(q.buffers, q.front, q.count, q.capacity, q.pos, q.fifo, q.done, q.told + 1)
  BY ONLY <1>1 DEF Rec
<1> HIDE DEF r
<1>3. /\ r.buffers = q.buffers /\ r.front = q.front /\ r.count = q.count
      /\ r.capacity = q.capacity /\ r.pos = q.pos /\ r.fifo = q.fifo /\ r.done = q.done
      /\ r.told = q.told + 1
  BY ONLY <1>2 DEF Rec
<1>4. QueueShape(r)
  BY <1>2, <1>3, ShapeFacts DEF QueueShape
<1>5. \A m : At(r, m) = At(q, m)
  BY <1>3 DEF At
<1>6. r.fifo = [m \in 1 .. r.count |-> At(r, m)]
  BY <1>3, <1>5 DEF QueueOK
<1>7. \A m \in 1 .. r.count : At(r, m).len \in Lens
  BY <1>3, <1>5 DEF QueueOK
<1>8. IF r.count = 0 THEN r.pos < Step ELSE r.pos < At(r, 1).len
  BY <1>3, <1>5 DEF QueueOK
<1>9. QueueOK(r)
  BY <1>4, <1>6, <1>7, <1>8 DEF QueueOK
<1> QED BY <1>3, <1>9 DEF r

-----------------------------------------------------------------------------
(* The players.                                                            *)

PlayerRec(u, g, pl, cb, q) ==
  [used |-> u, gen |-> g, playing |-> pl, callback |-> cb, queue |-> q]

PlayerOK(r) ==
  /\ r = PlayerRec(r.used, r.gen, r.playing, r.callback, r.queue)
  /\ r.used \in BOOLEAN /\ r.playing \in BOOLEAN /\ r.callback \in BOOLEAN
  /\ r.gen \in Nat /\ QueueOK(r.queue)

\* A player that goes on being the one it was.
SameOne(r, s) ==
  /\ PlayerOK(s) /\ (s.used <=> r.used) /\ s.gen = r.gen
  /\ s.queue.capacity = r.queue.capacity

IsPlayers(f) == f = [p \in Players |-> f[p]]

LEMMA SameItself ==
  ASSUME NEW r, PlayerOK(r)
  PROVE  SameOne(r, r)
BY DEF SameOne

LEMMA PutQueue ==
  ASSUME NEW r, PlayerOK(r), NEW x, QueueOK(x), x.capacity = r.queue.capacity
  PROVE  SameOne(r, [r EXCEPT !.queue = x]) /\ [r EXCEPT !.queue = x].queue = x
<1> DEFINE s == [r EXCEPT !.queue = x]
<1>1. r = PlayerRec(r.used, r.gen, r.playing, r.callback, r.queue)
  BY DEF PlayerOK
<1>2. s = PlayerRec(r.used, r.gen, r.playing, r.callback, x)
  BY ONLY <1>1 DEF PlayerRec
<1> HIDE DEF s
<1>3. /\ s.used = r.used /\ s.gen = r.gen /\ s.playing = r.playing
      /\ s.callback = r.callback /\ s.queue = x
  BY ONLY <1>2 DEF PlayerRec
<1>4. SameOne(r, s)
  BY <1>2, <1>3 DEF SameOne, PlayerOK
<1> QED BY <1>3, <1>4 DEF s

LEMMA PutPlaying ==
  ASSUME NEW r, PlayerOK(r), NEW x \in BOOLEAN
  PROVE  SameOne(r, [r EXCEPT !.playing = x]) /\ [r EXCEPT !.playing = x].queue = r.queue
<1> DEFINE s == [r EXCEPT !.playing = x]
<1>1. r = PlayerRec(r.used, r.gen, r.playing, r.callback, r.queue)
  BY DEF PlayerOK
<1>2. s = PlayerRec(r.used, r.gen, x, r.callback, r.queue)
  BY ONLY <1>1 DEF PlayerRec
<1> HIDE DEF s
<1>3. /\ s.used = r.used /\ s.gen = r.gen /\ s.playing = x
      /\ s.callback = r.callback /\ s.queue = r.queue
  BY ONLY <1>2 DEF PlayerRec
<1>4. SameOne(r, s)
  BY <1>2, <1>3 DEF SameOne, PlayerOK
<1> QED BY <1>3, <1>4 DEF s

LEMMA PutCallback ==
  ASSUME NEW r, PlayerOK(r), NEW x \in BOOLEAN
  PROVE  SameOne(r, [r EXCEPT !.callback = x]) /\ [r EXCEPT !.callback = x].queue = r.queue
<1> DEFINE s == [r EXCEPT !.callback = x]
<1>1. r = PlayerRec(r.used, r.gen, r.playing, r.callback, r.queue)
  BY DEF PlayerOK
<1>2. s = PlayerRec(r.used, r.gen, r.playing, x, r.queue)
  BY ONLY <1>1 DEF PlayerRec
<1> HIDE DEF s
<1>3. /\ s.used = r.used /\ s.gen = r.gen /\ s.playing = r.playing
      /\ s.callback = x /\ s.queue = r.queue
  BY ONLY <1>2 DEF PlayerRec
<1>4. SameOne(r, s)
  BY <1>2, <1>3 DEF SameOne, PlayerOK
<1> QED BY <1>3, <1>4 DEF s

NewPlayer(r, u, g, q) == [[[r EXCEPT !.used = u] EXCEPT !.gen = g] EXCEPT !.queue = q]

LEMMA NewPlayerIs ==
  ASSUME NEW u, NEW g, NEW pl, NEW cb, NEW q, NEW u2, NEW g2, NEW q2
  PROVE  NewPlayer(PlayerRec(u, g, pl, cb, q), u2, g2, q2) = PlayerRec(u2, g2, pl, cb, q2)
<1>1. [PlayerRec(u, g, pl, cb, q) EXCEPT !.used = u2] = PlayerRec(u2, g, pl, cb, q)
  BY ONLY 0 = 0 DEF PlayerRec
<1>2. [PlayerRec(u2, g, pl, cb, q) EXCEPT !.gen = g2] = PlayerRec(u2, g2, pl, cb, q)
  BY ONLY 0 = 0 DEF PlayerRec
<1>3. [PlayerRec(u2, g2, pl, cb, q) EXCEPT !.queue = q2] = PlayerRec(u2, g2, pl, cb, q2)
  BY ONLY 0 = 0 DEF PlayerRec
<1> QED BY <1>1, <1>2, <1>3, Zenon DEF NewPlayer

LEMMA FreeOK ==
  /\ PlayerOK(Free) /\ ~Free.used /\ Free.queue.done = 0 /\ Free.queue.told = 0
<1>1. Free = PlayerRec(FALSE, 0, FALSE, FALSE, NewQueue(1))
  BY DEF Free, PlayerRec
<1>2. /\ Free.used = FALSE /\ Free.gen = 0 /\ Free.playing = FALSE
      /\ Free.callback = FALSE /\ Free.queue = NewQueue(1)
  BY ONLY <1>1 DEF PlayerRec
<1>3. QueueOK(NewQueue(1)) /\ NewQueue(1).done = 0 /\ NewQueue(1).told = 0
  BY NewQueueOK
<1> DEFINE r == Free
<1>4. /\ r = PlayerRec(r.used, r.gen, r.playing, r.callback, r.queue)
      /\ (r.used <=> FALSE) /\ r.gen = 0 /\ r.used \in BOOLEAN /\ r.playing \in BOOLEAN
      /\ r.callback \in BOOLEAN /\ r.queue = NewQueue(1)
  BY <1>1, <1>2
<1> HIDE DEF r
<1>5. PlayerOK(r) /\ ~r.used /\ r.queue.done = 0 /\ r.queue.told = 0
  BY <1>3, <1>4 DEF PlayerOK
<1> QED BY <1>5 DEF r

Created(g, c) == [Free EXCEPT !.used = TRUE, !.gen = g, !.queue = NewQueue(c)]

LEMMA CreatedOK ==
  ASSUME NEW g \in Nat, NEW c \in Nat \ {0}
  PROVE  LET r == Created(g, c)
         IN  /\ PlayerOK(r) /\ r.used /\ r.gen = g /\ r.queue.done = 0 /\ r.queue.told = 0
<1> DEFINE r == [Free EXCEPT !.used = TRUE, !.gen = g, !.queue = NewQueue(c)]
<1>1. r = PlayerRec(TRUE, g, FALSE, FALSE, NewQueue(c))
  <2> DEFINE n == NewQueue(c)
  <2>1. Free = PlayerRec(FALSE, 0, FALSE, FALSE, NewQueue(1))
    BY DEF Free, PlayerRec
  <2> HIDE DEF n
  <2>2. [Free EXCEPT !.used = TRUE, !.gen = g, !.queue = n]
          = NewPlayer(Free, TRUE, g, n)
    BY ONLY 0 = 0 DEF NewPlayer
  <2>3. NewPlayer(PlayerRec(FALSE, 0, FALSE, FALSE, NewQueue(1)), TRUE, g, n)
          = PlayerRec(TRUE, g, FALSE, FALSE, n)
    <3> DEFINE no == FALSE
               yes == TRUE
               q == NewQueue(1)
    <3> HIDE DEF no, yes, q
    <3>1. NewPlayer(PlayerRec(no, 0, no, no, q), yes, g, n) = PlayerRec(yes, g, no, no, n)
      BY ONLY NewPlayerIs, SMT
    <3> QED BY <3>1 DEF no, yes, q
  <2>4. NewPlayer(Free, TRUE, g, n) = PlayerRec(TRUE, g, FALSE, FALSE, n)
    BY ONLY <2>1, <2>3, Zenon
  <2>5. [Free EXCEPT !.used = TRUE, !.gen = g, !.queue = n]
          = PlayerRec(TRUE, g, FALSE, FALSE, n)
    BY ONLY <2>2, <2>4, Zenon
  <2> QED BY <2>5 DEF n
<1> HIDE DEF r
<1>2. /\ r.used = TRUE /\ r.gen = g /\ r.playing = FALSE
      /\ r.callback = FALSE /\ r.queue = NewQueue(c)
  BY ONLY <1>1 DEF PlayerRec
<1>3. QueueOK(NewQueue(c)) /\ NewQueue(c).done = 0 /\ NewQueue(c).told = 0
  BY NewQueueOK
<1>4. PlayerOK(r) /\ r.used /\ r.gen = g /\ r.queue.done = 0 /\ r.queue.told = 0
  BY <1>1, <1>2, <1>3 DEF PlayerOK
<1> QED BY <1>4 DEF r, Created

-----------------------------------------------------------------------------
(* The invariant.                                                          *)

Scalars ==
  /\ generation \in 0 .. MaxGen /\ queued \in 0 .. MaxBufs
  /\ cbLock \in {"free", "audio", "movie"}
  /\ apc \in {"idle", "mix", "lock", "check", "call", "unlock"}
  /\ i \in Players /\ offset \in 0 .. Frames
  /\ job = [player |-> job.player, gen |-> job.gen]
  /\ job.player \in Players /\ job.gen \in 0 .. generation
  /\ mpc \in {"idle", "lock", "body", "unlock"} /\ doomed \in Players
  /\ movie \in 0 .. MaxMovies /\ phase \in {"none", "open", "closed"}
  /\ lastGate \in 0 .. MaxGate
  /\ sndBink \in {None, Stopped} \cup 1 .. movie

PlayersOK ==
  /\ IsPlayers(player) /\ \A p \in Players : PlayerOK(player[p])
  /\ \A p \in Used : player[p].gen \in 1 .. generation

Counted == active = Cardinality(Used)

\* Who holds the callback lock, and the player about to be destroyed is still there.
Locks ==
  /\ apc \in {"check", "call", "unlock"} <=> cbLock = "audio"
  /\ mpc \in {"body", "unlock"} <=> cbLock = "movie"
  /\ mpc \in {"lock", "body"} => doomed \in Used

\* A report is owed for one buffer at most, and to the player the job is for.
Due(p) == IF apc \in {"lock", "check"} /\ job = [player |-> p, gen |-> player[p].gen] THEN 1 ELSE 0
Owed ==
  /\ \A p \in Used : Queue(p).done - Queue(p).told = Due(p)
  /\ apc = "call" => player[job.player].used /\ player[job.player].gen = job.gen

\* The handle that is pumped is that of the open movie, while it has a long queue.
Pumped ==
  /\ phase # "none" => movie >= 1
  /\ sndBink \notin {None, Stopped} =>
       /\ phase = "open" /\ sndBink = movie
       /\ \E p \in Used : player[p].queue.capacity > 2

Invariant == Scalars /\ PlayersOK /\ Counted /\ Locks /\ Owed /\ Pumped

-----------------------------------------------------------------------------
(* What each action does to the players.                                   *)

KeepsPlayers == IsPlayers(player') /\ \A p \in Players : SameOne(player[p], player'[p])
SameDebts ==
  \A p \in Players : /\ player'[p].queue.done = player[p].queue.done
                     /\ player'[p].queue.told = player[p].queue.told

LEMMA KeepsUsed ==
  ASSUME KeepsPlayers
  PROVE  Used' = Used
BY DEF KeepsPlayers, SameOne, Used

LEMMA StillKeeps ==
  ASSUME PlayersOK, player' = player
  PROVE  KeepsPlayers /\ SameDebts
BY SameItself DEF PlayersOK, KeepsPlayers, SameDebts, IsPlayers

\* The change of one player is a change of no other.
LEMMA ChangeOne ==
  ASSUME PlayersOK, NEW p \in Players, NEW s, SameOne(player[p], s),
         player' = [player EXCEPT ![p] = s]
  PROVE  /\ KeepsPlayers /\ player'[p] = s
         /\ \A o \in Players : o # p => player'[o] = player[o]
<1>1. IsPlayers(player) /\ \A o \in Players : PlayerOK(player[o])
  BY DEF PlayersOK
<1>2. /\ player'[p] = s /\ \A o \in Players : o # p => player'[o] = player[o]
      /\ IsPlayers(player')
  BY <1>1 DEF IsPlayers
<1>3. \A o \in Players : SameOne(player[o], player'[o])
  BY <1>1, <1>2, SameItself
<1> QED BY <1>2, <1>3 DEF KeepsPlayers

LEMMA ChangeQueue ==
  ASSUME PlayersOK, NEW p \in Players, NEW x, QueueOK(x),
         x.capacity = player[p].queue.capacity,
         player' = [player EXCEPT ![p].queue = x]
  PROVE  /\ KeepsPlayers /\ player'[p].queue = x
         /\ \A o \in Players : o # p => player'[o] = player[o]
<1> DEFINE s == [player[p] EXCEPT !.queue = x]
<1>1. PlayerOK(player[p])
  BY DEF PlayersOK
<1>2. SameOne(player[p], s) /\ s.queue = x
  <2> DEFINE r == player[p]
  <2>1. PlayerOK(r) /\ x.capacity = r.queue.capacity
    BY <1>1
  <2> HIDE DEF r
  <2>2. SameOne(r, [r EXCEPT !.queue = x]) /\ [r EXCEPT !.queue = x].queue = x
    BY <2>1, PutQueue
  <2> QED BY <2>2 DEF r
<1>3. player' = [player EXCEPT ![p] = s]
  OBVIOUS
<1> HIDE DEF s
<1> QED BY <1>2, <1>3, ChangeOne

LEMMA EnqueueKeeps ==
  ASSUME PlayersOK, queue_enqueue, queued \in Nat
  PROVE  KeepsPlayers /\ SameDebts
<1>1. PICK p \in Used, l \in Lens :
        /\ player[p].queue.count < player[p].queue.capacity
        /\ player' = [player EXCEPT ![p].queue =
                        Enqueued(player[p].queue, [id |-> queued + 1, len |-> l])]
  BY DEF queue_enqueue
<1> DEFINE q == player[p].queue
           b == [id |-> queued + 1, len |-> l]
           x == Enqueued(q, b)
<1>2. p \in Players /\ QueueOK(q) /\ q.count < q.capacity
  BY <1>1 DEF Used, PlayersOK, PlayerOK
<1>3. b \in Buffers /\ b.len \in Lens
  BY DEF Buffers
<1>4. player' = [player EXCEPT ![p].queue = x]
  BY <1>1
<1>5. QueueOK(x) /\ SameBooks(q, x)
  <2> HIDE DEF q, b
  <2> QED BY <1>2, <1>3, EnqueuedOK
<1>6. x.capacity = q.capacity /\ x.done = q.done /\ x.told = q.told
  BY <1>5 DEF SameBooks
<1> HIDE DEF x
<1>7. /\ KeepsPlayers /\ player'[p].queue = x
      /\ \A o \in Players : o # p => player'[o] = player[o]
  BY <1>2, <1>4, <1>5, <1>6, ChangeQueue
<1> QED BY <1>6, <1>7 DEF SameDebts

LEMMA ClearKeeps ==
  ASSUME PlayersOK, queue_clear
  PROVE  KeepsPlayers /\ SameDebts
<1>1. PICK p \in Used : player' = [player EXCEPT ![p].queue = Cleared(player[p].queue)]
  BY DEF queue_clear
<1> DEFINE q == player[p].queue
           x == Cleared(q)
<1>2. p \in Players /\ QueueOK(q)
  BY <1>1 DEF Used, PlayersOK, PlayerOK
<1>3. player' = [player EXCEPT ![p].queue = x]
  BY <1>1
<1>4. QueueOK(x) /\ SameBooks(q, x)
  <2> HIDE DEF q
  <2> QED BY <1>2, ClearedOK
<1>5. x.capacity = q.capacity /\ x.done = q.done /\ x.told = q.told
  BY <1>4 DEF SameBooks
<1> HIDE DEF x
<1>6. /\ KeepsPlayers /\ player'[p].queue = x
      /\ \A o \in Players : o # p => player'[o] = player[o]
  BY <1>2, <1>3, <1>4, <1>5, ChangeQueue
<1> QED BY <1>5, <1>6 DEF SameDebts

LEMMA RegisterKeeps ==
  ASSUME PlayersOK, queue_register_callback
  PROVE  KeepsPlayers /\ SameDebts
<1>1. PICK p \in Used : player' = [player EXCEPT ![p].callback = TRUE]
  BY DEF queue_register_callback
<1> DEFINE r == player[p]
           s == [r EXCEPT !.callback = TRUE]
<1>2. p \in Players /\ PlayerOK(r)
  BY <1>1 DEF Used, PlayersOK
<1>3. player' = [player EXCEPT ![p] = s]
  BY <1>1
<1>4. SameOne(r, s) /\ s.queue = r.queue
  <2> HIDE DEF r
  <2> QED BY <1>2, PutCallback
<1> HIDE DEF s
<1>5. /\ KeepsPlayers /\ player'[p] = s
      /\ \A o \in Players : o # p => player'[o] = player[o]
  BY <1>2, <1>3, <1>4, ChangeOne
<1> QED BY <1>4, <1>5 DEF SameDebts

LEMMA StateKeeps ==
  ASSUME PlayersOK, play_set_state
  PROVE  KeepsPlayers /\ SameDebts
<1>1. PICK p \in Used : player' = [player EXCEPT ![p].playing = ~player[p].playing]
  BY DEF play_set_state
<1> DEFINE r == player[p]
           b == ~r.playing
           s == [r EXCEPT !.playing = b]
<1>2. p \in Players /\ PlayerOK(r) /\ b \in BOOLEAN
  BY <1>1 DEF Used, PlayersOK
<1>3. player' = [player EXCEPT ![p] = s]
  BY <1>1
<1>4. SameOne(r, s) /\ s.queue = r.queue
  <2> HIDE DEF r, b
  <2> QED BY <1>2, PutPlaying
<1> HIDE DEF s
<1>5. /\ KeepsPlayers /\ player'[p] = s
      /\ \A o \in Players : o # p => player'[o] = player[o]
  BY <1>2, <1>3, <1>4, ChangeOne
<1> QED BY <1>4, <1>5 DEF SameDebts

LEMMA ChunkFacts ==
  ASSUME NEW q, QueueOK(q), offset \in 0 .. Frames, offset < Frames
  PROVE  Within(q, Chunk(q)) /\ offset + Chunk(q) \in 0 .. Frames
<1> DEFINE n == FramesToCompletion(q)
<1>1. Frames \in Nat /\ Frames - offset \in Nat /\ Step \in Nat \ {0}
  BY MovieAssumption
<1>2. n \in Nat /\ (n = 0 => q.count = 0)
  <2>1. CASE q.count = 0
    BY <2>1 DEF FramesToCompletion
  <2>2. CASE q.count # 0
    <3> DEFINE a == At(q, 1).len - q.pos
    <3>1. a \in Nat /\ a > 0
      <4>1. 1 \in 1 .. q.count
        BY <2>2, ShapeFacts
      <4>2. At(q, 1).len \in Nat /\ q.pos < At(q, 1).len /\ q.pos \in Nat
        BY <2>2, <4>1, LensFacts, ShapeFacts DEF QueueOK
      <4> QED BY <4>2
    <3>2. n = Ceil(a, Step)
      BY <2>2 DEF FramesToCompletion
    <3> HIDE DEF a, n
    <3> QED BY <1>1, <3>1, <3>2, CeilIs
  <2> QED BY <2>1, <2>2
<1>3. Chunk(q) = IF n = 0 \/ n > Frames - offset THEN Frames - offset ELSE n
  BY DEF Chunk
<1> HIDE DEF n
<1>4. Chunk(q) \in Nat /\ Chunk(q) <= Frames - offset /\ (q.count = 0 \/ Chunk(q) <= n)
  BY <1>1, <1>2, <1>3
<1>5. Within(q, Chunk(q))
  BY <1>4 DEF Within, n
<1> QED BY <1>1, <1>4, <1>5

\* The mix reports at most one buffer, to the player that it mixes.
LEMMA ChunkStep ==
  ASSUME PlayersOK, Scalars, MixChunk
  PROVE  /\ KeepsPlayers /\ i \in Used /\ offset' \in 0 .. Frames
         /\ \A o \in Players : o # i => player'[o] = player[o]
         /\ player'[i].queue.told = player[i].queue.told
         /\ \/ /\ player'[i].queue.done = player[i].queue.done
               /\ apc' = apc /\ job' = job
            \/ /\ player'[i].queue.done = player[i].queue.done + 1
               /\ apc' = "lock" /\ job' = [player |-> i, gen |-> player[i].gen]
<1> DEFINE q == player[i].queue
           x == Mixed(q, Chunk(q))
<1>1. /\ i \in Players /\ player[i].used /\ offset \in 0 .. Frames /\ offset < Frames
      /\ player' = [player EXCEPT ![i].queue = x]
      /\ offset' = offset + Chunk(q)
      /\ IF x.done = q.done
         THEN apc' = apc /\ job' = job
         ELSE apc' = "lock" /\ job' = [player |-> i, gen |-> player[i].gen]
  BY DEF MixChunk, Scalars
<1>2. QueueOK(q)
  BY <1>1 DEF PlayersOK, PlayerOK
<1>3. /\ QueueOK(x) /\ x.capacity = q.capacity /\ x.told = q.told
      /\ x.done \in {q.done, q.done + 1}
      /\ offset + Chunk(q) \in 0 .. Frames /\ q.done \in Nat
  <2> HIDE DEF q
  <2>1. Within(q, Chunk(q)) /\ offset + Chunk(q) \in 0 .. Frames
    BY <1>1, <1>2, ChunkFacts
  <2> DEFINE n == Chunk(q)
  <2>2. Within(q, n)
    BY <2>1
  <2> HIDE DEF n
  <2>3. /\ QueueOK(Mixed(q, n)) /\ Mixed(q, n).capacity = q.capacity
        /\ Mixed(q, n).told = q.told /\ Mixed(q, n).done \in {q.done, q.done + 1}
    BY <1>2, <2>2, MixedOK
  <2>4. q.done \in Nat
    BY <1>2, ShapeFacts
  <2> QED BY <2>1, <2>3, <2>4 DEF n
<1> HIDE DEF x
<1>4. /\ KeepsPlayers /\ player'[i].queue = x
      /\ \A o \in Players : o # i => player'[o] = player[o]
  BY <1>1, <1>3, ChangeQueue
<1>5. i \in Used
  BY <1>1 DEF Used
<1> HIDE DEF q
<1>6. \/ x.done = q.done /\ apc' = apc /\ job' = job
      \/ x.done = q.done + 1 /\ apc' = "lock" /\ job' = [player |-> i, gen |-> player[i].gen]
  BY <1>1, <1>3
<1> QED BY <1>1, <1>3, <1>4, <1>5, <1>6 DEF q

\* The report goes to the player that the job is for, if that is still there.
LEMMA CheckStep ==
  ASSUME PlayersOK, Scalars, CallbackCheck
  PROVE  /\ KeepsPlayers
         /\ \A o \in Players : (o # job.player \/ ~Valid) => player'[o] = player[o]
         /\ Valid => /\ player'[job.player].queue.told = player[job.player].queue.told + 1
                     /\ player'[job.player].queue.done = player[job.player].queue.done
<1>1. CASE ~Valid
  <2>1. player' = player
    BY <1>1 DEF CallbackCheck
  <2> QED BY <1>1, <2>1, StillKeeps
<1>2. CASE Valid
  <2> DEFINE p == job.player
             q == player[p].queue
             x == [q EXCEPT !.told = q.told + 1]
  <2>1. p \in Players /\ QueueOK(q)
    BY DEF Scalars, PlayersOK, PlayerOK
  <2>2. player' = [player EXCEPT ![p].queue.told = player[p].queue.told + 1]
    BY <1>2 DEF CallbackCheck
  <2>3. player' = [player EXCEPT ![p].queue = x]
    BY ONLY <2>2
  <2>4. QueueOK(x) /\ x.capacity = q.capacity /\ x.done = q.done /\ x.told = q.told + 1
    <3> HIDE DEF q
    <3> QED BY <2>1, ToldOK
  <2> HIDE DEF x, p
  <2>5. /\ KeepsPlayers /\ player'[p].queue = x
        /\ \A o \in Players : o # p => player'[o] = player[o]
    BY <2>1, <2>3, <2>4, ChangeQueue
  <2> QED BY <1>2, <2>1, <2>4, <2>5 DEF p
<1> QED BY <1>1, <1>2

LEMMA CreateStep ==
  ASSUME PlayersOK, Scalars, engine_create_player
  PROVE  \E p \in Players :
           /\ p \notin Used /\ IsPlayers(player') /\ PlayerOK(player'[p])
           /\ player'[p].used /\ player'[p].gen = generation + 1
           /\ player'[p].queue.done = 0 /\ player'[p].queue.told = 0
           /\ \A o \in Players : o # p => player'[o] = player[o]
<1> DEFINE p == Min(Players \ Used)
<1>1. PICK c \in Caps : player' = [player EXCEPT ![p] = Created(generation + 1, c)]
  BY Zenon DEF engine_create_player, Created
<1>2. p \in Players \ Used
  <2> DEFINE S == Players \ Used
  <2>1. S \in SUBSET Nat /\ S # {}
    BY MovieAssumption DEF Players, engine_create_player, Used
  <2>2. \E x \in S : \A y \in S : x <= y
    <3> HIDE DEF S
    <3> QED BY <2>1, LeastExists
  <2> HIDE DEF S
  <2>3. Min(S) \in S
    BY <2>2 DEF Min
  <2> QED BY <2>3 DEF S
<1>3. c \in Nat \ {0} /\ generation + 1 \in Nat
  BY MovieAssumption DEF Scalars
<1> HIDE DEF p
<1> DEFINE g == generation + 1
           s == Created(g, c)
<1>4. player' = [player EXCEPT ![p] = s]
  BY <1>1
<1>5. PlayerOK(s) /\ s.used /\ s.gen = g /\ s.queue.done = 0 /\ s.queue.told = 0
  <2> HIDE DEF g
  <2>1. g \in Nat
    BY <1>3 DEF g
  <2> QED BY <1>3, <2>1, CreatedOK
<1> HIDE DEF s
<1>6. /\ player'[p] = s /\ IsPlayers(player')
      /\ \A o \in Players : o # p => player'[o] = player[o]
  BY <1>2, <1>4 DEF PlayersOK, IsPlayers
<1> QED BY <1>2, <1>5, <1>6

LEMMA DestroyStep ==
  ASSUME PlayersOK, Scalars, DestroyBody
  PROVE  /\ IsPlayers(player') /\ player'[doomed] = Free
         /\ \A o \in Players : o # doomed => player'[o] = player[o]
BY DEF PlayersOK, IsPlayers, DestroyBody, Scalars

-----------------------------------------------------------------------------
(* Every step keeps the invariant.                                         *)

LEMMA UsedFinite ==
  IsFiniteSet(Used) /\ Used \subseteq Players
<1>1. IsFiniteSet(Players)
  BY MovieAssumption, FS_Interval DEF Players
<1> QED BY <1>1, FS_Subset DEF Used

LEMMA InitInvariant ==
  ASSUME Init
  PROVE  Invariant
<1>1. player = [p \in Players |-> Free] /\ \A p \in Players : player[p] = Free
  BY DEF Init
<1>2. Used = {}
  BY <1>1, FreeOK DEF Used
<1>3. PlayersOK
  BY <1>1, <1>2, FreeOK DEF PlayersOK, IsPlayers
<1>4. Counted
  BY <1>2, FS_EmptySet DEF Counted, Init
<1>5. Scalars
  <2>1. 1 \in Players
    BY MovieAssumption DEF Players
  <2>2. job = [player |-> 1, gen |-> 0]
    BY DEF Init, NoJob
  <2>3. job = [player |-> job.player, gen |-> job.gen] /\ job.player = 1 /\ job.gen = 0
    BY ONLY <2>2
  <2> QED BY <2>1, <2>3, MovieAssumption DEF Init, Scalars, None
<1> QED BY <1>2, <1>3, <1>4, <1>5 DEF Init, Invariant, Locks, Owed, Pumped, None

\* A step that leaves every player what it was, but for its sound.
LEMMA KeptStep ==
  ASSUME PlayersOK, Counted, KeepsPlayers, generation' = generation, active' = active
  PROVE  /\ PlayersOK' /\ Counted' /\ Used' = Used
         /\ \A p \in Used : player'[p].gen = player[p].gen
         /\ (\E p \in Used : player[p].queue.capacity > 2) =>
              \E p \in Used' : player'[p].queue.capacity > 2
<1>1. Used' = Used /\ Used \subseteq Players
  BY KeepsUsed, UsedFinite
<1>2. \A p \in Players : /\ PlayerOK(player'[p]) /\ player'[p].gen = player[p].gen
                         /\ player'[p].queue.capacity = player[p].queue.capacity
  BY DEF KeepsPlayers, SameOne
<1>3. PlayersOK'
  BY <1>1, <1>2 DEF PlayersOK, KeepsPlayers, IsPlayers
<1> QED BY <1>1, <1>2, <1>3 DEF Counted

\* The handle in hand is as good as before if the movie is, and a long queue is left.
LEMMA PumpedStep ==
  ASSUME Pumped, movie' = movie, phase' = phase, sndBink' = sndBink,
         (\E p \in Used : player[p].queue.capacity > 2) =>
           \E p \in Used' : player'[p].queue.capacity > 2
  PROVE  Pumped'
BY DEF Pumped

\* What is owed does not change in a step that neither mixes nor reports.
LEMMA OwedStep ==
  ASSUME Owed, Scalars, KeepsPlayers, SameDebts, job' = job,
         apc' \in {"lock", "check"} <=> apc \in {"lock", "check"},
         apc' = "call" => apc = "call"
  PROVE  Owed'
<1>1. Used' = Used /\ Used \subseteq Players
  BY KeepsUsed, UsedFinite
<1>2. \A p \in Players : /\ player'[p].gen = player[p].gen
                         /\ (player'[p].used <=> player[p].used)
                         /\ player'[p].queue.done = player[p].queue.done
                         /\ player'[p].queue.told = player[p].queue.told
  BY DEF KeepsPlayers, SameOne, SameDebts
<1>3. ASSUME NEW p \in Used PROVE Due(p)' = Due(p)
  BY <1>1, <1>2 DEF Due
<1>4. ASSUME NEW p \in Used' PROVE Queue(p)'.done - Queue(p)'.told = Due(p)'
  BY <1>1, <1>2, <1>3, <1>4 DEF Owed, Queue
<1>5. apc' = "call" => player'[job'.player].used /\ player'[job'.player].gen = job'.gen
  BY <1>2 DEF Owed, Scalars
<1> QED BY <1>4, <1>5 DEF Owed, Queue

\* Nor in one that takes up the mix or goes on with it.
LEMMA OwedNothing ==
  ASSUME Owed, KeepsPlayers, SameDebts,
         apc \notin {"lock", "check"}, apc' \notin {"lock", "check", "call"}
  PROVE  Owed'
<1>1. Used' = Used /\ Used \subseteq Players
  BY KeepsUsed, UsedFinite
<1>2. \A p \in Players : /\ player'[p].queue.done = player[p].queue.done
                         /\ player'[p].queue.told = player[p].queue.told
  BY DEF SameDebts
<1>3. \A p \in Used : Queue(p).done - Queue(p).told = 0
  BY DEF Owed, Due
<1>4. \A p : Due(p)' = 0
  BY DEF Due
<1> QED BY <1>1, <1>2, <1>3, <1>4 DEF Owed, Queue

LEMMA OwedChunk ==
  ASSUME Invariant, MixChunk
  PROVE  Owed'
<1>1. /\ KeepsPlayers /\ i \in Used
      /\ \A o \in Players : o # i => player'[o] = player[o]
      /\ player'[i].queue.told = player[i].queue.told
      /\ \/ /\ player'[i].queue.done = player[i].queue.done
            /\ apc' = apc /\ job' = job
         \/ /\ player'[i].queue.done = player[i].queue.done + 1
            /\ apc' = "lock" /\ job' = [player |-> i, gen |-> player[i].gen]
  BY ChunkStep DEF Invariant
<1>2. apc = "mix"
  BY DEF MixChunk
<1>3. Used' = Used /\ Used \subseteq Players
  BY <1>1, KeepsUsed, UsedFinite
<1>4. \A p \in Used : /\ player[p].queue.done - player[p].queue.told = 0
                      /\ player[p].queue.done \in Nat /\ player[p].queue.told \in Nat
  <2>1. \A p \in Used : PlayerOK(player[p])
    BY <1>3 DEF Invariant, PlayersOK
  <2>2. \A p \in Used : player[p].queue.done \in Nat /\ player[p].queue.told \in Nat
    BY <2>1, ShapeFacts DEF PlayerOK
  <2> QED BY <1>2, <2>2 DEF Invariant, Owed, Due, Queue
<1>5. CASE apc' = apc /\ job' = job /\ player'[i].queue.done = player[i].queue.done
  <2>1. SameDebts
    BY <1>1, <1>5 DEF SameDebts
  <2> QED BY <1>1, <1>2, <1>5, <2>1, OwedNothing DEF Invariant
<1>6. CASE /\ player'[i].queue.done = player[i].queue.done + 1
           /\ apc' = "lock" /\ job' = [player |-> i, gen |-> player[i].gen]
  <2>1. player'[i].gen = player[i].gen
    BY <1>1, <1>3 DEF KeepsPlayers, SameOne
  <2>2. ASSUME NEW p \in Used
        PROVE  player'[p].queue.done - player'[p].queue.told = Due(p)'
    <3>1. CASE p = i
      <4>1. Due(p)' = 1
        BY <1>6, <2>1, <3>1 DEF Due
      <4> QED BY <1>1, <1>4, <1>6, <3>1, <4>1
    <3>2. CASE p # i
      <4>1. [player |-> i, gen |-> player[i].gen] # [player |-> p, gen |-> player'[p].gen]
        BY <3>2
      <4>2. Due(p)' = 0
        BY <1>6, <4>1 DEF Due
      <4>3. player'[p] = player[p]
        BY <1>1, <1>3, <3>2
      <4> QED BY <1>4, <4>2, <4>3
    <3> QED BY <3>1, <3>2
  <2> QED BY <1>3, <1>6, <2>2 DEF Owed, Queue
<1> QED BY <1>1, <1>5, <1>6

LEMMA OwedCheck ==
  ASSUME Invariant, CallbackCheck
  PROVE  Owed'
<1>1. /\ KeepsPlayers
      /\ \A o \in Players : (o # job.player \/ ~Valid) => player'[o] = player[o]
      /\ Valid => /\ player'[job.player].queue.told = player[job.player].queue.told + 1
                  /\ player'[job.player].queue.done = player[job.player].queue.done
  BY CheckStep DEF Invariant
<1>2. /\ apc = "check" /\ job' = job
      /\ apc' = IF Valid /\ player[job.player].callback THEN "call" ELSE "unlock"
  BY DEF CallbackCheck
<1>3. Used' = Used /\ Used \subseteq Players
  BY <1>1, KeepsUsed, UsedFinite
<1>4. job = [player |-> job.player, gen |-> job.gen] /\ job.player \in Players
  BY DEF Invariant, Scalars
<1>5. ASSUME NEW p \in Used
      PROVE  player'[p].queue.done - player'[p].queue.told = 0
  <2>1. player[p].queue.done \in Nat /\ player[p].queue.told \in Nat
    <3>1. PlayerOK(player[p])
      BY <1>3 DEF Invariant, PlayersOK
    <3> QED BY <3>1, ShapeFacts DEF PlayerOK
  <2>2. player[p].queue.done - player[p].queue.told = Due(p)
    BY DEF Invariant, Owed, Queue
  <2>3. CASE Valid /\ p = job.player
    <3>1. Due(p) = 1
      BY <1>2, <1>4, <2>3 DEF Due, Valid
    <3> QED BY <1>1, <2>1, <2>2, <2>3, <3>1
  <2>4. CASE ~(Valid /\ p = job.player)
    <3>1. job # [player |-> p, gen |-> player[p].gen]
      <4> SUFFICES ASSUME job = [player |-> p, gen |-> player[p].gen] PROVE FALSE
        OBVIOUS
      <4>1. job.player = p /\ job.gen = player[p].gen
        OBVIOUS
      <4> QED BY <2>4, <4>1 DEF Valid, Used
    <3>2. Due(p) = 0
      BY <3>1 DEF Due
    <3>3. player'[p] = player[p]
      BY <1>1, <1>3, <2>4
    <3> QED BY <2>1, <2>2, <3>2, <3>3
  <2> QED BY <2>3, <2>4
<1>6. \A p : Due(p)' = 0
  BY <1>2 DEF Due
<1>7. apc' = "call" => player'[job.player].used /\ player'[job.player].gen = job.gen
  BY <1>1, <1>2, <1>4 DEF KeepsPlayers, SameOne, Valid
<1> QED BY <1>2, <1>3, <1>5, <1>6, <1>7 DEF Owed, Queue

\* A new player owes nothing, and no job is for it: its generation is a new one.
LEMMA CreateKeeps ==
  ASSUME Invariant, engine_create_player
  PROVE  Invariant'
<1>1. PICK p \in Players :
        /\ p \notin Used /\ IsPlayers(player') /\ PlayerOK(player'[p])
        /\ player'[p].used /\ player'[p].gen = generation + 1
        /\ player'[p].queue.done = 0 /\ player'[p].queue.told = 0
        /\ \A o \in Players : o # p => player'[o] = player[o]
  BY CreateStep DEF Invariant
<1>2. /\ generation' = generation + 1 /\ active' = active + 1 /\ generation < MaxGen
      /\ mpc = "idle" /\ phase = "open"
      /\ UNCHANGED <<queued, cbLock, apc, i, offset, job, mpc, doomed, movie, phase, sndBink,
                     lastGate>>
  BY DEF engine_create_player, audio, destroy, pump
<1>3. Used' = Used \cup {p}
  BY <1>1 DEF Used
<1>4. Scalars'
  <2>1. generation' \in 0 .. MaxGen
    BY <1>2, MovieAssumption DEF Invariant, Scalars
  <2>2. job'.gen \in 0 .. generation'
    BY <1>2, MovieAssumption DEF Invariant, Scalars
  <2> QED BY <1>2, <2>1, <2>2 DEF Invariant, Scalars
<1>5. PlayersOK'
  <2>1. ASSUME NEW o \in Players PROVE PlayerOK(player'[o])
    BY <1>1 DEF Invariant, PlayersOK
  <2>2. ASSUME NEW o \in Used' PROVE player'[o].gen \in 1 .. generation'
    <3>1. CASE o = p
      BY <1>1, <1>2, <3>1 DEF Invariant, Scalars
    <3>2. CASE o # p
      <4>1. o \in Used /\ player'[o] = player[o]
        BY <1>1, <1>3, <3>2, UsedFinite
      <4> QED BY <1>2, <4>1 DEF Invariant, PlayersOK, Scalars
    <3> QED BY <3>1, <3>2
  <2> QED BY <1>1, <2>1, <2>2 DEF PlayersOK, IsPlayers
<1>6. Counted'
  BY <1>1, <1>2, <1>3, UsedFinite, FS_AddElement DEF Invariant, Counted
<1>7. Locks'
  BY <1>2, <1>3 DEF Invariant, Locks
<1>8. Owed'
  <2>1. ASSUME NEW o \in Used'
        PROVE  player'[o].queue.done - player'[o].queue.told = Due(o)'
    <3>1. CASE o = p
      <4>1. job # [player |-> p, gen |-> player'[p].gen]
        <5>1. job.gen # generation + 1
          BY DEF Invariant, Scalars
        <5> QED BY <1>1, <5>1
      <4>2. Due(p)' = 0
        BY <1>2, <4>1 DEF Due
      <4> QED BY <1>1, <3>1, <4>2
    <3>2. CASE o # p
      <4>1. o \in Used /\ player'[o] = player[o]
        BY <1>1, <1>3, <3>2, UsedFinite
      <4>2. Due(o)' = Due(o)
        BY <1>2, <4>1 DEF Due
      <4> QED BY <4>1, <4>2 DEF Invariant, Owed, Queue
    <3> QED BY <3>1, <3>2
  <2>2. apc = "call" => player'[job.player].used /\ player'[job.player].gen = job.gen
    <3> SUFFICES ASSUME apc = "call"
                 PROVE  player'[job.player].used /\ player'[job.player].gen = job.gen
      OBVIOUS
    <3>1. /\ job.player \in Players /\ player[job.player].used
          /\ player[job.player].gen = job.gen
      BY DEF Invariant, Owed, Scalars
    <3>2. job.player # p
      BY <1>1, <3>1 DEF Used
    <3> QED BY <1>1, <3>1, <3>2
  <2> QED BY <1>2, <2>1, <2>2 DEF Owed, Queue
<1>9. Pumped'
  <2>1. ASSUME NEW o \in Used, player[o].queue.capacity > 2
        PROVE  o \in Used' /\ player'[o].queue.capacity > 2
    BY <1>1, <1>3, <2>1, UsedFinite
  <2> QED BY <1>2, <2>1 DEF Invariant, Pumped
<1> QED BY <1>4, <1>5, <1>6, <1>7, <1>8, <1>9 DEF Invariant

\* The player goes while no callback is under way, and with it what would be owed to it.
LEMMA DestroyKeeps ==
  ASSUME Invariant, DestroyBody
  PROVE  Invariant'
<1>1. /\ IsPlayers(player') /\ player'[doomed] = Free
      /\ \A o \in Players : o # doomed => player'[o] = player[o]
  BY DestroyStep DEF Invariant
<1>2. /\ mpc = "body" /\ mpc' = "unlock" /\ active' = active - 1
      /\ sndBink' = PumpStopped(player[doomed].queue)
      /\ UNCHANGED <<generation, queued, cbLock, apc, i, offset, job, doomed, movie, phase,
                     lastGate>>
  BY DEF DestroyBody, audio
<1>3. doomed \in Used /\ cbLock = "movie" /\ apc \notin {"check", "call", "unlock"}
  BY <1>2 DEF Invariant, Locks
<1>4. Used' = Used \ {doomed}
  BY <1>1, FreeOK DEF Used
<1>5. Scalars'
  <2>1. sndBink' \in {None, Stopped} \cup 1 .. movie
    BY <1>2 DEF Invariant, Scalars, PumpStopped
  <2> QED BY <1>2, <2>1 DEF Invariant, Scalars
<1>6. PlayersOK'
  <2>1. ASSUME NEW o \in Players PROVE PlayerOK(player'[o])
    BY <1>1, FreeOK DEF Invariant, PlayersOK
  <2>2. ASSUME NEW o \in Used' PROVE player'[o].gen \in 1 .. generation'
    <3>1. o \in Used /\ player'[o] = player[o]
      BY <1>1, <1>4, UsedFinite
    <3> QED BY <1>2, <3>1 DEF Invariant, PlayersOK
  <2> QED BY <1>1, <2>1, <2>2 DEF PlayersOK, IsPlayers
<1>7. Counted'
  <2>1. Cardinality(Used \ {doomed}) = Cardinality(Used) - 1
    BY <1>3, UsedFinite, FS_RemoveElement
  <2> QED BY <1>2, <1>4, <2>1 DEF Invariant, Counted
<1>8. Locks'
  BY <1>2, <1>3 DEF Invariant, Locks
<1>9. Owed'
  <2>1. ASSUME NEW o \in Used'
        PROVE  player'[o].queue.done - player'[o].queue.told = Due(o)'
    <3>1. o \in Used /\ player'[o] = player[o]
      BY <1>1, <1>4, UsedFinite
    <3>2. Due(o)' = Due(o)
      BY <1>2, <3>1 DEF Due
    <3> QED BY <3>1, <3>2 DEF Invariant, Owed, Queue
  <2> QED BY <1>2, <1>3, <2>1 DEF Owed, Queue
<1>10. Pumped'
  <2>1. CASE player[doomed].queue.capacity > 2
    BY <1>2, <2>1 DEF Invariant, Pumped, PumpStopped
  <2>2. CASE ~(player[doomed].queue.capacity > 2)
    <3>1. sndBink' = sndBink
      BY <1>2, <2>2 DEF PumpStopped
    <3>2. ASSUME NEW o \in Used, player[o].queue.capacity > 2
          PROVE  o \in Used' /\ player'[o].queue.capacity > 2
      <4>1. o # doomed
        BY <2>2, <3>2
      <4> QED BY <1>1, <1>4, <3>2, <4>1, UsedFinite
    <3> QED BY <1>2, <3>1, <3>2 DEF Invariant, Pumped
  <2> QED BY <2>1, <2>2
<1> QED BY <1>5, <1>6, <1>7, <1>8, <1>9, <1>10 DEF Invariant

\* A call of Bink that changes the sound of one player and nothing else.
LEMMA CallKeeps ==
  ASSUME Invariant, KeepsPlayers, SameDebts, queued' \in 0 .. MaxBufs,
         UNCHANGED <<generation, active, cbLock, apc, i, offset, job, mpc, doomed, movie, phase,
                     sndBink, lastGate>>
  PROVE  Invariant'
<1>1. /\ PlayersOK' /\ Counted' /\ Used' = Used
      /\ (\E p \in Used : player[p].queue.capacity > 2) =>
            \E p \in Used' : player'[p].queue.capacity > 2
  BY KeptStep DEF Invariant
<1>2. Scalars'
  BY DEF Invariant, Scalars
<1>3. Locks'
  BY <1>1 DEF Invariant, Locks
<1>4. Owed'
  BY OwedStep DEF Invariant
<1>5. Pumped'
  BY <1>1, PumpedStep DEF Invariant
<1> QED BY <1>1, <1>2, <1>3, <1>4, <1>5 DEF Invariant

\* A step of the mixer or of the lock, which leaves the players and the movie alone.
LEMMA LockKeeps ==
  ASSUME Invariant, UNCHANGED <<sound, pump>>, Scalars', Locks',
         \/ job' = job /\ (apc' \in {"lock", "check"} <=> apc \in {"lock", "check"})
              /\ (apc' = "call" => apc = "call")
         \/ apc \notin {"lock", "check"} /\ apc' \notin {"lock", "check", "call"}
  PROVE  Invariant'
<1>1. /\ player' = player /\ generation' = generation /\ active' = active
      /\ movie' = movie /\ phase' = phase /\ sndBink' = sndBink
  BY DEF sound, pump
<1>2. KeepsPlayers /\ SameDebts
  BY <1>1, StillKeeps DEF Invariant
<1>3. /\ PlayersOK' /\ Counted'
      /\ (\E p \in Used : player[p].queue.capacity > 2) =>
            \E p \in Used' : player'[p].queue.capacity > 2
  BY <1>1, <1>2, KeptStep DEF Invariant
<1>4. Owed'
  BY <1>2, OwedStep, OwedNothing DEF Invariant
<1>5. Pumped'
  BY <1>1, <1>3, PumpedStep DEF Invariant
<1> QED BY <1>3, <1>4, <1>5 DEF Invariant

LEMMA MovieKeeps ==
  ASSUME Invariant, UNCHANGED <<sound, cbLock, audio, destroy>>, Scalars', Pumped'
  PROVE  Invariant'
<1>1. /\ player' = player /\ generation' = generation /\ active' = active
      /\ UNCHANGED <<cbLock, apc, job, mpc, doomed>>
  BY DEF sound, audio, destroy
<1>2. KeepsPlayers /\ SameDebts
  BY <1>1, StillKeeps DEF Invariant
<1>3. PlayersOK' /\ Counted' /\ Used' = Used
  BY <1>1, <1>2, KeptStep DEF Invariant
<1>4. Owed'
  BY <1>1, <1>2, OwedStep DEF Invariant
<1>5. Locks'
  BY <1>1, <1>3 DEF Invariant, Locks
<1> QED BY <1>3, <1>4, <1>5 DEF Invariant

LEMMA CallsKeep ==
  ASSUME Invariant, Bink
  PROVE  Invariant'
<1>0. queued \in 0 .. MaxBufs /\ queued \in Nat /\ PlayersOK /\ MaxBufs \in Nat
  BY MovieAssumption DEF Invariant, Scalars
<1>1. CASE engine_create_player
  BY <1>1, CreateKeeps
<1>2. CASE queue_enqueue
  <2>1. KeepsPlayers /\ SameDebts
    BY <1>0, <1>2, EnqueueKeeps
  <2>2. queued' \in 0 .. MaxBufs
    BY <1>0, <1>2 DEF queue_enqueue
  <2>3. UNCHANGED <<generation, active, cbLock, apc, i, offset, job, mpc, doomed, movie, phase,
                    sndBink, lastGate>>
    BY <1>2 DEF queue_enqueue, audio, destroy, pump
  <2> QED BY <2>1, <2>2, <2>3, CallKeeps
<1>3. CASE queue_clear
  <2>1. KeepsPlayers /\ SameDebts
    BY <1>0, <1>3, ClearKeeps
  <2>2. UNCHANGED <<generation, queued, active, cbLock, apc, i, offset, job, mpc, doomed, movie,
                    phase, sndBink, lastGate>>
    BY <1>3 DEF queue_clear, audio, destroy, pump
  <2> QED BY <1>0, <2>1, <2>2, CallKeeps
<1>4. CASE queue_register_callback
  <2>1. KeepsPlayers /\ SameDebts
    BY <1>0, <1>4, RegisterKeeps
  <2>2. UNCHANGED <<generation, queued, active, cbLock, apc, i, offset, job, mpc, doomed, movie,
                    phase, sndBink, lastGate>>
    BY <1>4 DEF queue_register_callback, audio, destroy, pump
  <2> QED BY <1>0, <2>1, <2>2, CallKeeps
<1>5. CASE play_set_state
  <2>1. KeepsPlayers /\ SameDebts
    BY <1>0, <1>5, StateKeeps
  <2>2. UNCHANGED <<generation, queued, active, cbLock, apc, i, offset, job, mpc, doomed, movie,
                    phase, sndBink, lastGate>>
    BY <1>5 DEF play_set_state, audio, destroy, pump
  <2> QED BY <1>0, <2>1, <2>2, CallKeeps
<1>6. CASE Destroy
  <2>1. UNCHANGED <<sound, cbLock, audio, pump>> /\ mpc = "idle" /\ mpc' = "lock" /\ doomed' \in Used
    BY <1>6 DEF Destroy
  <2>2. Used' = Used /\ Used \subseteq Players
    BY <2>1, UsedFinite DEF Used, sound
  <2>3. Scalars'
    BY <2>1, <2>2 DEF Invariant, Scalars, sound, audio, pump
  <2>4. Locks'
    BY <2>1, <2>2 DEF Invariant, Locks, audio
  <2>5. job' = job /\ apc' = apc
    BY <2>1 DEF audio
  <2> QED BY <2>1, <2>3, <2>4, <2>5, LockKeeps
<1> QED BY <1>1, <1>2, <1>3, <1>4, <1>5, <1>6 DEF Bink

LEMMA DestroyingKeeps ==
  ASSUME Invariant, Destroying
  PROVE  Invariant'
<1>1. CASE DestroyLock
  <2>1. /\ UNCHANGED <<sound, pump>> /\ UNCHANGED <<apc, i, offset, job, doomed>>
        /\ mpc = "lock" /\ cbLock = "free" /\ cbLock' = "movie" /\ mpc' = "body"
    BY <1>1 DEF DestroyLock, audio
  <2>2. Scalars' /\ Used' = Used
    BY <2>1 DEF Invariant, Scalars, sound, pump, Used
  <2>3. Locks'
    BY <2>1, <2>2 DEF Invariant, Locks
  <2> QED BY <2>1, <2>2, <2>3, LockKeeps
<1>2. CASE DestroyBody
  BY <1>2, DestroyKeeps
<1>3. CASE DestroyUnlock
  <2>1. /\ UNCHANGED <<sound, pump>> /\ UNCHANGED <<apc, i, offset, job>>
        /\ mpc = "unlock" /\ cbLock' = "free" /\ mpc' = "idle" /\ doomed' = 1
    BY <1>3 DEF DestroyUnlock, audio
  <2>2. 1 \in Players
    BY MovieAssumption DEF Players
  <2>3. Scalars'
    BY <2>1, <2>2 DEF Invariant, Scalars, sound, pump
  <2>4. Locks'
    BY <2>1 DEF Invariant, Locks
  <2> QED BY <2>1, <2>3, <2>4, LockKeeps
<1> QED BY <1>1, <1>2, <1>3 DEF Destroying

LEMMA AudioKeeps ==
  ASSUME Invariant, Audio
  PROVE  Invariant'
<1>1. CASE MixBegin
  <2>1. /\ UNCHANGED <<sound, pump>> /\ UNCHANGED <<cbLock, job, mpc, doomed>>
        /\ apc = "idle" /\ apc' = "mix" /\ i' = 1 /\ offset' = 0
    BY <1>1 DEF MixBegin, destroy
  <2>2. 1 \in Players /\ 0 \in 0 .. Frames
    BY MovieAssumption DEF Players
  <2>3. Scalars'
    BY <2>1, <2>2 DEF Invariant, Scalars, sound, pump
  <2>4. Locks'
    BY <2>1 DEF Invariant, Locks, Used, sound
  <2> QED BY <2>1, <2>3, <2>4, LockKeeps
<1>2. CASE MixChunk
  <2>1. /\ UNCHANGED <<generation, queued, active, cbLock, i, mpc, doomed, movie, phase, sndBink,
                       lastGate>>
        /\ apc = "mix"
    BY <1>2 DEF MixChunk, destroy, pump
  <2>2. /\ KeepsPlayers /\ i \in Used /\ offset' \in 0 .. Frames
        /\ \/ apc' = apc /\ job' = job
           \/ apc' = "lock" /\ job' = [player |-> i, gen |-> player[i].gen]
    BY <1>2, ChunkStep DEF Invariant
  <2>3. /\ PlayersOK' /\ Counted' /\ Used' = Used
        /\ (\E p \in Used : player[p].queue.capacity > 2) =>
              \E p \in Used' : player'[p].queue.capacity > 2
    BY <2>1, <2>2, KeptStep DEF Invariant
  <2>4. /\ job' = [player |-> job'.player, gen |-> job'.gen]
        /\ job'.player \in Players /\ job'.gen \in 0 .. generation
    <3>1. i \in Players /\ player[i].gen \in 0 .. generation
      BY <2>2, UsedFinite DEF Invariant, PlayersOK, Scalars
    <3> QED BY <2>2, <3>1 DEF Invariant, Scalars
  <2>5. Scalars'
    BY <2>1, <2>2, <2>4 DEF Invariant, Scalars
  <2>6. Locks'
    BY <2>1, <2>2, <2>3 DEF Invariant, Locks
  <2>7. Owed'
    BY <1>2, OwedChunk
  <2>8. Pumped'
    BY <2>1, <2>3, PumpedStep DEF Invariant
  <2> QED BY <2>3, <2>5, <2>6, <2>7, <2>8 DEF Invariant
<1>3. CASE MixNext
  <2>1. /\ UNCHANGED <<sound, pump>> /\ UNCHANGED <<cbLock, mpc, doomed>>
        /\ apc = "mix" /\ offset' = 0 /\ job' = NoJob
        /\ IF i < NPlayers THEN i' = i + 1 /\ apc' = apc ELSE i' = 1 /\ apc' = "idle"
    BY <1>3 DEF MixNext, destroy
  <2>2. i' \in Players /\ 0 \in 0 .. Frames /\ apc' \in {"mix", "idle"}
    BY <2>1, MovieAssumption DEF Players, Invariant, Scalars
  <2>3. job' = [player |-> 1, gen |-> 0] /\ 1 \in Players /\ 0 \in 0 .. generation'
    BY <2>1, MovieAssumption DEF NoJob, Players, Invariant, Scalars, sound
  <2>4. job' = [player |-> job'.player, gen |-> job'.gen] /\ job'.player = 1 /\ job'.gen = 0
    BY ONLY <2>3
  <2>5. Scalars'
    BY <2>1, <2>2, <2>3, <2>4 DEF Invariant, Scalars, sound, pump
  <2>6. Locks'
    BY <2>1, <2>2 DEF Invariant, Locks, Used, sound
  <2> QED BY <2>1, <2>2, <2>5, <2>6, LockKeeps
<1>4. CASE CallbackLock
  <2>1. /\ UNCHANGED <<sound, pump>> /\ UNCHANGED <<i, offset, job, mpc, doomed>>
        /\ apc = "lock" /\ cbLock = "free" /\ cbLock' = "audio" /\ apc' = "check"
    BY <1>4 DEF CallbackLock, destroy
  <2>2. Scalars'
    BY <2>1 DEF Invariant, Scalars, sound, pump
  <2>3. Locks'
    BY <2>1 DEF Invariant, Locks, Used, sound
  <2> QED BY <2>1, <2>2, <2>3, LockKeeps
<1>5. CASE CallbackCheck
  <2>1. /\ UNCHANGED <<generation, queued, active, cbLock, i, offset, job, mpc, doomed, movie,
                       phase, sndBink, lastGate>>
        /\ apc = "check" /\ apc' \in {"call", "unlock"}
    BY <1>5 DEF CallbackCheck, destroy, pump
  <2>2. KeepsPlayers
    BY <1>5, CheckStep DEF Invariant
  <2>3. /\ PlayersOK' /\ Counted' /\ Used' = Used
        /\ (\E p \in Used : player[p].queue.capacity > 2) =>
              \E p \in Used' : player'[p].queue.capacity > 2
    BY <2>1, <2>2, KeptStep DEF Invariant
  <2>4. Scalars'
    BY <2>1 DEF Invariant, Scalars
  <2>5. Locks'
    BY <2>1, <2>3 DEF Invariant, Locks
  <2>6. Owed'
    BY <1>5, OwedCheck
  <2>7. Pumped'
    BY <2>1, <2>3, PumpedStep DEF Invariant
  <2> QED BY <2>3, <2>4, <2>5, <2>6, <2>7 DEF Invariant
<1>6. CASE CallbackUnlock
  <2>1. /\ UNCHANGED <<sound, pump>> /\ UNCHANGED <<i, offset, job, mpc, doomed>>
        /\ apc \in {"call", "unlock"} /\ cbLock' = "free" /\ apc' = "mix"
    BY <1>6 DEF CallbackUnlock, destroy
  <2>2. Scalars'
    BY <2>1 DEF Invariant, Scalars, sound, pump
  <2>3. Locks'
    BY <2>1 DEF Invariant, Locks, Used, sound
  <2> QED BY <2>1, <2>2, <2>3, LockKeeps
<1> QED BY <1>1, <1>2, <1>3, <1>4, <1>5, <1>6 DEF Audio

LEMMA MovieStep ==
  ASSUME Invariant, Movie
  PROVE  Invariant'
<1>0. movie \in 0 .. MaxMovies /\ MaxMovies \in Nat /\ MaxGate \in Nat
  BY MovieAssumption DEF Invariant, Scalars
<1>1. CASE PlayMovie
  <2>1. /\ UNCHANGED <<sound, cbLock, audio, destroy>> /\ movie < MaxMovies
        /\ movie' = movie + 1 /\ phase' = "open" /\ sndBink' = None /\ lastGate' = 0
    BY <1>1 DEF PlayMovie
  <2>2. Scalars'
    BY <1>0, <2>1 DEF Invariant, Scalars, sound, audio, destroy
  <2>3. Pumped'
    BY <1>0, <2>1 DEF Pumped
  <2> QED BY <2>1, <2>2, <2>3, MovieKeeps
<1>2. CASE BinkSndPump_trap
  <2>1. /\ UNCHANGED <<sound, cbLock, audio, destroy, movie, phase, lastGate>>
        /\ phase = "open" /\ sndBink' = Captured
        /\ \E p \in Used : player[p].queue.capacity > 2
    BY <1>2 DEF BinkSndPump_trap
  <2>2. Scalars'
    BY <1>0, <2>1 DEF Invariant, Scalars, Pumped, Captured, sound, audio, destroy
  <2>3. Pumped'
    BY <2>1 DEF Invariant, Pumped, Captured, Used, sound
  <2> QED BY <2>1, <2>2, <2>3, MovieKeeps
<1>3. CASE bink_snd_pump_on_swap
  <2>1. /\ UNCHANGED <<sound, cbLock, audio, destroy, movie, phase, sndBink>>
        /\ lastGate' \in 0 .. MaxGate
    BY <1>0, <1>3 DEF bink_snd_pump_on_swap
  <2>2. Scalars'
    BY <2>1 DEF Invariant, Scalars, sound, audio, destroy
  <2>3. Pumped'
    BY <2>1 DEF Invariant, Pumped, Used, sound
  <2> QED BY <2>1, <2>2, <2>3, MovieKeeps
<1>4. CASE CloseMovie
  <2>1. /\ UNCHANGED <<sound, cbLock, audio, destroy, movie, sndBink, lastGate>>
        /\ phase = "open" /\ Used = {} /\ phase' = "closed"
    BY <1>4 DEF CloseMovie
  <2>2. Scalars'
    BY <2>1 DEF Invariant, Scalars, sound, audio, destroy
  <2>3. Pumped'
    BY <2>1 DEF Invariant, Pumped
  <2> QED BY <2>1, <2>2, <2>3, MovieKeeps
<1>5. CASE EndMovie
  <2>1. /\ UNCHANGED <<sound, cbLock, audio, destroy, movie, lastGate>>
        /\ sndBink' = Stopped /\ phase' = "none"
    BY <1>5 DEF EndMovie
  <2>2. Scalars'
    BY <2>1 DEF Invariant, Scalars, sound, audio, destroy
  <2>3. Pumped'
    BY <2>1 DEF Pumped
  <2> QED BY <2>1, <2>2, <2>3, MovieKeeps
<1> QED BY <1>1, <1>2, <1>3, <1>4, <1>5 DEF Movie

\* In every state the program can reach, the rings hold what was queued and not used up, at
\* most one report is owed and to the player it is for, and the handle in hand is that of
\* the open movie.
THEOREM MovieInvariant == Spec => []Invariant
<1>1. Init => Invariant
  BY InitInvariant
<1>2. Invariant /\ [Next]_vars => Invariant'
  <2> SUFFICES ASSUME Invariant, [Next]_vars PROVE Invariant'
    OBVIOUS
  <2>1. CASE Next
    BY <2>1, CallsKeep, DestroyingKeeps, AudioKeeps, MovieStep DEF Next
  <2>2. CASE UNCHANGED vars
    <3>1. UNCHANGED <<sound, cbLock, audio, destroy, pump>>
      BY <2>2 DEF vars
    <3>2. /\ Scalars' /\ Pumped'
      BY <3>1 DEF Invariant, Scalars, Pumped, Used, sound, audio, destroy, pump
    <3> QED BY <3>1, <3>2, MovieKeeps
  <2> QED BY <2>1, <2>2
<1> QED BY <1>1, <1>2, PTL DEF Spec

\* Bink is called back exactly once for each buffer it queued and the mixer has used up, and
\* only for a player that is there and is the one the buffer was queued on, whatever it
\* destroys or creates meanwhile.
THEOREM CallbacksAreExact == Spec => []CallbacksExact
<1>1. Invariant => CallbacksExact
  <2> SUFFICES ASSUME Invariant PROVE CallbacksExact
    OBVIOUS
  <2>1. NoCallbackAfterDestroy
    BY DEF NoCallbackAfterDestroy, Invariant, Owed, Locks
  <2>2. ASSUME NEW p \in Used
        PROVE  /\ player[p].gen \in 1 .. generation
               /\ Queue(p).front \in 0 .. Queue(p).capacity - 1 /\ Queue(p).pos \in Nat
               /\ Queue(p).fifo = [n \in 1 .. Queue(p).count |-> At(Queue(p), n)]
               /\ Queue(p).count > 0 => Queue(p).pos < At(Queue(p), 1).len
    <3>1. QueueOK(Queue(p))
      BY UsedFinite DEF Invariant, PlayersOK, PlayerOK, Queue
    <3>2. Queue(p).count > 0 => Queue(p).count # 0
      BY <3>1, ShapeFacts
    <3> QED BY <3>1, <3>2, ShapeFacts DEF Invariant, PlayersOK, QueueOK
  <2>3. TypeOK
    BY <2>2 DEF TypeOK, Invariant, Scalars, Counted
  <2> QED BY <2>1, <2>3 DEF CallbacksExact, CalledBackOnce, Invariant, Owed, Due
<1> QED BY <1>1, MovieInvariant, PTL

\* The movie's thread never pumps the sound of a movie that Bink has closed.
THEOREM OpenMovieIsPumped == Spec => PumpsOpenMovie
<1>1. Invariant /\ [Next]_vars => (lastGate' \notin {0, lastGate} => phase = "open" /\ sndBink = movie)
  <2> SUFFICES ASSUME Invariant, [Next]_vars, lastGate' \notin {0, lastGate}
               PROVE  phase = "open" /\ sndBink = movie
    OBVIOUS
  <2>1. bink_snd_pump_on_swap
    <3>1. CASE Bink
      BY <3>1 DEF Bink, engine_create_player, queue_enqueue, queue_clear,
                  queue_register_callback, play_set_state, Destroy, pump
    <3>2. CASE Destroying
      BY <3>2 DEF Destroying, DestroyLock, DestroyBody, DestroyUnlock, pump
    <3>3. CASE Audio
      BY <3>3 DEF Audio, MixBegin, MixChunk, MixNext, CallbackLock, CallbackCheck,
                  CallbackUnlock, pump
    <3>4. CASE Movie
      BY <3>4 DEF Movie, PlayMovie, BinkSndPump_trap, CloseMovie, EndMovie
    <3>5. CASE UNCHANGED vars
      BY <3>5 DEF vars, pump
    <3> QED BY <3>1, <3>2, <3>3, <3>4, <3>5 DEF Next
  <2> QED BY <2>1 DEF bink_snd_pump_on_swap, Invariant, Pumped
<1> QED BY <1>1, MovieInvariant, PTL DEF Spec, PumpsOpenMovie
=============================================================================
