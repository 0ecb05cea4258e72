------------------------------ MODULE RamRing ------------------------------
(***************************************************************************)
(* The RAM ring of loader/obb_cache.c (loader/lzma_cache.c is the same     *)
(* ring): entries are appended at the head, forgotten when the head runs   *)
(* over them, and copied forward by a hit in the older half.  A byte is    *)
(* the pair of the file and the offset it was read from; what a key names  *)
(* is the range `off', `len' of its file.                                  *)
(***************************************************************************)
EXTENDS Integers

CONSTANTS
  Files,     \* cache_id of the archives
  RingCap,   \* s_cap
  NEntries,  \* MAX_ENTRIES
  Band       \* the lengths in_band accepts

ASSUME RingAssumption ==
  /\ RingCap \in Nat \ {0} /\ NEntries \in Nat \ {0}
  /\ Band \subseteq Nat \ {0}

VARIABLES
  ring,   \* s_ring: what each of its bytes holds
  ent,    \* s_e
  head,   \* s_head
  seq     \* s_seq

ram == <<ring, ent, head, seq>>

Slots == 1 .. NEntries
Offsets == 0 .. RingCap - 1
Key == [file : Files, off : Nat, len : Band]
NoByte == <<>>
Unused == [used |-> FALSE]
Entry == {Unused} \cup [used : {TRUE}, key : Key, at : Offsets, seq : Nat]
Byte == (Files \X Nat) \cup {NoByte}

\* What the file holds in the range.
Content(k) == [i \in 1 .. k.len |-> <<k.file, k.off + i - 1>>]

RingInit ==
  /\ ring = [p \in Offsets |-> NoByte]
  /\ ent = [i \in Slots |-> Unused]
  /\ head = 0
  /\ seq = 0

-----------------------------------------------------------------------------
(* An entry in use is a record of its key, its place `at' and its `seq'.   *)

Used(e) == {i \in Slots : e[i].used}
Hits(k) == {i \in Used(ent) : ent[i].key = k}
find(k, i) == i \in Hits(k) /\ \A j \in Hits(k) : i <= j

\* reserve: where n bytes go, and what is left of the entries.
Place(n) == IF head + n > RingCap THEN 0 ELSE head
Forgotten_next(e, lo, n) == {i \in Used(e) : e[i].at <= lo /\ e[i].at + e[i].key.len > lo}
Forgotten(e, lo, n) == {i \in Used(e) : e[i].at < lo + n /\ e[i].at + e[i].key.len > lo}
Reserved(e, lo, n) ==
  [i \in Slots |-> IF i \in Forgotten(e, lo, n) THEN Unused ELSE e[i]]

\* free_slot: the first one unused, else the oldest.
IsFreeSlot(e, i) ==
  IF Used(e) # Slots
  THEN i \notin Used(e) /\ \A j \in Slots \ Used(e) : i <= j
  ELSE \A j \in Slots : e[i].seq <= e[j].seq

\* insert, into what is left of the entries e.
Insert(e, k, src) ==
  LET lo == Place(k.len)
      r == Reserved(e, lo, k.len)
  IN  /\ ring' = [p \in Offsets |-> IF p \in lo .. lo + k.len - 1 THEN src[p - lo + 1] ELSE ring[p]]
      /\ head' = lo + k.len
      /\ seq' = seq + 1
      /\ \E i \in Slots :
           /\ IsFreeSlot(r, i)
           /\ ent' = [r EXCEPT ![i] = [used |-> TRUE, key |-> k, at |-> lo, seq |-> seq + 1]]

\* How far the head has come since the entry was put, and whether that is half.
Age(e) == IF head >= e.at THEN head - e.at ELSE RingCap - e.at + head
Old(e) == seq - e.seq > NEntries \div 2 \/ Age(e) > RingCap \div 2

Held(e) == [i \in 1 .. e.key.len |-> ring[e.at + i - 1]]

\* obb_cache_get when find has come back with entry i: it hands over Held(ent[i]).
Get(i) ==
  IF Old(ent[i])
  THEN Insert([ent EXCEPT ![i] = Unused], ent[i].key, Held(ent[i]))
  ELSE UNCHANGED ram

\* obb_cache_put of bytes just read.
Put(k, src) ==
  IF k.len > RingCap \/ Hits(k) # {}
  THEN UNCHANGED ram
  ELSE Insert(ent, k, src)

-----------------------------------------------------------------------------
RingTypeOK ==
  /\ ring \in [Offsets -> Byte]
  /\ ent \in [Slots -> Entry]
  /\ head \in 0 .. RingCap
  /\ seq \in Nat

\* An entry in use still holds the range of the archive it stands for: the head
\* never leaves one behind it has written over (obb_cache.c:72).
RingIntact ==
  \A i \in Slots : ent[i].used =>
    /\ ent[i].at + ent[i].key.len <= RingCap
    /\ Held(ent[i]) = Content(ent[i].key)
=============================================================================
