--------------------------- MODULE StorageProofs ---------------------------
(***************************************************************************)
(* What Storage promises, for any number of archives, handles, ring        *)
(* entries, threads, files, folders and settings: every handle reads its   *)
(* archive as if it had it alone (ImplementsStdio), since the archives are *)
(* shared exactly and neither the RAM ring nor an index holds anything but *)
(* what it stands for; the tables of what is not there hide no file; what  *)
(* the menus chose, and what the engine's writes left out, is what the     *)
(* card holds.                                                             *)
(***************************************************************************)
EXTENDS Storage, Numbers, FiniteSetTheorems, SequenceTheorems, TLAPS

-----------------------------------------------------------------------------
(* The archives, and the ring of what was read of them.                    *)

\* An entry in use lies in the ring and holds what its key names.
Intact(e, r) ==
  /\ e.at + e.key.len <= RingCap
  /\ [i \in 1 .. e.key.len |-> r[e.at + i - 1]] = Content(e.key)

LEMMA KeyFacts == \A k \in Key : k.file \in Files /\ k.off \in Nat /\ k.len \in Nat \ {0}
BY RingAssumption DEF Key

LEMMA EntryFacts ==
  /\ Unused \in Entry /\ ~Unused.used
  /\ \A e \in Entry : e.used => e.at \in Offsets /\ e.key \in Key /\ e.seq \in Nat
<1>1. Unused \in Entry /\ ~Unused.used
  BY DEF Entry, Unused
<1>2. ASSUME NEW e \in Entry, e.used PROVE e.at \in Offsets /\ e.key \in Key /\ e.seq \in Nat
  <2>1. e # Unused
    BY <1>1, <1>2
  <2>2. e \in [used : {TRUE}, key : Key, at : Offsets, seq : Nat]
    BY <2>1 DEF Entry
  <2> QED BY <2>2
<1> QED BY <1>1, <1>2

LEMMA IntactIsHeld == RingIntact <=> \A i \in Used(ent) : Intact(ent[i], ring)
BY DEF RingIntact, Used, Intact, Held

-----------------------------------------------------------------------------
(* The ring.                                                               *)

\* Inserting a range that is what it should be, into entries that are intact,
\* leaves the ring intact: reserve has forgotten all that the range runs over.
LEMMA InsertKeeps ==
  ASSUME RingTypeOK, NEW e \in [Slots -> Entry], \A i \in Used(e) : Intact(e[i], ring),
         NEW k \in Key, k.len <= RingCap, Insert(e, k, Content(k))
  PROVE  RingTypeOK' /\ RingIntact'
<1> DEFINE lo == Place(k.len)
           r == Reserved(e, lo, k.len)
<1>1. k.len \in Nat \ {0} /\ k.file \in Files /\ k.off \in Nat /\ RingCap \in Nat \ {0}
  BY RingAssumption, KeyFacts
<1>2. head \in 0 .. RingCap /\ ring \in [Offsets -> Byte] /\ seq \in Nat
  BY DEF RingTypeOK
<1>3. lo \in Nat /\ lo + k.len <= RingCap /\ lo \in Offsets
  BY <1>1, <1>2 DEF Place, Offsets
<1>a. Insert(e, k, Content(k))
  OBVIOUS
<1>c. \E i \in Slots : ent' = [r EXCEPT ![i] = [used |-> TRUE, key |-> k, at |-> lo, seq |-> seq + 1]]
  BY <1>a, Zenon DEF Insert
<1>4. ring' = [p \in Offsets |-> IF p \in lo .. lo + k.len - 1 THEN Content(k)[p - lo + 1] ELSE ring[p]]
  BY <1>a, Zenon DEF Insert
<1>e. head' = lo + k.len /\ seq' = seq + 1
  BY <1>a, Zenon DEF Insert
<1>5. PICK place \in Slots :
        ent' = [r EXCEPT ![place] = [used |-> TRUE, key |-> k, at |-> lo, seq |-> seq + 1]]
  BY <1>c
<1>6. r \in [Slots -> Entry]
  BY EntryFacts DEF Reserved
<1> DEFINE added == [used |-> TRUE, key |-> k, at |-> lo, seq |-> seq + 1]
<1>7. added \in Entry
  BY <1>2, <1>3 DEF Entry
<1>b. \A i \in Forgotten(e, lo, k.len) : i \in Slots
  BY DEF Forgotten, Used
<1>8. ent' \in [Slots -> Entry]
  BY <1>5, <1>6, <1>7
<1>9. ring' \in [Offsets -> Byte]
  <2> SUFFICES ASSUME NEW p \in Offsets, p \in lo .. lo + k.len - 1 PROVE Content(k)[p - lo + 1] \in Byte
    BY <1>2, <1>4
  <2>1. p - lo + 1 \in 1 .. k.len
    BY <1>1, <1>3 DEF Offsets
  <2>2. Content(k)[p - lo + 1] = <<k.file, k.off + p - lo>>
    BY <2>1, <1>1, <1>3 DEF Content
  <2>3. k.off + p - lo \in Nat
    BY <1>1, <1>3
  <2> QED BY <1>1, <2>2, <2>3 DEF Byte
<1>10. RingTypeOK'
  BY <1>1, <1>2, <1>3, <1>e, <1>8, <1>9 DEF RingTypeOK, Offsets
<1>11. ASSUME NEW i \in Used(ent)' PROVE Intact(ent[i], ring)'
  <2>1. CASE i = place
    <3>1. ent'[i] = added
      BY <2>1, <1>5, <1>6
    <3>2. ASSUME NEW j \in 1 .. k.len PROVE ring'[lo + j - 1] = Content(k)[j]
      <4>1. lo + j - 1 \in Offsets /\ lo + j - 1 \in lo .. lo + k.len - 1 /\ (lo + j - 1) - lo + 1 = j
        BY <1>1, <1>3 DEF Offsets
      <4> QED BY <4>1, <1>4
    <3>3. Content(k) = [j \in 1 .. k.len |-> Content(k)[j]]
      BY DEF Content
    <3>4. [j \in 1 .. k.len |-> ring'[lo + j - 1]] = Content(k)
      BY <3>2, <3>3
    <3>5. added.at = lo /\ added.key = k
      OBVIOUS
    <3> QED BY <1>3, <3>1, <3>4, <3>5 DEF Intact
  <2>2. CASE i # place
    <3>1. i \in Slots /\ ent'[i] = r[i] /\ r[i].used
      BY <2>2, <1>5, <1>6 DEF Used
    <3>2. i \in Used(e) /\ i \notin Forgotten(e, lo, k.len) /\ r[i] = e[i]
      <4>1. r[i] = IF i \in Forgotten(e, lo, k.len) THEN Unused ELSE e[i]
        BY <3>1 DEF Reserved
      <4> QED BY <3>1, <4>1, EntryFacts DEF Used
    <3>3. e[i] \in Entry /\ e[i].used
      BY <3>2 DEF Used
    <3>4. e[i].at \in Offsets /\ e[i].key \in Key
      BY <3>3, EntryFacts
    <3>5. e[i].at >= lo + k.len \/ e[i].at + e[i].key.len <= lo
      BY <3>2, <3>4, KeyFacts, <1>1, <1>3 DEF Forgotten, Offsets
    <3>6. Intact(e[i], ring)
      BY <3>2
    <3>7. ASSUME NEW j \in 1 .. e[i].key.len
          PROVE  ring'[e[i].at + j - 1] = ring[e[i].at + j - 1]
      <4>1. e[i].at + e[i].key.len <= RingCap
        BY <3>6 DEF Intact
      <4>2. e[i].at \in Nat /\ e[i].key.len \in Nat /\ j \in Nat /\ 1 <= j /\ j <= e[i].key.len
        BY <3>4, KeyFacts DEF Offsets
      <4>3. e[i].at + j - 1 \in Offsets /\ e[i].at + j - 1 \notin lo .. lo + k.len - 1
        BY <4>1, <4>2, <3>5, <1>1, <1>3 DEF Offsets
      <4> QED BY <4>3, <1>4
    <3>8. [j \in 1 .. e[i].key.len |-> ring'[e[i].at + j - 1]]
            = [j \in 1 .. e[i].key.len |-> ring[e[i].at + j - 1]]
      BY <3>7
    <3> QED BY <3>1, <3>2, <3>6, <3>8 DEF Intact
  <2> QED BY <2>1, <2>2
<1> QED BY <1>10, <1>11, IntactIsHeld DEF RingIntact, Used, Intact, Held

\* A hit hands over its range, and may copy it forward.
LEMMA GetKeeps ==
  ASSUME RingTypeOK, RingIntact, NEW i \in Used(ent), Get(i)
  PROVE  RingTypeOK' /\ RingIntact'
<1>1. CASE Old(ent[i])
  <2> DEFINE e == [ent EXCEPT ![i] = Unused]
  <2>1. ent \in [Slots -> Entry] /\ i \in Slots /\ ent[i].used
    BY DEF RingTypeOK, Used
  <2>2. e \in [Slots -> Entry]
    BY <2>1, EntryFacts
  <2>3. \A j \in Used(e) : j \in Used(ent) /\ e[j] = ent[j]
    BY <2>1, EntryFacts DEF Used
  <2>4. Intact(ent[i], ring) /\ \A j \in Used(e) : Intact(e[j], ring)
    BY <2>3, IntactIsHeld
  <2>5. ent[i].key \in Key /\ ent[i].at \in Offsets
    BY <2>1, EntryFacts
  <2>6. ent[i].key.len <= RingCap /\ Held(ent[i]) = Content(ent[i].key)
    BY <2>4, <2>5, KeyFacts, RingAssumption DEF Intact, Held, Offsets
  <2>7. Insert(e, ent[i].key, Content(ent[i].key))
    BY <1>1, <2>6 DEF Get
  <2> QED BY <2>2, <2>4, <2>5, <2>6, <2>7, InsertKeeps
<1>2. CASE ~Old(ent[i])
  BY <1>2 DEF Get, ram, RingTypeOK, RingIntact, Held
<1> QED BY <1>1, <1>2

\* Putting a range that is what the file holds.
LEMMA PutKeeps ==
  ASSUME RingTypeOK, RingIntact, NEW k \in Key, Put(k, Content(k))
  PROVE  RingTypeOK' /\ RingIntact'
<1>1. CASE k.len > RingCap \/ Hits(k) # {}
  BY <1>1 DEF Put, ram, RingTypeOK, RingIntact, Held
<1>2. CASE ~(k.len > RingCap \/ Hits(k) # {})
  <2>1. ent \in [Slots -> Entry] /\ k.len <= RingCap
    BY <1>2, RingAssumption, KeyFacts DEF RingTypeOK
  <2> QED BY <1>2, <2>1, InsertKeeps, IntactIsHeld DEF Put
<1> QED BY <1>1, <1>2

-----------------------------------------------------------------------------
(* The handles and the archives they share.                                *)

\* A handle is free or reads an archive from somewhere; an archive has a name and a
\* number of readers.
Typed ==
  /\ vf \in [Handles -> {Free} \cup [sf : Archives, pos : Nat, eof : BOOLEAN]]
  /\ sf = [s \in Archives |-> sf[s]]
  /\ \A s \in Open : /\ sf[s] = [file |-> sf[s].file, refs |-> sf[s].refs, idx |-> sf[s].idx]
                     /\ sf[s].file \in Files /\ sf[s].refs \in Nat
  /\ \A h \in InUse : vf[h].sf \in Open

ObbIInv == Typed /\ SharedExact /\ RingTypeOK /\ RingIntact

\* A handle in use has a place; a free one is not in use.
LEMMA HandleFacts ==
  ASSUME Typed, NEW h \in InUse
  PROVE  /\ h \in Handles /\ vf[h].pos \in Nat /\ vf[h].sf \in Open
         /\ vf[h] = [sf |-> vf[h].sf, pos |-> vf[h].pos, eof |-> vf[h].eof]
BY DEF Typed, InUse

LEMMA FiniteReaders ==
  /\ IsFiniteSet(Archives) /\ IsFiniteSet(Handles)
  /\ IsFiniteSet(Open) /\ \A s : IsFiniteSet(Readers(s))
<1>1. IsFiniteSet(Archives) /\ IsFiniteSet(Handles)
  BY FS_Interval, ObbAssumption DEF Archives, Handles
<1> QED BY <1>1, FS_Subset DEF Open, Readers, InUse

\* Steps that leave the slots, the readers and the counts as they are.
LEMMA SharingKept ==
  ASSUME Typed, SharedExact,
         vf' \in [Handles -> {Free} \cup [sf : Archives, pos : Nat, eof : BOOLEAN]],
         \A h \in Handles : /\ (vf'[h] = Free) <=> (vf[h] = Free)
                            /\ vf'[h] # Free => vf'[h].sf = vf[h].sf,
         sf' = [s \in Archives |-> sf'[s]],
         \A s \in Archives : /\ (sf'[s] = NoArchive) <=> (sf[s] = NoArchive)
                             /\ sf'[s] # NoArchive =>
                                  /\ sf'[s] = [file |-> sf[s].file, refs |-> sf[s].refs, idx |-> sf'[s].idx]
  PROVE  Typed' /\ SharedExact'
<1>1. Open' = Open /\ InUse' = InUse
  BY DEF Open, InUse
<1>2. \A s \in Open : /\ sf'[s].file = sf[s].file /\ sf'[s].refs = sf[s].refs
                      /\ sf'[s] = [file |-> sf'[s].file, refs |-> sf'[s].refs, idx |-> sf'[s].idx]
  BY DEF Open
<1>3. \A s : Readers(s)' = Readers(s)
  <2> SUFFICES ASSUME NEW s PROVE Readers(s)' = Readers(s)
    OBVIOUS
  <2>1. \A h \in InUse : vf'[h].sf = vf[h].sf
    BY DEF InUse
  <2> QED BY <1>1, <2>1 DEF Readers
<1>4. Typed'
  BY <1>1, <1>2 DEF Typed, InUse
<1>5. SharedExact'
  <2>1. \A s \in Open : sf'[s].refs = Cardinality(Readers(s)')
    BY <1>2, <1>3 DEF SharedExact
  <2>a. \A s \in Open : sf'[s].file = sf[s].file
    BY <1>2
  <2>b. \A s, t \in Open : sf[s].file = sf[t].file => s = t
    BY DEF SharedExact
  <2>2. \A s, t \in Open : sf'[s].file = sf'[t].file => s = t
    BY ONLY <2>a, <2>b
  <2> QED BY <1>1, <2>1, <2>2 DEF SharedExact
<1> QED BY <1>4, <1>5

\* The archive is found or opened, for n more readers.
LEMMA ArchiveOpened ==
  ASSUME Typed, SharedExact, NEW f \in Files, NEW s \in Archives, NEW n \in {0, 1},
         SlotFor(f, s), OpenArchive(f, s, n)
  PROVE  /\ Open' = Open \cup {s}
         /\ sf' = [t \in Archives |-> sf'[t]]
         /\ \A t \in Open' : /\ sf'[t] = [file |-> sf'[t].file, refs |-> sf'[t].refs, idx |-> sf'[t].idx]
                             /\ sf'[t].file \in Files /\ sf'[t].refs \in Nat
         /\ \A t, u \in Open' : sf'[t].file = sf'[u].file => t = u
         /\ \A t \in Open' : sf'[t].refs = Cardinality(Readers(t)) + (IF t = s THEN n ELSE 0)
<1>1. Fits(f, s)
  BY DEF SlotFor
<1>2. sf = [t \in Archives |-> sf[t]]
  BY DEF Typed
<1>3. NoArchive # [file |-> f, refs |-> n, idx |-> obbidx_open(f)]
  BY DEF NoArchive
<1>4. CASE Fresh(f)
  <2>1. sf[s] = NoArchive /\ s \notin Open
    BY <1>1, <1>4 DEF Fits, Open
  <2>2. sf' = [sf EXCEPT ![s] = [file |-> f, refs |-> n, idx |-> obbidx_open(f)]]
    BY <1>4 DEF OpenArchive
  <2>3. Open' = Open \cup {s}
    BY <1>2, <1>3, <2>2 DEF Open
  <2>4. \A t \in Open : sf'[t] = sf[t] /\ sf[t].file # f
    BY <1>2, <1>4, <2>1, <2>2 DEF Open, Fresh
  <2>5. sf'[s] = [file |-> f, refs |-> n, idx |-> obbidx_open(f)]
    BY <1>2, <2>2
  <2>6. Readers(s) = {}
    BY <2>1, HandleFacts DEF Readers
  <2>7. \A t \in Open' : sf'[t].refs = Cardinality(Readers(t)) + (IF t = s THEN n ELSE 0)
    <3>1. \A t \in Open : sf[t].refs = Cardinality(Readers(t)) /\ sf[t].refs \in Nat
      BY DEF SharedExact, Typed
    <3> SUFFICES ASSUME NEW t \in Open'
                 PROVE  sf'[t].refs = Cardinality(Readers(t)) + (IF t = s THEN n ELSE 0)
      OBVIOUS
    <3>2. CASE t = s
      <4>1. Cardinality(Readers(s)) = 0 /\ sf'[s].refs = n
        BY <2>5, <2>6, FS_EmptySet
      <4> QED BY ONLY <3>2, <4>1, n \in {0, 1}
    <3>3. CASE t # s
      <4>1. t \in Open
        BY <2>3, <3>3
      <4>2. sf'[t].refs = Cardinality(Readers(t)) /\ sf'[t].refs \in Nat
        BY ONLY <4>1, <2>4, <3>1
      <4> QED BY ONLY <3>3, <4>2
    <3> QED BY <3>2, <3>3
  <2>9. \A t \in Open : /\ sf[t] = [file |-> sf[t].file, refs |-> sf[t].refs, idx |-> sf[t].idx]
                        /\ sf[t].file \in Files /\ sf[t].refs \in Nat
    BY DEF Typed
  <2>10. \A t, u \in Open : sf[t].file = sf[u].file => t = u
    BY DEF SharedExact
  <2>11. \A t \in Open' : /\ sf'[t] = [file |-> sf'[t].file, refs |-> sf'[t].refs, idx |-> sf'[t].idx]
                          /\ sf'[t].file \in Files /\ sf'[t].refs \in Nat
    BY <2>3, <2>4, <2>5, <2>9
  <2>12. \A t, u \in Open' : sf'[t].file = sf'[u].file => t = u
    BY <2>3, <2>4, <2>5, <2>10
  <2> QED BY <1>2, <2>2, <2>3, <2>7, <2>11, <2>12
<1>5. CASE ~Fresh(f)
  <2>1. s \in Open /\ sf[s].file = f
    BY <1>1, <1>5 DEF Fits, Open
  <2>2. sf' = [sf EXCEPT ![s].refs = @ + n]
    BY <1>5 DEF OpenArchive
  <2>3. /\ sf[s] = [file |-> sf[s].file, refs |-> sf[s].refs, idx |-> sf[s].idx]
        /\ sf[s].file \in Files /\ sf[s].refs \in Nat
    BY <2>1 DEF Typed
  <2>4. sf'[s] = [file |-> sf[s].file, refs |-> sf[s].refs + n, idx |-> sf[s].idx]
    BY <1>2, <2>2, <2>3
  <2>5. \A t \in Archives : t # s => sf'[t] = sf[t]
    BY <1>2, <2>2
  <2>6. sf'[s] # NoArchive
    BY <2>4 DEF NoArchive
  <2>7. Open' = Open
    BY <2>1, <2>5, <2>6 DEF Open
  <2>8. \A t \in Open : /\ sf[t] = [file |-> sf[t].file, refs |-> sf[t].refs, idx |-> sf[t].idx]
                        /\ sf[t].file \in Files /\ sf[t].refs \in Nat /\ t \in Archives
    BY DEF Typed, Open
  <2>9. \A t \in Open' : /\ sf'[t] = [file |-> sf'[t].file, refs |-> sf'[t].refs, idx |-> sf'[t].idx]
                         /\ sf'[t].file \in Files /\ sf'[t].refs \in Nat
    <3> SUFFICES ASSUME NEW t \in Open
                 PROVE  /\ sf'[t] = [file |-> sf'[t].file, refs |-> sf'[t].refs, idx |-> sf'[t].idx]
                        /\ sf'[t].file \in Files /\ sf'[t].refs \in Nat
      BY <2>7
    <3>1. CASE t = s
      <4>1. sf'[s].file = sf[s].file /\ sf'[s].refs = sf[s].refs + n /\ sf'[s].idx = sf[s].idx
        BY ONLY <2>4
      <4> QED BY ONLY <3>1, <2>3, <2>4, <4>1, n \in {0, 1}
    <3>2. CASE t # s
      <4>1. sf'[t] = sf[t]
        BY ONLY <2>5, <2>8, <3>2, t \in Open
      <4> QED BY ONLY <2>8, <4>1, t \in Open
    <3> QED BY <3>1, <3>2
  <2>10. \A t, u \in Open : sf[t].file = sf[u].file => t = u
    BY DEF SharedExact
  <2>11. \A t \in Open : sf'[t].file = sf[t].file
    <3> SUFFICES ASSUME NEW t \in Open PROVE sf'[t].file = sf[t].file
      OBVIOUS
    <3>1. CASE t = s
      <4>1. sf'[s].file = sf[s].file
        BY ONLY <2>4
      <4> QED BY ONLY <3>1, <4>1
    <3>2. CASE t # s
      BY ONLY <2>5, <2>8, <3>2, t \in Open
    <3> QED BY <3>1, <3>2
  <2>12. \A t, u \in Open' : sf'[t].file = sf'[u].file => t = u
    BY ONLY <2>7, <2>10, <2>11
  <2>13. \A t \in Open : sf[t].refs = Cardinality(Readers(t))
    BY DEF SharedExact
  <2>14. \A t \in Open' : sf'[t].refs = Cardinality(Readers(t)) + (IF t = s THEN n ELSE 0)
    <3> SUFFICES ASSUME NEW t \in Open
                 PROVE  sf'[t].refs = Cardinality(Readers(t)) + (IF t = s THEN n ELSE 0)
      BY <2>7
    <3>1. CASE t = s
      <4>1. sf'[s].refs = sf[s].refs + n
        BY ONLY <2>4
      <4> QED BY ONLY <2>13, <3>1, <4>1, t \in Open
    <3>2. CASE t # s
      <4>1. sf'[t] = sf[t] /\ sf[t].refs \in Nat
        BY ONLY <2>5, <2>8, <3>2, t \in Open
      <4> QED BY ONLY <2>13, <3>2, <4>1, t \in Open
    <3> QED BY <3>1, <3>2
  <2>16. sf' = [t \in Archives |-> sf'[t]]
    BY <1>2, <2>2
  <2> QED BY <2>1, <2>7, <2>9, <2>12, <2>14, <2>16
<1> QED BY <1>4, <1>5

LEMMA OpenSharedKeeps ==
  ASSUME Typed, SharedExact, NEW f \in Files, NEW h \in Handles, NEW s \in Archives,
         fopen_shared(f, h, s)
  PROVE  Typed' /\ SharedExact'
<1> DEFINE v == [sf |-> s, pos |-> 0, eof |-> FALSE]
<1>1. /\ SlotFor(f, s) /\ OpenArchive(f, s, 1) /\ vf[h] = Free
      /\ vf' = [vf EXCEPT ![h] = v]
  BY DEF fopen_shared
<1>2. /\ Open' = Open \cup {s}
      /\ sf' = [t \in Archives |-> sf'[t]]
      /\ \A t \in Open' : /\ sf'[t] = [file |-> sf'[t].file, refs |-> sf'[t].refs, idx |-> sf'[t].idx]
                          /\ sf'[t].file \in Files /\ sf'[t].refs \in Nat
      /\ \A t, u \in Open' : sf'[t].file = sf'[u].file => t = u
      /\ \A t \in Open' : sf'[t].refs = Cardinality(Readers(t)) + (IF t = s THEN 1 ELSE 0)
  BY <1>1, ArchiveOpened
<1>3. vf \in [Handles -> {Free} \cup [sf : Archives, pos : Nat, eof : BOOLEAN]]
  BY DEF Typed
<1>4. v \in [sf : Archives, pos : Nat, eof : BOOLEAN] /\ v # Free /\ v.sf = s
  BY DEF Free
<1>5. vf' \in [Handles -> {Free} \cup [sf : Archives, pos : Nat, eof : BOOLEAN]]
  BY <1>1, <1>3, <1>4
<1>6. InUse' = InUse \cup {h} /\ h \notin InUse /\ vf'[h] = v /\ \A g \in InUse : vf'[g] = vf[g]
  BY <1>1, <1>3, <1>4 DEF InUse
<1>7. Readers(s)' = Readers(s) \cup {h} /\ h \notin Readers(s)
  BY <1>4, <1>6 DEF Readers
<1>8. \A t \in Open' : t # s => Readers(t)' = Readers(t)
  BY <1>4, <1>6 DEF Readers
<1>9. Cardinality(Readers(s)') = Cardinality(Readers(s)) + 1
  BY <1>7, FiniteReaders, FS_AddElement
<1>10. \A t \in Open' : sf'[t].refs = Cardinality(Readers(t)')
  <2> SUFFICES ASSUME NEW t \in Open' PROVE sf'[t].refs = Cardinality(Readers(t)')
    OBVIOUS
  <2>1. Cardinality(Readers(t)) \in Nat
    BY FiniteReaders, FS_CardinalityType
  <2> QED BY <1>2, <1>8, <1>9, <2>1
<1>11. \A g \in InUse' : vf'[g].sf \in Open'
  BY <1>2, <1>4, <1>6, HandleFacts
<1> QED BY <1>1, <1>2, <1>5, <1>10, <1>11 DEF Typed, SharedExact

\* With every handle in use the archive is opened for nobody.
LEMMA OutOfHandlesKeeps ==
  ASSUME Typed, SharedExact, NEW f \in Files, NEW s \in Archives,
         fopen_outOfHandles(f, s)
  PROVE  Typed' /\ SharedExact'
<1>1. /\ SlotFor(f, s) /\ OpenArchive(f, s, 0) /\ vf' = vf
  BY DEF fopen_outOfHandles
<1>2. /\ Open' = Open \cup {s}
      /\ sf' = [t \in Archives |-> sf'[t]]
      /\ \A t \in Open' : /\ sf'[t] = [file |-> sf'[t].file, refs |-> sf'[t].refs, idx |-> sf'[t].idx]
                          /\ sf'[t].file \in Files /\ sf'[t].refs \in Nat
      /\ \A t, u \in Open' : sf'[t].file = sf'[u].file => t = u
      /\ \A t \in Open' : sf'[t].refs = Cardinality(Readers(t)) + (IF t = s THEN 0 ELSE 0)
  BY <1>1, ArchiveOpened
<1>3. InUse' = InUse /\ \A t : Readers(t)' = Readers(t)
  BY <1>1 DEF InUse, Readers
<1>4. \A t \in Open' : sf'[t].refs = Cardinality(Readers(t)')
  <2> SUFFICES ASSUME NEW t \in Open' PROVE sf'[t].refs = Cardinality(Readers(t)')
    OBVIOUS
  <2>1. Cardinality(Readers(t)) \in Nat
    BY FiniteReaders, FS_CardinalityType
  <2> QED BY <1>2, <1>3, <2>1
<1>5. \A g \in InUse' : vf'[g].sf \in Open'
  BY <1>1, <1>2, <1>3, HandleFacts
<1>6. vf' \in [Handles -> {Free} \cup [sf : Archives, pos : Nat, eof : BOOLEAN]]
  BY <1>1 DEF Typed
<1> QED BY <1>2, <1>4, <1>5, <1>6 DEF Typed, SharedExact

\* A reader less, and the archive with its last one.
LEMMA CloseKeeps ==
  ASSUME Typed, SharedExact, NEW h \in Handles, fclose_diag(h)
  PROVE  Typed' /\ SharedExact'
<1>0. PICK s \in Archives : vf[h].sf = s
  BY HandleFacts DEF fclose_diag, InUse, Open
<1>1. /\ vf[h] # Free /\ vf' = [vf EXCEPT ![h] = Free]
      /\ sf' = IF LastReader(s) THEN [sf EXCEPT ![s] = NoArchive] ELSE [sf EXCEPT ![s].refs = @ - 1]
  BY <1>0 DEF fclose_diag
<1>2. h \in InUse /\ s \in Open /\ s \in Archives /\ h \in Readers(s)
  BY <1>0, <1>1, HandleFacts DEF InUse, Open, Readers
<1>3. /\ vf \in [Handles -> {Free} \cup [sf : Archives, pos : Nat, eof : BOOLEAN]]
      /\ sf = [t \in Archives |-> sf[t]]
  BY DEF Typed, SharedExact
<1>4. vf' \in [Handles -> {Free} \cup [sf : Archives, pos : Nat, eof : BOOLEAN]]
  BY <1>1, <1>3
<1>5. InUse' = InUse \ {h} /\ \A g \in InUse' : vf'[g] = vf[g]
  BY <1>1, <1>3 DEF InUse
<1>6. Readers(s)' = Readers(s) \ {h}
  BY <1>5 DEF Readers
<1>7. \A t : t # s => Readers(t)' = Readers(t)
  BY <1>0, <1>2, <1>5 DEF Readers
<1>8. /\ Cardinality(Readers(s)) \in Nat
      /\ Cardinality(Readers(s)') = Cardinality(Readers(s)) - 1
  BY <1>2, <1>6, FiniteReaders, FS_RemoveElement, FS_CardinalityType
<1>9. /\ sf[s] = [file |-> sf[s].file, refs |-> sf[s].refs, idx |-> sf[s].idx]
      /\ sf[s].file \in Files /\ sf[s].refs = Cardinality(Readers(s))
  BY <1>2 DEF Typed, SharedExact
<1>10. \A t \in Archives : t # s => sf'[t] = sf[t]
  BY <1>1, <1>3
<1>11. \A t \in Open : /\ t \in Archives
                       /\ sf[t] = [file |-> sf[t].file, refs |-> sf[t].refs, idx |-> sf[t].idx]
                       /\ sf[t].file \in Files /\ sf[t].refs \in Nat
                       /\ sf[t].refs = Cardinality(Readers(t))
  BY DEF Typed, SharedExact, Open
<1>12. \A t, u \in Open : sf[t].file = sf[u].file => t = u
  BY DEF SharedExact
<1>13. sf' = [t \in Archives |-> sf'[t]]
  BY <1>1, <1>3
<1>14. CASE LastReader(s)
  <2>1. sf'[s] = NoArchive
    BY <1>1, <1>2, <1>3, <1>14
  <2>2. Open' = Open \ {s}
    BY <1>2, <1>10, <2>1 DEF Open
  <2>3. Readers(s)' = {}
    <3>1. Cardinality(Readers(s)') = 0
      BY <1>8, <1>9, <1>14, FiniteReaders, <1>6, FS_RemoveElement, FS_CardinalityType DEF LastReader
    <3>2. IsFiniteSet(Readers(s)')
      BY <1>6, FiniteReaders, FS_RemoveElement
    <3> QED BY <3>1, <3>2, FS_EmptySet
  <2>4. \A g \in InUse' : vf'[g].sf \in Open'
    <3> SUFFICES ASSUME NEW g \in InUse' PROVE vf'[g].sf \in Open'
      OBVIOUS
    <3>1. g \in InUse /\ vf'[g] = vf[g] /\ vf[g].sf \in Open
      BY <1>5, HandleFacts
    <3>2. vf[g].sf # s
      BY <2>3, <3>1 DEF Readers
    <3> QED BY <2>2, <3>1, <3>2
  <2>5. \A t \in Open' : t \in Open /\ t # s /\ sf'[t] = sf[t]
    BY <2>2, <1>10, <1>11
  <2>6. \A t \in Open' : sf'[t].refs = Cardinality(Readers(t)')
    BY <2>5, <1>7, <1>11
  <2>7. \A t, u \in Open' : sf'[t].file = sf'[u].file => t = u
    BY ONLY <2>5, <1>12
  <2>10. \A t \in Open' : /\ sf'[t] = [file |-> sf'[t].file, refs |-> sf'[t].refs, idx |-> sf'[t].idx]
                          /\ sf'[t].file \in Files /\ sf'[t].refs \in Nat
    BY ONLY <2>5, <1>11
  <2> QED BY <1>1, <1>3, <1>4, <1>13, <2>4, <2>6, <2>7, <2>10 DEF Typed, SharedExact
<1>15. CASE ~LastReader(s)
  <2>1. sf'[s] = [file |-> sf[s].file, refs |-> sf[s].refs - 1, idx |-> sf[s].idx]
    <3>1. sf'[s] = [sf[s] EXCEPT !.refs = @ - 1]
      <4>1. sf' = [sf EXCEPT ![s].refs = @ - 1]
        BY <1>1, <1>15
      <4>2. sf = [t \in Archives |-> sf[t]]
        BY <1>3
      <4> QED BY ONLY <4>1, <4>2, s \in Archives
    <3>2. [sf[s] EXCEPT !.refs = @ - 1] = [file |-> sf[s].file, refs |-> sf[s].refs - 1, idx |-> sf[s].idx]
      BY ONLY <1>9
    <3> QED BY ONLY <3>1, <3>2
  <2>2. sf'[s] # NoArchive
    BY <2>1 DEF NoArchive
  <2>3. Open' = Open
    BY <1>2, <1>10, <2>2 DEF Open
  <2>4. sf'[s].file = sf[s].file /\ sf'[s].refs = sf[s].refs - 1 /\ sf'[s].idx = sf[s].idx
    BY ONLY <2>1
  <2>5. sf'[s].refs \in Nat
    BY <1>8, <1>9, <1>15, <2>4 DEF LastReader
  <2>6. ASSUME NEW t \in Open
        PROVE  /\ sf'[t] = [file |-> sf'[t].file, refs |-> sf'[t].refs, idx |-> sf'[t].idx]
               /\ sf'[t].file \in Files /\ sf'[t].refs \in Nat
               /\ sf'[t].file = sf[t].file /\ sf'[t].refs = Cardinality(Readers(t)')
    <3>1. CASE t = s
      BY ONLY <3>1, <1>6, <1>8, <1>9, <2>1, <2>4, <2>5
    <3>2. CASE t # s
      <4>1. sf'[t] = sf[t] /\ Readers(t)' = Readers(t)
        BY <1>7, <1>10, <1>11, <3>2
      <4> QED BY ONLY <1>11, <4>1, t \in Open
    <3> QED BY <3>1, <3>2
  <2>7. \A t, u \in Open' : sf'[t].file = sf'[u].file => t = u
    <3>1. \A t \in Open : sf'[t].file = sf[t].file
      BY <2>6
    <3> QED BY ONLY <2>3, <3>1, <1>12
  <2>9. \A g \in InUse' : vf'[g].sf \in Open'
    BY <1>5, <2>3, HandleFacts
  <2> QED BY <1>1, <1>3, <1>4, <1>13, <2>3, <2>6, <2>7, <2>9 DEF Typed, SharedExact
<1> QED BY <1>14, <1>15

\* A handle that is moved, or told of the end.
LEMMA MovedKeeps ==
  ASSUME Typed, SharedExact, NEW h \in InUse, UNCHANGED sf,
         \E pos \in Nat : \E eof \in BOOLEAN :
           vf' = [vf EXCEPT ![h] = [sf |-> vf[h].sf, pos |-> pos, eof |-> eof]]
  PROVE  Typed' /\ SharedExact'
<1>1. PICK pos \in Nat : \E eof \in BOOLEAN :
        vf' = [vf EXCEPT ![h] = [sf |-> vf[h].sf, pos |-> pos, eof |-> eof]]
  OBVIOUS
<1>2. PICK eof \in BOOLEAN : vf' = [vf EXCEPT ![h] = [sf |-> vf[h].sf, pos |-> pos, eof |-> eof]]
  BY <1>1
<1>3. /\ vf \in [Handles -> {Free} \cup [sf : Archives, pos : Nat, eof : BOOLEAN]]
      /\ sf = [s \in Archives |-> sf[s]] /\ h \in Handles /\ vf[h] # Free /\ vf[h].sf \in Archives
      /\ \A s \in Open : sf[s] = [file |-> sf[s].file, refs |-> sf[s].refs, idx |-> sf[s].idx]
  BY HandleFacts DEF Typed, Open, InUse
<1>4. vf'[h] = [sf |-> vf[h].sf, pos |-> pos, eof |-> eof] /\ \A g \in Handles : g # h => vf'[g] = vf[g]
  BY ONLY <1>2, <1>3
<1>5. vf'[h] \in [sf : Archives, pos : Nat, eof : BOOLEAN]
  BY ONLY <1>3, <1>4, pos \in Nat, eof \in BOOLEAN
<1>6. vf' \in [Handles -> {Free} \cup [sf : Archives, pos : Nat, eof : BOOLEAN]]
  BY <1>2, <1>3, <1>5
<1>7. vf'[h] # Free /\ vf'[h].sf = vf[h].sf
  BY <1>4 DEF Free
<1>8. \A g \in Handles : /\ (vf'[g] = Free) <=> (vf[g] = Free)
                         /\ vf'[g] # Free => vf'[g].sf = vf[g].sf
  BY ONLY <1>3, <1>4, <1>7
<1>9. \A s \in Archives : sf[s] # NoArchive =>
        sf[s] = [file |-> sf[s].file, refs |-> sf[s].refs, idx |-> sf[s].idx]
  BY <1>3 DEF Open
<1> QED BY <1>3, <1>6, <1>8, <1>9, SharingKept

-----------------------------------------------------------------------------
(* Reads.                                                                  *)

\* A read moves its handle and leaves the sharing as it is.
LEMMA ServedKeeps ==
  ASSUME Typed, SharedExact, NEW h \in InUse, NEW n \in Nat, NEW m \in Nat, NEW bytes,
         Served(h, n, m, bytes),
         sf' = sf \/ \E s \in Open : \E idx : sf' = [sf EXCEPT ![s].idx = idx]
  PROVE  Typed' /\ SharedExact'
<1>1. vf' = [vf EXCEPT ![h].pos = @ + m, ![h].eof = @ \/ m < n]
  BY DEF Served
<1>2. /\ vf \in [Handles -> {Free} \cup [sf : Archives, pos : Nat, eof : BOOLEAN]]
      /\ sf = [s \in Archives |-> sf[s]] /\ h \in Handles
  BY HandleFacts DEF Typed
<1>3. /\ vf[h] = [sf |-> vf[h].sf, pos |-> vf[h].pos, eof |-> vf[h].eof]
      /\ vf[h].sf \in Archives /\ vf[h].pos \in Nat
  BY HandleFacts DEF Open
<1>4. vf'[h] = [sf |-> vf[h].sf, pos |-> vf[h].pos + m, eof |-> vf[h].eof \/ m < n]
  BY ONLY <1>1, <1>2, <1>3
<1>5. vf'[h] \in [sf : Archives, pos : Nat, eof : BOOLEAN]
  <2>1. vf[h].pos + m \in Nat /\ (vf[h].eof \/ m < n) \in BOOLEAN
    BY <1>3
  <2> QED BY ONLY <1>3, <1>4, <2>1
<1>6. vf' \in [Handles -> {Free} \cup [sf : Archives, pos : Nat, eof : BOOLEAN]]
  BY <1>1, <1>2, <1>5
<1>7. vf'[h] # Free /\ vf[h] # Free /\ vf'[h].sf = vf[h].sf
  BY <1>4 DEF Free, InUse
<1>8. \A g \in Handles : /\ (vf'[g] = Free) <=> (vf[g] = Free)
                         /\ vf'[g] # Free => vf'[g].sf = vf[g].sf
  <2> SUFFICES ASSUME NEW g \in Handles, g # h PROVE vf'[g] = vf[g]
    BY <1>7
  <2> QED BY <1>1, <1>2
<1>9. sf' = [s \in Archives |-> sf'[s]]
  BY <1>2
<1>10. \A s \in Archives : /\ (sf'[s] = NoArchive) <=> (sf[s] = NoArchive)
                           /\ sf'[s] # NoArchive =>
                                sf'[s] = [file |-> sf[s].file, refs |-> sf[s].refs, idx |-> sf'[s].idx]
  <2>1. \A s \in Open : /\ s \in Archives
                        /\ sf[s] = [file |-> sf[s].file, refs |-> sf[s].refs, idx |-> sf[s].idx]
    BY DEF Typed, Open
  <2>2. CASE sf' = sf
    BY <2>1, <2>2 DEF Open
  <2>3. CASE sf' # sf
    <3>1. PICK s \in Open : \E idx : sf' = [sf EXCEPT ![s].idx = idx]
      BY <2>3
    <3>2. PICK idx : sf' = [sf EXCEPT ![s].idx = idx]
      BY <3>1
    <3>3. \A t \in Archives : t # s => sf'[t] = sf[t]
      BY <1>2, <3>2
    <3>4. sf'[s] = [file |-> sf[s].file, refs |-> sf[s].refs, idx |-> idx]
      <4>1. sf[s] = [file |-> sf[s].file, refs |-> sf[s].refs, idx |-> sf[s].idx] /\ s \in Archives
        BY <2>1
      <4>2. sf = [t \in Archives |-> sf[t]]
        BY <1>2
      <4>3. sf'[s] = [sf[s] EXCEPT !.idx = idx]
        BY ONLY <3>2, <4>1, <4>2
      <4> QED BY ONLY <4>1, <4>3
    <3>5. sf'[s].idx = idx
      BY ONLY <3>4
    <3>6. sf'[s] # NoArchive /\ sf[s] # NoArchive
      BY <3>1, <3>4 DEF NoArchive, Open
    <3> SUFFICES ASSUME NEW t \in Archives
                 PROVE  /\ (sf'[t] = NoArchive) <=> (sf[t] = NoArchive)
                        /\ sf'[t] # NoArchive =>
                             sf'[t] = [file |-> sf[t].file, refs |-> sf[t].refs, idx |-> sf'[t].idx]
      OBVIOUS
    <3>7. CASE t = s
      BY ONLY <3>4, <3>5, <3>6, <3>7
    <3>8. CASE t # s
      BY <2>1, <3>3, <3>8 DEF Open
    <3> QED BY <3>7, <3>8
  <2> QED BY <2>2, <2>3
<1> QED BY <1>1, <1>6, <1>8, <1>9, <1>10, SharingKept

LEMMA ReadKeeps ==
  ASSUME ObbIInv, NEW h \in Handles, NEW n \in Lens, fread_diag(h, n)
  PROVE  ObbIInv'
<1>1. Typed /\ SharedExact /\ RingTypeOK /\ RingIntact
  BY DEF ObbIInv
<1>2. h \in InUse
  BY DEF fread_diag, InUse
<1>3. n \in Nat \ {0}
  BY ObbAssumption
<1>4. PICK s \in Open : vf[h].sf = s
  BY <1>1, <1>2, HandleFacts
<1>5. vf[h].pos \in Nat /\ s \in Archives /\ sf[s].file \in Files
  BY <1>1, <1>2, <1>4, HandleFacts DEF Open, Typed
<1>6. CASE ReadIndex(h, n)
  <2>1. Served(h, n, n, ServedBytes(sf[vf[h].sf].idx, vf[h].pos, n)) /\ UNCHANGED <<ram, sf>>
    BY <1>6 DEF ReadIndex
  <2>2. Typed' /\ SharedExact'
    BY <1>1, <1>2, <1>3, <2>1, ServedKeeps
  <2>3. RingTypeOK' /\ RingIntact'
    BY <1>1, <2>1 DEF ram, RingTypeOK, RingIntact, Held
  <2> QED BY <2>2, <2>3 DEF ObbIInv
<1>7. CASE ReadRam(h, n)
  <2>1. PICK i \in Slots : /\ find(KeyAt(h, n), i) /\ Get(i) /\ Served(h, n, n, Held(ent[i]))
    BY <1>7 DEF ReadRam
  <2>2. UNCHANGED sf
    BY <1>7 DEF ReadRam
  <2>3. i \in Used(ent)
    BY <2>1 DEF find, Hits
  <2>4. Typed' /\ SharedExact'
    BY <1>1, <1>2, <1>3, <2>1, <2>2, ServedKeeps
  <2>5. RingTypeOK' /\ RingIntact'
    BY <1>1, <2>1, <2>3, GetKeeps
  <2> QED BY <2>4, <2>5 DEF ObbIInv
<1>8. CASE ReadCard(h, n)
  <2> DEFINE m == ReadSize(sf[s].file, vf[h].pos, n)
             bytes == sceIoPread(sf[s].file, vf[h].pos, m)
             key == KeyAt(h, n)
  <2>1. /\ Served(h, n, m, bytes)
        /\ sf' = [sf EXCEPT ![s].idx = obbidx_record(sf[s].idx, vf[h].pos, bytes)]
        /\ IF m = n /\ n \in Band THEN Put(key, bytes) ELSE UNCHANGED ram
    BY <1>4, <1>8 DEF ReadCard
  <2>2. m \in Nat
    <3>1. FileSize[sf[s].file] \in Nat
      BY <1>5, ObbAssumption
    <3> QED BY <1>3, <1>5, <3>1 DEF ReadSize, Left
  <2>3. Typed' /\ SharedExact'
    <3>1. \E idx : sf' = [sf EXCEPT ![s].idx = idx]
      BY <2>1
    <3> HIDE DEF m, bytes
    <3> QED BY <1>1, <1>2, <1>3, <1>4, <2>1, <2>2, <3>1, ServedKeeps
  <2>4. RingTypeOK' /\ RingIntact'
    <3>1. CASE m = n /\ n \in Band
      <4>1. key \in Key /\ key.file = sf[s].file /\ key.off = vf[h].pos /\ key.len = n
        BY <1>4, <1>5, <3>1 DEF KeyAt, Key
      <4>2. bytes = Content(key)
        BY <3>1, <4>1 DEF sceIoPread, Content
      <4>3. Put(key, Content(key))
        BY <2>1, <3>1, <4>2
      <4>4. PICK k \in Key : k = key
        BY <4>1
      <4> QED BY <1>1, <4>3, <4>4, PutKeeps
    <3>2. CASE ~(m = n /\ n \in Band)
      BY <1>1, <2>1, <3>2 DEF ram, RingTypeOK, RingIntact, Held
    <3> QED BY <3>1, <3>2
  <2> QED BY <2>3, <2>4 DEF ObbIInv
<1>9. CASE ReadFails(h, n)
  <2>1. /\ vf' = [vf EXCEPT ![h].eof = TRUE]
        /\ UNCHANGED <<sf, ram>>
    BY <1>9 DEF ReadFails
  <2>2. Typed' /\ SharedExact'
    <3>1. vf[h] = [sf |-> vf[h].sf, pos |-> vf[h].pos, eof |-> vf[h].eof]
      BY <1>1, <1>2, HandleFacts
    <3>2. vf' = [vf EXCEPT ![h] = [sf |-> vf[h].sf, pos |-> vf[h].pos, eof |-> TRUE]]
      <4>1. vf = [g \in Handles |-> vf[g]]
        BY <1>1 DEF Typed
      <4>2. vf'[h] = [sf |-> vf[h].sf, pos |-> vf[h].pos, eof |-> TRUE]
        BY ONLY <2>1, <3>1, <4>1, h \in Handles
      <4>3. vf' = [vf EXCEPT ![h] = vf'[h]]
        BY ONLY <2>1, <4>1, h \in Handles
      <4> QED BY ONLY <4>2, <4>3
    <3> QED BY <1>1, <1>2, <1>5, <2>1, <3>2, MovedKeeps
  <2>3. RingTypeOK' /\ RingIntact'
    BY <1>1, <2>1 DEF ram, RingTypeOK, RingIntact, Held
  <2> QED BY <2>2, <2>3 DEF ObbIInv
<1> QED BY <1>6, <1>7, <1>8, <1>9 DEF fread_diag

-----------------------------------------------------------------------------
(* The other steps, and the theorems.                                      *)

LEMMA InitHolds == Init => ObbIInv
<1> SUFFICES ASSUME Init PROVE ObbIInv
  OBVIOUS
<1>1. Open = {} /\ InUse = {}
  BY DEF Init, Open, InUse
<1>2. Typed
  BY <1>1, Zenon DEF Typed, Init
<1>3. SharedExact
  BY <1>1, FS_EmptySet DEF SharedExact, Init
<1>4. RingTypeOK /\ RingIntact
  BY RingAssumption, EntryFacts DEF Init, RingInit, RingTypeOK, RingIntact, Byte
<1> QED BY <1>2, <1>3, <1>4 DEF ObbIInv

LEMMA BootHolds == ASSUME Boot PROVE ObbIInv'
<1>1. /\ sf' = [s \in Archives |-> NoArchive] /\ vf' = [h \in Handles |-> Free]
      /\ ring' = [p \in Offsets |-> NoByte] /\ ent' = [i \in Slots |-> Unused]
      /\ head' = 0 /\ seq' = 0
  BY DEF Boot
<1>2. Open' = {} /\ InUse' = {}
  BY <1>1 DEF Open, InUse
<1>3. Typed'
  BY <1>1, <1>2, Zenon DEF Typed
<1>4. SharedExact'
  BY <1>1, <1>2, FS_EmptySet DEF SharedExact
<1>5. RingTypeOK' /\ RingIntact'
  BY <1>1, RingAssumption, EntryFacts DEF RingTypeOK, RingIntact, Byte
<1> QED BY <1>3, <1>4, <1>5 DEF ObbIInv

\* The end of the mount changes the indexes and nothing else of the archives.
LEMMA MountDoneKeeps == ASSUME ObbIInv, io_obb_mount_done PROVE ObbIInv'
<1>1. Typed /\ SharedExact /\ RingTypeOK /\ RingIntact
  BY DEF ObbIInv
<1>2. PICK done : sf' = [s \in Archives |-> IF s \in Open THEN [sf[s] EXCEPT !.idx = done[s].ix] ELSE sf[s]]
  BY DEF io_obb_mount_done
<1>3. UNCHANGED <<vf, ram>>
  BY DEF io_obb_mount_done
<1>4. \A s \in Open : sf[s] = [file |-> sf[s].file, refs |-> sf[s].refs, idx |-> sf[s].idx]
  BY <1>1 DEF Typed
<1>5. ASSUME NEW s \in Archives
      PROVE  /\ (sf'[s] = NoArchive) <=> (sf[s] = NoArchive)
             /\ sf'[s] # NoArchive =>
                  sf'[s] = [file |-> sf[s].file, refs |-> sf[s].refs, idx |-> sf'[s].idx]
  <2>1. CASE s \in Open
    <3>1. sf'[s] = [sf[s] EXCEPT !.idx = done[s].ix]
      BY <1>2, <2>1
    <3>2. sf[s] = [file |-> sf[s].file, refs |-> sf[s].refs, idx |-> sf[s].idx]
      BY <1>4, <2>1
    <3>3. sf'[s] = [file |-> sf[s].file, refs |-> sf[s].refs, idx |-> done[s].ix]
      BY ONLY <3>1, <3>2
    <3>4. sf'[s].idx = done[s].ix
      BY ONLY <3>3
    <3>5. sf'[s] # NoArchive /\ sf[s] # NoArchive
      BY <2>1, <3>3 DEF NoArchive, Open
    <3> QED BY ONLY <3>3, <3>4, <3>5
  <2>2. CASE s \notin Open
    BY <1>2, <2>2 DEF Open
  <2> QED BY <2>1, <2>2
<1>6. Typed' /\ SharedExact'
  <2>1. vf' \in [Handles -> {Free} \cup [sf : Archives, pos : Nat, eof : BOOLEAN]]
    BY <1>1, <1>3 DEF Typed
  <2>2. sf' = [s \in Archives |-> sf'[s]]
    BY <1>2
  <2> QED BY <1>1, <1>3, <1>5, <2>1, <2>2, SharingKept
<1>7. RingTypeOK' /\ RingIntact'
  BY <1>1, <1>3 DEF ram, RingTypeOK, RingIntact, Held
<1> QED BY <1>6, <1>7 DEF ObbIInv

LEMMA ObbInductive == ObbIInv /\ [Next]_vars => ObbIInv'
<1> SUFFICES ASSUME ObbIInv, [Next]_vars PROVE ObbIInv'
  OBVIOUS
<1>1. Typed /\ SharedExact /\ RingTypeOK /\ RingIntact
  BY DEF ObbIInv
<1>2. ASSUME UNCHANGED ram PROVE RingTypeOK' /\ RingIntact'
  BY <1>1, <1>2 DEF ram, RingTypeOK, RingIntact, Held
<1>3. ASSUME NEW f \in Files, NEW s \in Archives, NEW h \in Handles, fopen_shared(f, h, s) PROVE ObbIInv'
  BY <1>1, <1>2, <1>3, OpenSharedKeeps DEF ObbIInv, fopen_shared
<1>4. ASSUME NEW f \in Files, NEW s \in Archives, fopen_outOfHandles(f, s) PROVE ObbIInv'
  BY <1>1, <1>2, <1>4, OutOfHandlesKeeps DEF ObbIInv, fopen_outOfHandles
<1>5. ASSUME UNCHANGED <<sf, vf, ram>> PROVE ObbIInv'
  <2>1. Open' = Open /\ InUse' = InUse /\ \A s : Readers(s)' = Readers(s)
    BY <1>5 DEF Open, InUse, Readers
  <2>2. Typed' /\ SharedExact'
    BY <1>1, <1>5, <2>1 DEF Typed, SharedExact
  <2> QED BY <1>2, <1>5, <2>2 DEF ObbIInv
<1>8. ASSUME NEW h \in Handles, fclose_diag(h) PROVE ObbIInv'
  BY <1>1, <1>2, <1>8, CloseKeeps DEF ObbIInv, fclose_diag
<1>9. ASSUME NEW h \in Handles, NEW pos \in Positions, fseek_diag(h, pos) PROVE ObbIInv'
  <2>1. h \in InUse /\ pos \in Nat
    BY <1>9, ObbAssumption DEF fseek_diag, InUse
  <2>2. vf[h] = [sf |-> vf[h].sf, pos |-> vf[h].pos, eof |-> vf[h].eof]
    BY <1>1, <2>1, HandleFacts
  <2>3. vf' = [vf EXCEPT ![h] = [sf |-> vf[h].sf, pos |-> pos, eof |-> FALSE]]
    <3>1. vf' = [vf EXCEPT ![h].pos = pos, ![h].eof = FALSE]
      BY <1>9 DEF fseek_diag
    <3>2. vf = [g \in Handles |-> vf[g]]
      BY <1>1 DEF Typed
    <3>3. vf'[h] = [sf |-> vf[h].sf, pos |-> pos, eof |-> FALSE]
      BY ONLY <3>1, <3>2, <2>2, h \in Handles
    <3>4. vf' = [vf EXCEPT ![h] = vf'[h]]
      BY ONLY <3>1, <3>2, h \in Handles
    <3> QED BY ONLY <3>3, <3>4
  <2>4. Typed' /\ SharedExact'
    BY <1>1, <1>9, <2>1, <2>3, MovedKeeps DEF fseek_diag
  <2> QED BY <1>2, <1>9, <2>4 DEF ObbIInv, fseek_diag
<1>10. ASSUME UNCHANGED vars PROVE ObbIInv'
  BY <1>5, <1>10 DEF vars
<1>11. PowerOff \/ (\E s \in Open : PowerOffWriting(s)) => ObbIInv'
  BY BootHolds DEF PowerOff, PowerOffWriting
<1> QED BY <1>3, <1>4, <1>8, <1>9, <1>10, <1>11, MountDoneKeeps, ReadKeeps DEF Next

\* No entry of the RAM ring ever stands for bytes it does not hold, for a ring and a
\* table of entries of any size (obb_cache.c:72).
THEOREM RingNeverStale == Spec => []RingIntact
<1>1. ObbIInv => RingIntact
  BY DEF ObbIInv
<1> QED BY <1>1, InitHolds, ObbInductive, PTL DEF Spec

\* The archives are shared exactly, however many are opened, read and closed, across
\* boots (fopen_shared and fclose_diag, dynlib.c:391-504).
THEOREM SharingStaysExact == Spec => []SharedExact
<1>1. ObbIInv => SharedExact
  BY DEF ObbIInv
<1> QED BY <1>1, InitHolds, ObbInductive, PTL DEF Spec

\* Both for the archives among the other parts (dynlib.c:391-504, obb_cache.c:73-120).
THEOREM ArchivesStayKept == StorageSpec => []ArchivesKept
<1>1. StorageInit => ObbIInv
  BY InitHolds DEF StorageInit
<1>2. ObbIInv /\ [StorageNext]_all => ObbIInv'
  <2>1. ObbIInv /\ UNCHANGED vars => ObbIInv'
    BY ObbInductive
  <2> QED BY <2>1, ObbInductive DEF StorageNext, Reads, Chooses, Keeps, Opens, all
<1>3. ObbIInv => ArchivesKept
  BY DEF ObbIInv, ArchivesKept
<1> QED BY <1>1, <1>2, <1>3, PTL DEF StorageSpec

\* A step that changes of the archives only their indexes leaves none idle that was not.
LEMMA IndexesOnly ==
  ASSUME Typed, NEW idx,
         sf' = [s \in Archives |-> IF s \in Open THEN [sf[s] EXCEPT !.idx = idx[s]] ELSE sf[s]]
  PROVE  \A s \in Archives : Idle(s)' => Idle(s)
<1> SUFFICES ASSUME NEW s \in Archives, Idle(s)' PROVE Idle(s)
  OBVIOUS
<1>1. sf'[s] # NoArchive /\ sf'[s].refs = 0
  BY DEF Idle, Open
<1>2. s \in Open /\ sf'[s] = [sf[s] EXCEPT !.idx = idx[s]]
  BY <1>1 DEF Open
<1>3. sf[s] = [file |-> sf[s].file, refs |-> sf[s].refs, idx |-> sf[s].idx]
  BY <1>2 DEF Typed
<1> QED BY <1>1, <1>2, <1>3 DEF Idle

LEMMA IdleStep == ObbIInv /\ Next => \A s \in Archives : Idle(s)' => Idle(s) \/ InUse = Handles
<1> SUFFICES ASSUME ObbIInv, Next, InUse # Handles PROVE \A s \in Archives : Idle(s)' => Idle(s)
  OBVIOUS
<1>1. Typed /\ SharedExact
  BY DEF ObbIInv
<1>2. CASE UNCHANGED sf
  BY <1>2 DEF Idle, Open
<1>3. ASSUME NEW f \in Files, NEW s \in Archives, NEW h \in Handles, fopen_shared(f, h, s)
      PROVE  \A t \in Archives : Idle(t)' => Idle(t)
  <2> SUFFICES ASSUME NEW t \in Archives, Idle(t)' PROVE Idle(t)
    OBVIOUS
  <2>1. SlotFor(f, s) /\ OpenArchive(f, s, 1)
    BY <1>3 DEF fopen_shared
  <2>2. /\ Open' = Open \cup {s}
        /\ \A u \in Open' : sf'[u].refs = Cardinality(Readers(u)) + (IF u = s THEN 1 ELSE 0)
    BY <1>1, <2>1, ArchiveOpened
  <2>3. t \in Open' /\ sf'[t].refs = 0 /\ Cardinality(Readers(t)) \in Nat
    BY FiniteReaders, FS_CardinalityType DEF Idle
  <2>4. t # s /\ t \in Open /\ Cardinality(Readers(t)) = 0
    BY ONLY <2>2, <2>3
  <2> QED BY <1>1, <2>4 DEF SharedExact, Idle
<1>4. ASSUME NEW h \in Handles, fclose_diag(h)
      PROVE  \A t \in Archives : Idle(t)' => Idle(t)
  <2> SUFFICES ASSUME NEW t \in Archives, Idle(t)' PROVE Idle(t)
    OBVIOUS
  <2>1. PICK s \in Archives : vf[h].sf = s
    BY <1>1, <1>4, HandleFacts DEF fclose_diag, InUse, Open
  <2>2. sf' = IF LastReader(s) THEN [sf EXCEPT ![s] = NoArchive] ELSE [sf EXCEPT ![s].refs = @ - 1]
    BY <1>4, <2>1 DEF fclose_diag
  <2>3. s \in Open /\ sf = [u \in Archives |-> sf[u]]
    BY <1>1, <1>4, <2>1, HandleFacts DEF fclose_diag, InUse, Typed
  <2>4. sf[s] = [file |-> sf[s].file, refs |-> sf[s].refs, idx |-> sf[s].idx] /\ sf[s].refs \in Nat
    BY <1>1, <2>3 DEF Typed
  <2>5. sf'[t] # NoArchive /\ sf'[t].refs = 0
    BY DEF Idle, Open
  <2>6. t # s
    <3>1. CASE LastReader(s)
      BY <2>2, <2>3, <2>5, <3>1
    <3>2. CASE ~LastReader(s)
      <4>1. sf'[s].refs = sf[s].refs - 1
        BY <2>2, <2>3, <2>4, <3>2
      <4> QED BY <2>4, <2>5, <3>2, <4>1 DEF LastReader
    <3> QED BY <3>1, <3>2
  <2>7. sf'[t] = sf[t]
    BY <2>2, <2>3, <2>6
  <2> QED BY <2>5, <2>7 DEF Idle, Open
<1>5. ASSUME NEW h \in Handles, NEW n \in Lens, fread_diag(h, n)
      PROVE  \A t \in Archives : Idle(t)' => Idle(t)
  <2>1. CASE UNCHANGED sf
    BY <1>2, <2>1
  <2>2. CASE ReadCard(h, n)
    <3>1. PICK s \in Open : vf[h].sf = s
      BY <1>1, <1>5, HandleFacts DEF fread_diag, InUse
    <3>2. PICK ix : sf' = [sf EXCEPT ![s].idx = ix]
      BY <2>2, <3>1 DEF ReadCard
    <3>3. sf = [u \in Archives |-> sf[u]]
      BY <1>1 DEF Typed
    <3>4. sf[s] = [file |-> sf[s].file, refs |-> sf[s].refs, idx |-> sf[s].idx] /\ s \in Archives
      BY <1>1, <3>1 DEF Typed, Open
    <3>5. sf'[s].refs = sf[s].refs /\ \A u \in Archives : u # s => sf'[u] = sf[u]
      BY ONLY <3>2, <3>3, <3>4
    <3> QED BY <3>1, <3>5 DEF Idle, Open
  <2> QED BY <1>5, <2>1, <2>2 DEF fread_diag, ReadIndex, ReadRam, ReadFails
<1>6. ASSUME io_obb_mount_done PROVE \A t \in Archives : Idle(t)' => Idle(t)
  <2>1. PICK done : sf' = [s \in Archives |-> IF s \in Open THEN [sf[s] EXCEPT !.idx = done[s].ix] ELSE sf[s]]
    BY <1>6 DEF io_obb_mount_done
  <2>2. PICK idx : idx = [s \in Open |-> done[s].ix]
    OBVIOUS
  <2>3. sf' = [s \in Archives |-> IF s \in Open THEN [sf[s] EXCEPT !.idx = idx[s]] ELSE sf[s]]
    BY <2>1, <2>2
  <2> QED BY <1>1, <2>3, IndexesOnly
<1>7. ASSUME Boot PROVE \A t \in Archives : Idle(t)' => Idle(t)
  BY <1>7 DEF Boot, Idle, Open
<1>10. ASSUME NEW h \in Handles, NEW pos \in Positions, fseek_diag(h, pos) PROVE UNCHANGED sf
  BY <1>10 DEF fseek_diag
<1>11. ASSUME NEW f \in Files, NEW s \in Archives, fopen_outOfHandles(f, s) PROVE FALSE
  BY <1>11 DEF fopen_outOfHandles
<1> QED BY <1>2, <1>3, <1>4, <1>5, <1>6, <1>7, <1>10, <1>11 DEF Next, PowerOff, PowerOffWriting

\* Only an archive that is opened while every virtual handle is taken is left with no
\* reader (fopen_shared, dynlib.c:421).
THEOREM NoneLeftIdle == Spec => IdleOnlyWithoutHandles
<1>1. ObbIInv /\ [Next]_vars => [\A s \in Archives : Idle(s)' => Idle(s) \/ InUse = Handles]_vars
  BY IdleStep
<1> QED BY <1>1, InitHolds, ObbInductive, PTL DEF Spec, IdleOnlyWithoutHandles

-----------------------------------------------------------------------------
(* Every handle reads its archive as if it had it alone.                   *)

Record == [off : Nat, len : Nat, blob : Nat]

\* A record stands for bytes of the archive, all of them in the blob.
Stands(r, blob, f) ==
  /\ r \in Record /\ r.blob + r.len <= Len(blob) /\ r.off + r.len <= FileSize[f]
  /\ \A j \in 1 .. r.len : blob[r.blob + j] = <<f, r.off + j - 1>>

Indexed(rec, blob, f) == \A i \in 1 .. Len(rec) : Stands(rec[i], blob, f)

Indexes == [serving : BOOLEAN, full : BOOLEAN, rec : Seq(Record), blob : Seq(Files \X Nat)]

\* An index file that is taken is one whose bytes are the archive's.
Replays(file, f) ==
  Loads(file, f) => /\ file.rec \in Seq(Record) /\ file.blob \in Seq(Files \X Nat)
                    /\ Indexed(file.rec, file.blob, f)

\* What is replayed, and what a next boot would replay, is what was read.
IndexIInv ==
  /\ \A s \in Open : sf[s].idx \in Indexes /\ Indexed(sf[s].idx.rec, sf[s].idx.blob, sf[s].file)
  /\ card = [f \in Files |-> card[f]]
  /\ \A f \in Files : Replays(card[f], f)

\* The record that is looked at is the last that begins at target or before.
LEMMA LastBefore ==
  ASSUME NEW rec \in Seq(Record), NEW target \in Nat
  PROVE  LET i == rec_find(rec, target)
         IN  /\ i \in 0 .. Len(rec)
             /\ i > 0 => rec[i].off <= target
<1> DEFINE P(i) == /\ i > 0 => rec[i].off <= target
                   /\ \A j \in i + 1 .. Len(rec) : rec[j].off > target
           S == {k \in 0 .. Len(rec) : k = Len(rec) \/ rec[Len(rec) - k].off <= target}
<1>1. Len(rec) \in Nat /\ \A i \in 1 .. Len(rec) : rec[i].off \in Nat
  <2>1. \A i \in 1 .. Len(rec) : rec[i] \in Record
    OBVIOUS
  <2> QED BY <2>1 DEF Record
<1>2. S \in SUBSET Nat /\ Len(rec) \in S
  BY <1>1
<1> HIDE DEF S
<1>3. PICK k \in S : \A y \in S : k <= y
  BY <1>2, LeastExists
<1>4. k \in 0 .. Len(rec) /\ (k = Len(rec) \/ rec[Len(rec) - k].off <= target)
  BY <1>3 DEF S
<1>5. ASSUME NEW j \in (Len(rec) - k) + 1 .. Len(rec) PROVE rec[j].off > target
  <2>1. Len(rec) - j \in 0 .. Len(rec) /\ Len(rec) - j < k /\ Len(rec) - (Len(rec) - j) = j
    BY <1>1, <1>4
  <2>2. Len(rec) - j \notin S
    BY <1>2, <1>3, <2>1
  <2>3. ~(rec[j].off <= target)
    BY <2>1, <2>2 DEF S
  <2>4. rec[j].off \in Nat
    BY <1>1, <1>4
  <2> QED BY <2>3, <2>4
<1>6. Len(rec) - k \in 0 .. Len(rec) /\ P(Len(rec) - k)
  BY <1>1, <1>4, <1>5
<1>7. \E i \in 0 .. Len(rec) : P(i)
  BY <1>6
<1>8. rec_find(rec, target) = CHOOSE i \in 0 .. Len(rec) : P(i)
  BY DEF rec_find
<1> HIDE DEF P
<1>9. rec_find(rec, target) \in 0 .. Len(rec) /\ P(rec_find(rec, target))
  BY <1>7, <1>8
<1> QED BY <1>9 DEF P

\* What the index hands over is what the archive holds there.
LEMMA IndexTellsTrue ==
  ASSUME NEW ix \in Indexes, NEW f \in Files, NEW off \in Nat, NEW n \in Nat \ {0},
         Indexed(ix.rec, ix.blob, f), Serves(ix, off, n)
  PROVE  ServedBytes(ix, off, n) = sceIoPread(f, off, n) /\ off + n <= FileSize[f]
<1> DEFINE i == rec_find(ix.rec, off)
           r == ix.rec[i]
<1>1. i \in 1 .. Len(ix.rec) /\ r.off <= off /\ off - r.off + n <= r.len
  <2>1. ix.rec \in Seq(Record) /\ Len(ix.rec) \in Nat /\ i > 0 /\ off - r.off + n <= r.len
    BY DEF Serves, Indexes
  <2>2. i \in 0 .. Len(ix.rec) /\ (i > 0 => r.off <= off)
    BY <2>1, LastBefore
  <2> HIDE DEF i, r
  <2> QED BY <2>1, <2>2
<1>2. Stands(r, ix.blob, f)
  BY <1>1 DEF Indexed
<1>3. ServedBytes(ix, off, n) = SubSeq(ix.blob, r.blob + off - r.off + 1, r.blob + off - r.off + n)
  BY DEF ServedBytes
<1>4. PICK rr \in Record : rr = r
  BY <1>2 DEF Stands
<1> HIDE DEF r, i
<1>5. /\ rr.off \in Nat /\ rr.len \in Nat /\ rr.blob \in Nat /\ rr.off <= off /\ off - rr.off + n <= rr.len
      /\ rr.blob + rr.len <= Len(ix.blob) /\ rr.off + rr.len <= FileSize[f] /\ FileSize[f] \in Nat
      /\ \A j \in 1 .. rr.len : ix.blob[rr.blob + j] = <<f, rr.off + j - 1>>
      /\ ix.blob \in Seq(Files \X Nat)
  BY <1>1, <1>2, <1>4, ObbAssumption DEF Record, Stands, Indexes
<1>a. PICK a \in Nat, l \in Nat, b \in Nat, m \in Nat, z \in Nat :
        a = rr.off /\ l = rr.len /\ b = rr.blob /\ m = Len(ix.blob) /\ z = FileSize[f]
  <2>1. rr.off \in Nat /\ rr.len \in Nat /\ rr.blob \in Nat /\ Len(ix.blob) \in Nat /\ FileSize[f] \in Nat
    BY <1>5
  <2> QED BY ONLY <2>1
<1>b. a <= off /\ off - a + n <= l /\ b + l <= m /\ a + l <= z
  BY <1>5, <1>a
<1>c. b + off - a \in Nat /\ b + off - a + n <= m /\ off + n <= z
  BY ONLY <1>b, a \in Nat, l \in Nat, b \in Nat, m \in Nat, z \in Nat, off \in Nat, n \in Nat \ {0}
<1> DEFINE lo == rr.blob + off - rr.off
<1>6. /\ lo \in Nat /\ lo + n <= Len(ix.blob) /\ Len(ix.blob) \in Nat
  BY <1>a, <1>c
<1>7. SubSeq(ix.blob, lo + 1, lo + n) = [k \in 1 .. n |-> ix.blob[lo + k]]
  <2> HIDE DEF lo
  <2> DEFINE q == SubSeq(ix.blob, lo + 1, lo + n)
  <2>1. \A k \in lo + 1 .. lo + n : ix.blob[k] \in Files \X Nat
    BY <1>5, <1>6
  <2>2. q \in Seq(Files \X Nat) /\ Len(q) = n /\ \A k \in 1 .. n : q[k] = ix.blob[lo + k]
    BY <1>6, <2>1, SubSeqProperties
  <2> HIDE DEF q
  <2>3. q = [k \in 1 .. Len(q) |-> q[k]]
    BY <2>2
  <2>4. q = [k \in 1 .. n |-> ix.blob[lo + k]]
    BY <2>2, <2>3
  <2> QED BY <2>4 DEF q
<1>8. \A k \in 1 .. n : ix.blob[lo + k] = <<f, off + k - 1>>
  <2> TAKE k \in 1 .. n
  <2>1. off - a + k \in 1 .. l /\ (b + off - a) + k = b + (off - a + k) /\ a + (off - a + k) - 1 = off + k - 1
    BY ONLY <1>b, a \in Nat, l \in Nat, b \in Nat, off \in Nat, n \in Nat \ {0}, k \in 1 .. n
  <2>2. ix.blob[b + (off - a + k)] = <<f, a + (off - a + k) - 1>>
    BY <1>5, <1>a, <2>1
  <2>3. lo = b + off - a
    BY <1>a
  <2> QED BY <2>1, <2>2, <2>3
<1>9. ServedBytes(ix, off, n) = sceIoPread(f, off, n)
  BY <1>3, <1>4, <1>7, <1>8 DEF sceIoPread
<1>10. off + n <= FileSize[f]
  BY <1>a, <1>c
<1> QED BY <1>9, <1>10

LEMMA Opens_index ==
  ASSUME IndexIInv, NEW f \in Files
  PROVE  obbidx_open(f) \in Indexes /\ Indexed(obbidx_open(f).rec, obbidx_open(f).blob, f)
<1>1. CASE FileSize[f] = 0
  BY <1>1 DEF obbidx_open, NoIndex, Indexes, Indexed
<1>2. CASE FileSize[f] # 0 /\ ~Loads(card[f], f)
  BY <1>2 DEF obbidx_open, Indexes, Indexed
<1>3. CASE FileSize[f] # 0 /\ Loads(card[f], f)
  <2>1. /\ card[f].rec \in Seq(Record) /\ card[f].blob \in Seq(Files \X Nat)
        /\ Indexed(card[f].rec, card[f].blob, f)
    BY <1>3 DEF IndexIInv, Replays
  <2> QED BY <1>3, <2>1 DEF obbidx_open, Indexes
<1> QED BY <1>1, <1>2, <1>3

\* A record of what was just read stands for it, and the others for what they did.
LEMMA Records ==
  ASSUME NEW ix \in Indexes, NEW f \in Files, NEW off \in Nat, NEW m \in Nat, off + m <= FileSize[f] \/ m = 0,
         Indexed(ix.rec, ix.blob, f)
  PROVE  LET x == obbidx_record(ix, off, sceIoPread(f, off, m))
         IN  x \in Indexes /\ Indexed(x.rec, x.blob, f)
<1> DEFINE src == sceIoPread(f, off, m)
           x == obbidx_record(ix, off, src)
           new_rec == [off |-> off, len |-> Len(src), blob |-> Len(ix.blob)]
<1>1. src \in Seq(Files \X Nat) /\ Len(src) = m /\ \A j \in 1 .. m : src[j] = <<f, off + j - 1>>
  BY DEF sceIoPread
<1>2. /\ ix.rec \in Seq(Record) /\ ix.blob \in Seq(Files \X Nat) /\ Len(ix.blob) \in Nat /\ Len(ix.rec) \in Nat
  BY DEF Indexes
<1> HIDE DEF src
<1>3. CASE x = ix
  BY <1>3 DEF src
<1>4. CASE x = [ix EXCEPT !.full = TRUE]
  <2>1. x \in Indexes /\ x.rec = ix.rec /\ x.blob = ix.blob
    BY ONLY <1>4, ix \in Indexes DEF Indexes
  <2> QED BY <2>1 DEF src
<1>5. CASE x = [ix EXCEPT !.rec = Append(ix.rec, new_rec), !.blob = ix.blob \o src] /\ src # <<>>
  <2>1. new_rec \in Record /\ new_rec.off = off /\ new_rec.len = m /\ new_rec.blob = Len(ix.blob)
    BY <1>1, <1>2 DEF Record
  <2> HIDE DEF new_rec
  <2>2. /\ Append(ix.rec, new_rec) \in Seq(Record) /\ Len(Append(ix.rec, new_rec)) = Len(ix.rec) + 1
        /\ \A i \in 1 .. Len(ix.rec) : Append(ix.rec, new_rec)[i] = ix.rec[i]
        /\ Append(ix.rec, new_rec)[Len(ix.rec) + 1] = new_rec
    BY <1>2, <2>1
  <2>3. /\ ix.blob \o src \in Seq(Files \X Nat) /\ Len(ix.blob \o src) = Len(ix.blob) + m
        /\ \A j \in 1 .. Len(ix.blob) : (ix.blob \o src)[j] = ix.blob[j]
        /\ \A j \in 1 .. m : (ix.blob \o src)[Len(ix.blob) + j] = src[j]
    <3>1. PICK s \in Seq(Files \X Nat), z \in Seq(Files \X Nat), a \in Nat : s = ix.blob /\ z = src /\ a = Len(s) /\ Len(z) = m
      BY <1>1, <1>2
    <3>2. /\ s \o z \in Seq(Files \X Nat) /\ Len(s \o z) = a + m
          /\ \A j \in 1 .. a + m : (s \o z)[j] = IF j <= a THEN s[j] ELSE z[j - a]
      <4>1. /\ s \o z \in Seq(Files \X Nat) /\ Len(s \o z) = Len(s) + Len(z)
            /\ \A j \in 1 .. Len(s) + Len(z) : (s \o z)[j] = IF j <= Len(s) THEN s[j] ELSE z[j - Len(s)]
        BY ONLY s \in Seq(Files \X Nat), z \in Seq(Files \X Nat), ConcatProperties, Zenon
      <4> QED BY ONLY <3>1, <4>1
    <3>3. \A j \in 1 .. m : a + j \in 1 .. a + m /\ ~(a + j <= a) /\ (a + j) - a = j
      BY ONLY a \in Nat, m \in Nat
    <3>4. \A j \in 1 .. a : j \in 1 .. a + m /\ j <= a
      BY ONLY a \in Nat, m \in Nat
    <3>5. \A j \in 1 .. a : (s \o z)[j] = s[j]
      BY ONLY <3>2, <3>4
    <3>6. \A j \in 1 .. m : (s \o z)[a + j] = z[j]
      BY ONLY <3>2, <3>3
    <3> QED BY ONLY <3>1, <3>2, <3>5, <3>6
  <2>4. PICK rs, bs : rs = Append(ix.rec, new_rec) /\ bs = ix.blob \o src
    OBVIOUS
  <2>5. x \in Indexes /\ x.rec = rs /\ x.blob = bs
    BY ONLY <1>5, <2>2, <2>3, <2>4, ix \in Indexes DEF Indexes
  <2>6. ASSUME NEW i \in 1 .. Len(ix.rec) PROVE Stands(rs[i], bs, f)
    <3>1. Stands(ix.rec[i], ix.blob, f) /\ rs[i] = ix.rec[i]
      BY <2>2, <2>4 DEF Indexed
    <3>2. PICK r \in Record : r = ix.rec[i]
      BY <3>1 DEF Stands
    <3>3. r.blob \in Nat /\ r.len \in Nat /\ r.blob + r.len <= Len(ix.blob)
      BY <3>1, <3>2 DEF Stands, Record
    <3>4. r.blob + r.len <= Len(bs)
      BY <1>2, <2>3, <2>4, <3>3
    <3>5. \A j \in 1 .. r.len : r.blob + j \in 1 .. Len(ix.blob)
      BY ONLY <1>2, <3>3
    <3>6. \A j \in 1 .. r.len : bs[r.blob + j] = <<f, r.off + j - 1>>
      BY <2>3, <2>4, <3>1, <3>2, <3>5 DEF Stands
    <3> QED BY <3>1, <3>2, <3>4, <3>6 DEF Stands
  <2>7. Stands(new_rec, bs, f)
    <3>1. m # 0 /\ off + m <= FileSize[f]
      BY <1>1, <1>5
    <3>2. \A j \in 1 .. new_rec.len : bs[new_rec.blob + j] = <<f, new_rec.off + j - 1>>
      <4>1. \A j \in 1 .. m : bs[Len(ix.blob) + j] = src[j] /\ src[j] = <<f, off + j - 1>>
        BY ONLY <1>1, <2>3, <2>4
      <4> QED BY ONLY <2>1, <4>1
    <3>3. new_rec \in Record /\ new_rec.blob + new_rec.len <= Len(bs) /\ new_rec.off + new_rec.len <= FileSize[f]
      BY <1>2, <2>1, <2>3, <2>4, <3>1
    <3> QED BY <3>2, <3>3 DEF Stands
  <2>8. \A i \in 1 .. Len(rs) : Stands(rs[i], bs, f)
    <3>1. \A i \in 1 .. Len(rs) : i \in 1 .. Len(ix.rec) \/ i = Len(ix.rec) + 1
      BY <1>2, <2>2, <2>4
    <3> QED BY <2>2, <2>4, <2>6, <2>7, <3>1
  <2>9. Indexed(x.rec, x.blob, f)
    BY <2>5, <2>8 DEF Indexed
  <2> QED BY <2>5, <2>9 DEF src
<1> QED BY <1>3, <1>4, <1>5 DEF obbidx_record

\* Sorted records stand for what they stood for.
LEMMA SortedRecords ==
  ASSUME NEW rec \in Seq(Record), NEW blob, NEW f, Indexed(rec, blob, f), NEW s \in Sorts(rec)
  PROVE  s \in Seq(Record) /\ Indexed(s, blob, f) /\ Len(s) = Len(rec)
<1>1. Len(rec) \in Nat /\ DOMAIN rec = 1 .. Len(rec) /\ \A i \in 1 .. Len(rec) : rec[i] \in Record
  OBVIOUS
<1>2. PICK p \in [DOMAIN rec -> DOMAIN rec] : s = [i \in DOMAIN rec |-> rec[p[i]]]
  BY DEF Sorts
<1>3. \A i \in 1 .. Len(rec) : p[i] \in 1 .. Len(rec)
  BY <1>1, <1>2
<1>4. s = [i \in 1 .. Len(rec) |-> rec[p[i]]]
  BY <1>1, <1>2
<1>5. s \in Seq(Record) /\ Len(s) = Len(rec)
  BY <1>1, <1>3, <1>4
<1>6. \A i \in 1 .. Len(rec) : Stands(s[i], blob, f)
  BY <1>3, <1>4 DEF Indexed
<1> QED BY <1>5, <1>6 DEF Indexed

LEMMA FinishedTellsTrue ==
  ASSUME NEW ix \in Indexes, NEW f, NEW file, Indexed(ix.rec, ix.blob, f), Replays(file, f),
         NEW x \in Finished(ix, file)
  PROVE  x.ix \in Indexes /\ Indexed(x.ix.rec, x.ix.blob, f) /\ Replays(x.file, f)
<1>0. ix.rec \in Seq(Record) /\ ix.blob \in Seq(Files \X Nat)
  BY DEF Indexes
<1>1. CASE x = [ix |-> ix, file |-> file]
  BY <1>1
<1>2. ASSUME NEW s \in Sorts(ix.rec), NEW y, y = [ix EXCEPT !.rec = s], NEW z, z = [y EXCEPT !.full = TRUE],
             x \in {[ix |-> y, file |-> file], [ix |-> z, file |-> Written(y)], [ix |-> z, file |-> NoFile]}
      PROVE  x.ix \in Indexes /\ Indexed(x.ix.rec, x.ix.blob, f) /\ Replays(x.file, f)
  <2>1. s \in Seq(Record) /\ Indexed(s, ix.blob, f)
    BY <1>0, <1>2, SortedRecords
  <2>2. y \in Indexes /\ y.rec = s /\ y.blob = ix.blob
    BY ONLY <1>2, <2>1, ix \in Indexes DEF Indexes
  <2>3. z \in Indexes /\ z.rec = s /\ z.blob = ix.blob
    BY ONLY <1>2, <2>2 DEF Indexes
  <2>4. Replays(Written(y), f)
    BY <1>0, <2>1, <2>2 DEF Replays, Written
  <2>5. Replays(NoFile, f)
    BY DEF Replays, Loads, NoFile
  <2>6. x.ix \in {y, z} /\ x.file \in {file, Written(y), NoFile}
    BY <1>2
  <2> QED BY <2>1, <2>2, <2>3, <2>4, <2>5, <2>6
<1>3. x = [ix |-> ix, file |-> file]
      \/ \E s \in Sorts(ix.rec) : \E y, z :
           /\ y = [ix EXCEPT !.rec = s] /\ z = [y EXCEPT !.full = TRUE]
           /\ x \in {[ix |-> y, file |-> file], [ix |-> z, file |-> Written(y)], [ix |-> z, file |-> NoFile]}
  BY DEF Finished
<1> QED BY <1>1, <1>2, <1>3

\* A file the power cut short is not taken.
LEMMA TornIsRefused ==
  ASSUME NEW ix \in Indexes, NEW f, ix.rec # <<>>, NEW x \in Torn(ix)
  PROVE  ~Loads(x, f)
<1> DEFINE n == Len(ix.rec)
           m == Len(ix.blob)
           moved == [i \in DOMAIN ix.rec |-> [ix.rec[i] EXCEPT !.blob = m]]
<1>1. /\ ix.rec \in Seq(Record) /\ ix.blob \in Seq(Files \X Nat) /\ n \in Nat \ {0} /\ m \in Nat
  BY DEF Indexes
<1>2. \/ x = [nrec |-> n, nblob |-> m, rec |-> <<>>, blob |-> <<>>]
      \/ x = [nrec |-> n, nblob |-> m, rec |-> ix.rec, blob |-> SubSeq(ix.blob, 1, m - 1)]
      \/ x = [nrec |-> n, nblob |-> m, rec |-> moved, blob |-> ix.blob]
  BY DEF Torn, Written
<1>3. CASE x = [nrec |-> n, nblob |-> m, rec |-> <<>>, blob |-> <<>>]
  BY <1>1, <1>3 DEF Loads
<1>4. CASE x = [nrec |-> n, nblob |-> m, rec |-> ix.rec, blob |-> SubSeq(ix.blob, 1, m - 1)]
  <2>1. m > 0 => Len(SubSeq(ix.blob, 1, m - 1)) = m - 1
    BY <1>1
  <2> HIDE DEF m, n
  <2> QED BY <1>1, <1>4, <2>1 DEF Loads
<1>5. CASE x = [nrec |-> n, nblob |-> m, rec |-> moved, blob |-> ix.blob]
  <2> SUFFICES ASSUME Loads(x, f) PROVE FALSE
    OBVIOUS
  <2>1. 1 \in DOMAIN ix.rec /\ ix.rec[1] \in Record
    BY <1>1
  <2>2. moved[1] = [ix.rec[1] EXCEPT !.blob = m]
    BY <2>1
  <2>3. moved[1].blob = m /\ moved[1].len = ix.rec[1].len
    BY ONLY <2>1, <2>2 DEF Record
  <2> HIDE DEF moved, m, n
  <2>4. x.nrec = n /\ x.nblob = m /\ x.rec[1] = moved[1]
    BY <1>5
  <2>5. x.rec[1].len \in 1 .. MaxRange /\ x.rec[1].blob + x.rec[1].len <= m
    BY <1>1, <2>4 DEF Loads, recs_valid
  <2> QED BY <1>1, <2>3, <2>4, <2>5, ObbAssumption
<1> QED BY <1>2, <1>3, <1>4, <1>5

\* An archive as it was before the step.
Same(t) == t \in Open /\ sf'[t].file = sf[t].file /\ sf'[t].idx = sf[t].idx

LEMMA OpenedFacts ==
  ASSUME Typed, NEW f \in Files, NEW s \in Archives, NEW n, SlotFor(f, s), OpenArchive(f, s, n)
  PROVE  /\ \A t \in Open : Same(t)
         /\ sf'[s].file = f
         /\ \A t \in Open' : Same(t) \/ (t = s /\ sf'[t].idx = obbidx_open(f))
<1>1. sf = [t \in Archives |-> sf[t]] /\ Fits(f, s)
  BY DEF Typed, SlotFor
<1>2. CASE Fresh(f)
  <2>1. s \notin Open
    BY <1>1, <1>2 DEF Fits, Open
  <2>2. sf' = [sf EXCEPT ![s] = [file |-> f, refs |-> n, idx |-> obbidx_open(f)]]
    BY <1>2 DEF OpenArchive
  <2>3. sf'[s] = [file |-> f, refs |-> n, idx |-> obbidx_open(f)] /\ \A t \in Archives : t # s => sf'[t] = sf[t]
    BY ONLY <1>1, <2>2, s \in Archives
  <2> QED BY <2>1, <2>3 DEF Open, Same
<1>3. CASE ~Fresh(f)
  <2>1. s \in Open /\ sf[s].file = f
    BY <1>1, <1>3 DEF Fits, Open
  <2>2. sf' = [sf EXCEPT ![s].refs = sf[s].refs + n]
    BY <1>3 DEF OpenArchive
  <2>3. sf'[s] = [sf[s] EXCEPT !.refs = sf[s].refs + n] /\ \A t \in Archives : t # s => sf'[t] = sf[t]
    BY ONLY <1>1, <2>2, s \in Archives
  <2>4. sf[s] = [file |-> sf[s].file, refs |-> sf[s].refs, idx |-> sf[s].idx]
    BY <2>1 DEF Typed
  <2>5. sf'[s].file = sf[s].file /\ sf'[s].idx = sf[s].idx
    BY ONLY <2>3, <2>4
  <2> QED BY <2>1, <2>3, <2>5 DEF Open, Same
<1> QED BY <1>2, <1>3

LEMMA ClosedFacts ==
  ASSUME Typed, NEW h \in Handles, fclose_diag(h)
  PROVE  \A t \in Open' : Same(t)
<1>1. PICK s \in Archives : vf[h].sf = s /\ s \in Open
  BY HandleFacts DEF fclose_diag, InUse, Open
<1>2. sf' = IF LastReader(s) THEN [sf EXCEPT ![s] = NoArchive] ELSE [sf EXCEPT ![s].refs = sf[s].refs - 1]
  BY <1>1 DEF fclose_diag
<1>3. sf = [t \in Archives |-> sf[t]] /\ sf[s] = [file |-> sf[s].file, refs |-> sf[s].refs, idx |-> sf[s].idx]
  BY <1>1 DEF Typed
<1>4. \A t \in Archives : t # s => sf'[t] = sf[t]
  BY <1>2, <1>3
<1>5. CASE LastReader(s)
  <2>1. s \notin Open'
    BY <1>2, <1>3, <1>5 DEF Open
  <2> QED BY <1>4, <2>1 DEF Open, Same
<1>6. CASE ~LastReader(s)
  <2>1. sf'[s] = [sf[s] EXCEPT !.refs = sf[s].refs - 1]
    BY <1>2, <1>3, <1>6
  <2>2. sf'[s].file = sf[s].file /\ sf'[s].idx = sf[s].idx
    BY ONLY <1>3, <2>1
  <2> QED BY <1>1, <1>4, <2>2 DEF Open, Same
<1> QED BY <1>5, <1>6

\* Steps after which every archive has the index it had, or one just opened.
LEMMA IndexKept ==
  ASSUME IndexIInv, UNCHANGED card,
         \A t \in Open' : \/ Same(t)
                          \/ sf'[t].file \in Files /\ sf'[t].idx = obbidx_open(sf'[t].file)
  PROVE  IndexIInv'
<1>1. \A t \in Open' : sf'[t].idx \in Indexes /\ Indexed(sf'[t].idx.rec, sf'[t].idx.blob, sf'[t].file)
  BY Opens_index DEF IndexIInv, Same
<1>2. \A f \in Files : Replays(card[f], f)'
  BY DEF IndexIInv, Replays, Loads, recs_valid, Indexed, Stands
<1> QED BY <1>1, <1>2 DEF IndexIInv, Indexed, Stands

\* A read changes of the archives one index, by what was read.
LEMMA ReadFacts ==
  ASSUME ObbIInv, IndexIInv, NEW h \in Handles, NEW n \in Lens, fread_diag(h, n)
  PROVE  /\ IndexIInv'
         /\ \A t \in Open : sf'[t].file = sf[t].file
<1>0. Typed /\ h \in InUse /\ n \in Nat \ {0}
  BY ObbAssumption DEF ObbIInv, fread_diag, InUse
<1>1. PICK s \in Open : vf[h].sf = s
  BY <1>0, HandleFacts
<1>2. CASE UNCHANGED <<sf, card>>
  <2>1. Open' = Open /\ \A t \in Open : Same(t)
    BY <1>2 DEF Open, Same
  <2> QED BY <1>2, <2>1, IndexKept DEF Same
<1>3. CASE ReadCard(h, n)
  <2> DEFINE f == sf[s].file
             m == ReadSize(f, vf[h].pos, n)
             x == obbidx_record(sf[s].idx, vf[h].pos, sceIoPread(f, vf[h].pos, m))
  <2>1. UNCHANGED card /\ sf' = [sf EXCEPT ![s].idx = x]
    BY <1>1, <1>3 DEF ReadCard, Served
  <2>2. /\ vf[h].pos \in Nat /\ s \in Archives /\ f \in Files /\ FileSize[f] \in Nat
        /\ sf[s].idx \in Indexes /\ Indexed(sf[s].idx.rec, sf[s].idx.blob, f)
    BY <1>0, <1>1, HandleFacts, ObbAssumption DEF Open, Typed, IndexIInv
  <2>3. m \in Nat /\ (vf[h].pos + m <= FileSize[f] \/ m = 0)
    BY <1>0, <2>2 DEF ReadSize, Left
  <2> HIDE DEF m, f
  <2>4. x \in Indexes /\ Indexed(x.rec, x.blob, f)
    BY <2>2, <2>3, Records
  <2> HIDE DEF x
  <2>5. sf = [t \in Archives |-> sf[t]] /\ sf[s] = [file |-> f, refs |-> sf[s].refs, idx |-> sf[s].idx]
    BY <1>0 DEF Typed, f
  <2>6. sf'[s] = [sf[s] EXCEPT !.idx = x] /\ \A t \in Archives : t # s => sf'[t] = sf[t]
    BY ONLY <2>1, <2>2, <2>5
  <2>7. sf'[s] = [file |-> f, refs |-> sf[s].refs, idx |-> x]
    BY ONLY <2>5, <2>6
  <2>8. \A t \in Open : t # s => Same(t)
    BY <2>6 DEF Open, Same
  <2>9. s \in Open' /\ Open' = Open
    BY <2>6, <2>7 DEF Open, NoArchive
  <2>10. \A t \in Open' : sf'[t].idx \in Indexes /\ Indexed(sf'[t].idx.rec, sf'[t].idx.blob, sf'[t].file)
    BY <2>4, <2>7, <2>8, <2>9 DEF IndexIInv, Same
  <2>11. IndexIInv'
    BY <2>1, <2>10 DEF IndexIInv, Indexed, Stands, Replays, Loads, recs_valid
  <2> QED BY <2>7, <2>8, <2>11 DEF Same, f
<1> QED BY <1>2, <1>3 DEF fread_diag, ReadIndex, ReadRam, ReadFails, Served

LEMMA MountFacts ==
  ASSUME ObbIInv, IndexIInv, io_obb_mount_done
  PROVE  IndexIInv' /\ Open' = Open /\ \A t \in Open : sf'[t].file = sf[t].file
<1>0. Typed /\ SharedExact
  BY DEF ObbIInv
<1>1. PICK done :
        /\ \A s \in Open : done[s] \in Finished(sf[s].idx, card[sf[s].file])
        /\ sf' = [s \in Archives |-> IF s \in Open THEN [sf[s] EXCEPT !.idx = done[s].ix] ELSE sf[s]]
        /\ card' = [f \in Files |-> IF Fresh(f) THEN card[f] ELSE done[CHOOSE s \in Open : SlotFor(f, s)].file]
  BY DEF io_obb_mount_done
<1>2. ASSUME NEW s \in Open
      PROVE  /\ sf'[s].file = sf[s].file /\ sf'[s].idx = done[s].ix
             /\ s \in Open'
             /\ done[s].ix \in Indexes /\ Indexed(done[s].ix.rec, done[s].ix.blob, sf[s].file)
             /\ Replays(done[s].file, sf[s].file)
  <2>1. /\ sf[s] = [file |-> sf[s].file, refs |-> sf[s].refs, idx |-> sf[s].idx] /\ s \in Archives
        /\ sf[s].file \in Files
    BY <1>0 DEF Typed, Open
  <2>2. sf'[s] = [sf[s] EXCEPT !.idx = done[s].ix]
    BY <1>1, <2>1
  <2>3. sf'[s] = [file |-> sf[s].file, refs |-> sf[s].refs, idx |-> done[s].ix]
    BY ONLY <2>1, <2>2
  <2>4. s \in Open'
    BY <2>1, <2>3 DEF Open, NoArchive
  <2>5. done[s] \in Finished(sf[s].idx, card[sf[s].file])
    BY <1>1
  <2>6. /\ sf[s].idx \in Indexes /\ Indexed(sf[s].idx.rec, sf[s].idx.blob, sf[s].file)
        /\ Replays(card[sf[s].file], sf[s].file)
    BY <2>1 DEF IndexIInv
  <2>7. sf'[s].file = sf[s].file /\ sf'[s].idx = done[s].ix
    BY ONLY <2>3
  <2> QED BY <2>4, <2>5, <2>6, <2>7, FinishedTellsTrue
<1>3. Open' = Open
  <2>1. \A s \in Archives \ Open : sf'[s] = sf[s]
    BY <1>1
  <2> QED BY <1>2, <2>1 DEF Open
<1>4. ASSUME NEW f \in Files PROVE Replays(card'[f], f)
  <2>1. CASE Fresh(f)
    BY <1>1, <2>1 DEF IndexIInv
  <2>2. CASE ~Fresh(f)
    <3>1. PICK s \in Open : sf[s].file = f
      BY <2>2 DEF Fresh
    <3>2. SlotFor(f, s)
      <4>1. s \in Archives /\ \A t \in 1 .. s - 1 : t \in Archives /\ t # s
        BY ObbAssumption DEF Open, Archives
      <4>2. \A t \in Archives : t # s => ~Fits(f, t)
        BY <1>0, <2>2, <3>1 DEF Fits, SharedExact, Open
      <4> QED BY <2>2, <3>1, <4>1, <4>2 DEF SlotFor, Fits, Open
    <3>3. PICK t \in Open : t = (CHOOSE u \in Open : SlotFor(f, u)) /\ SlotFor(f, t)
      BY <3>2
    <3>4. sf[t].file = f
      BY <2>2, <3>3 DEF SlotFor, Fits
    <3>5. card'[f] = done[t].file
      BY <1>1, <2>2, <3>3
    <3> QED BY <1>2, <3>4, <3>5
  <2> QED BY <2>1, <2>2
<1>5. \A t \in Open' : sf'[t].idx \in Indexes /\ Indexed(sf'[t].idx.rec, sf'[t].idx.blob, sf'[t].file)
  <2> SUFFICES ASSUME NEW t \in Open PROVE sf'[t].idx \in Indexes /\ Indexed(sf'[t].idx.rec, sf'[t].idx.blob, sf'[t].file)
    BY <1>3
  <2>1. sf'[t].idx = done[t].ix /\ sf'[t].file = sf[t].file
    BY <1>2
  <2> QED BY <1>2, <2>1
<1>6. IndexIInv'
  <2>1. card' = [f \in Files |-> card'[f]]
    BY <1>1
  <2> QED BY <1>4, <1>5, <2>1 DEF IndexIInv, Indexed, Stands, Replays, Loads, recs_valid
<1>7. \A t \in Open : sf'[t].file = sf[t].file
  BY <1>2
<1> QED BY <1>3, <1>6, <1>7

LEMMA BootFacts ==
  ASSUME IndexIInv, Boot, UNCHANGED card \/ \E s \in Open : PowerOffWriting(s), Typed
  PROVE  IndexIInv' /\ Open' = {}
<1>1. Open' = {}
  BY DEF Boot, Open
<1>2. CASE UNCHANGED card
  BY <1>1, <1>2, IndexKept
<1>3. ASSUME NEW s \in Open, PowerOffWriting(s) PROVE IndexIInv'
  <2>1. sf[s].idx \in Indexes /\ sf[s].idx.rec # <<>>
    BY <1>3 DEF IndexIInv, PowerOffWriting
  <2>2. PICK x \in Torn(sf[s].idx) : card' = [card EXCEPT ![sf[s].file] = IF Loads(x, sf[s].file) THEN x ELSE NoFile]
    BY <1>3 DEF PowerOffWriting
  <2>3. card' = [card EXCEPT ![sf[s].file] = NoFile]
    BY <2>1, <2>2, TornIsRefused
  <2>4. card = [f \in Files |-> card[f]]
    BY DEF IndexIInv
  <2>5. card' = [f \in Files |-> card'[f]] /\ \A f \in Files : card'[f] \in {card[f], NoFile}
    BY ONLY <2>3, <2>4
  <2>6. \A f \in Files : Replays(NoFile, f)
    BY DEF Replays, Loads, NoFile
  <2>7. \A f \in Files : Replays(card'[f], f)
    BY <2>5, <2>6 DEF IndexIInv
  <2> QED BY <1>1, <2>5, <2>7 DEF IndexIInv, Replays, Loads, recs_valid, Indexed, Stands
<1> QED BY <1>1, <1>2, <1>3

\* An entry of the ring is a range that lies in its archive.
Within(k) == k.off + k.len <= FileSize[k.file]
RingWithin == \A i \in Used(ent) : Within(ent[i].key)

LEMMA InsertWithin ==
  ASSUME NEW e \in [Slots -> Entry], NEW k, NEW src, Within(k), Insert(e, k, src),
         \A i \in Used(e) : Within(e[i].key)
  PROVE  RingWithin'
<1> DEFINE r == Reserved(e, Place(k.len), k.len)
           v == [used |-> TRUE, key |-> k, at |-> Place(k.len), seq |-> seq + 1]
<1>1. PICK i \in Slots : ent' = [r EXCEPT ![i] = v]
  BY DEF Insert
<1>2. r = [j \in Slots |-> r[j]] /\ \A j \in Slots : r[j] = Unused \/ r[j] = e[j]
  BY DEF Reserved
<1> HIDE DEF r
<1>3. ent'[i] = v /\ \A j \in Slots : j # i => ent'[j] = r[j]
  BY ONLY <1>1, <1>2, i \in Slots
<1>4. ent'[i].key = k
  BY <1>3
<1> SUFFICES ASSUME NEW j \in Slots, ent'[j].used PROVE Within(ent'[j].key)
  BY DEF RingWithin, Used, Within
<1>5. CASE j = i
  BY <1>4, <1>5
<1>6. CASE j # i
  BY <1>2, <1>3, <1>6 DEF Used, Unused
<1> QED BY <1>5, <1>6

LEMMA ReadWithin ==
  ASSUME ObbIInv, RingWithin, NEW h \in Handles, NEW n \in Lens, fread_diag(h, n)
  PROVE  RingWithin'
<1>0. Typed /\ ent \in [Slots -> Entry] /\ h \in InUse /\ n \in Nat \ {0}
  BY ObbAssumption DEF ObbIInv, RingTypeOK, fread_diag, InUse
<1>1. CASE UNCHANGED ram
  BY <1>1 DEF ram, RingWithin, Used, Within
<1>2. ASSUME NEW i \in Slots, i \in Used(ent), Get(i) PROVE RingWithin'
  <2>1. CASE Old(ent[i])
    <3> DEFINE e == [ent EXCEPT ![i] = Unused]
    <3>1. Insert(e, ent[i].key, Held(ent[i]))
      BY <1>2, <2>1 DEF Get
    <3>2. e \in [Slots -> Entry]
      BY <1>0 DEF Entry
    <3>3. \A j \in Used(e) : j \in Used(ent) /\ e[j] = ent[j]
      BY <1>0 DEF Used, Unused
    <3> HIDE DEF e
    <3>4. Within(ent[i].key) /\ \A j \in Used(e) : Within(e[j].key)
      BY <1>2, <3>3 DEF RingWithin
    <3>5. PICK k, src : k = ent[i].key /\ src = Held(ent[i])
      OBVIOUS
    <3>6. Within(k) /\ Insert(e, k, src)
      BY <3>1, <3>4, <3>5
    <3> QED BY <3>2, <3>4, <3>6, InsertWithin
  <2>2. CASE ~Old(ent[i])
    BY <1>1, <1>2, <2>2 DEF Get
  <2> QED BY <2>1, <2>2
<1>3. CASE ReadRam(h, n)
  <2>1. PICK i \in Slots : find(KeyAt(h, n), i) /\ Get(i)
    BY <1>3 DEF ReadRam
  <2> QED BY <1>2, <2>1 DEF find, Hits
<1>4. CASE ReadCard(h, n)
  <2> DEFINE f == sf[vf[h].sf].file
             m == ReadSize(f, vf[h].pos, n)
  <2>1. IF m = n /\ n \in Band THEN Put(KeyAt(h, n), sceIoPread(f, vf[h].pos, m)) ELSE UNCHANGED ram
    BY <1>4 DEF ReadCard
  <2>2. CASE m = n /\ Insert(ent, KeyAt(h, n), sceIoPread(f, vf[h].pos, m))
    <3>1. f \in Files /\ vf[h].pos \in Nat /\ FileSize[f] \in Nat
      BY <1>0, HandleFacts, ObbAssumption DEF Typed
    <3>2. vf[h].pos + n <= FileSize[f]
      <4> HIDE DEF f
      <4> QED BY <1>0, <2>2, <3>1 DEF ReadSize, Left
    <3>3. Within(KeyAt(h, n))
      BY <3>2 DEF Within, KeyAt
    <3> HIDE DEF f, m
    <3>4. PICK k, src : k = KeyAt(h, n) /\ src = sceIoPread(f, vf[h].pos, m)
      OBVIOUS
    <3>5. Within(k) /\ Insert(ent, k, src)
      BY <2>2, <3>3, <3>4
    <3> QED BY <1>0, <3>5, InsertWithin DEF RingWithin
  <2>3. CASE UNCHANGED ram
    BY <1>1, <2>3
  <2> QED BY <2>1, <2>2, <2>3 DEF Put
<1> QED BY <1>1, <1>3, <1>4 DEF fread_diag, ReadIndex, ReadFails

\* What the game sees of a handle.
View(h) ==
  IF vf[h] = Free THEN [file |-> "closed"]
  ELSE [file |-> sf[vf[h].sf].file, pos |-> vf[h].pos, eof |-> vf[h].eof]
Views == [h \in Handles |-> View(h)]

\* The bytes of an archive from pos on, up to n of them.
LEMMA BytesThere ==
  ASSUME NEW f \in Files, NEW pos \in Nat, NEW n \in Nat
  PROVE  Stdio!Bytes(f, pos, n) = sceIoPread(f, pos, ReadSize(f, pos, n)) /\ ReadSize(f, pos, n) \in Nat
<1> DEFINE end == IF pos + n <= FileSize[f] THEN pos + n ELSE FileSize[f]
           m == ReadSize(f, pos, n)
<1>1. FileSize[f] \in Nat
  BY ObbAssumption
<1>2. PICK z \in Nat : z = FileSize[f]
  BY <1>1
<1>3. m = IF n <= (IF pos < z THEN z - pos ELSE 0) THEN n ELSE (IF pos < z THEN z - pos ELSE 0)
  BY <1>2 DEF ReadSize, Left
<1>4. end = IF pos + n <= z THEN pos + n ELSE z
  BY <1>2
<1> HIDE DEF end, m
<1>5. m \in Nat /\ end \in Int /\ \A i \in Int : (1 <= i /\ i <= end - pos) <=> (1 <= i /\ i <= m)
  BY ONLY <1>3, <1>4, pos \in Nat, n \in Nat, z \in Nat
<1>6. 1 .. (end - pos) = 1 .. m
  <2>1. \A i : i \in 1 .. (end - pos) <=> i \in 1 .. m
    BY ONLY <1>5, pos \in Nat
  <2> QED BY ONLY <2>1
<1>7. Stdio!Bytes(f, pos, n) = [i \in 1 .. (end - pos) |-> <<f, pos + i - 1>>]
  BY DEF Stdio!Bytes, end
<1> QED BY <1>5, <1>6, <1>7 DEF sceIoPread, m

LEMMA WholeRead ==
  ASSUME NEW f \in Files, NEW pos \in Nat, NEW n \in Nat, pos + n <= FileSize[f]
  PROVE  ReadSize(f, pos, n) = n
<1>1. FileSize[f] \in Nat
  BY ObbAssumption
<1> QED BY <1>1 DEF ReadSize, Left

\* What a read hands over, and where it leaves its handle.
LEMMA ReadHandsOver ==
  ASSUME ObbIInv, IndexIInv, RingWithin, NEW h \in Handles, NEW n \in Lens, fread_diag(h, n), ~ReadFails(h, n)
  PROVE  LET f == sf[vf[h].sf].file
             m == ReadSize(f, vf[h].pos, n)
         IN  Served(h, n, m, sceIoPread(f, vf[h].pos, m))
<1> DEFINE f == sf[vf[h].sf].file
           p == vf[h].pos
           m == ReadSize(f, p, n)
<1>0. Typed /\ RingIntact /\ h \in InUse /\ n \in Nat \ {0}
  BY ObbAssumption DEF ObbIInv, fread_diag, InUse
<1>1. /\ vf[h].sf \in Open /\ p \in Nat /\ f \in Files
      /\ sf[vf[h].sf].idx \in Indexes /\ Indexed(sf[vf[h].sf].idx.rec, sf[vf[h].sf].idx.blob, f)
  BY <1>0, HandleFacts DEF Typed, IndexIInv
<1>2. CASE ReadIndex(h, n)
  <2>1. PICK ix \in Indexes : ix = sf[vf[h].sf].idx
    BY <1>1
  <2>2. Serves(ix, p, n) /\ Served(h, n, n, ServedBytes(ix, p, n))
    BY <1>2, <2>1 DEF ReadIndex
  <2> HIDE DEF f, p
  <2>3. ServedBytes(ix, p, n) = sceIoPread(f, p, n) /\ p + n <= FileSize[f]
    BY <1>0, <1>1, <2>1, <2>2, IndexTellsTrue
  <2>4. m = n
    BY <1>0, <1>1, <2>3, WholeRead
  <2> QED BY <2>2, <2>3, <2>4 DEF f, p
<1>3. CASE ReadRam(h, n)
  <2>1. PICK i \in Slots : find(KeyAt(h, n), i) /\ Served(h, n, n, Held(ent[i]))
    BY <1>3 DEF ReadRam
  <2>2. ent[i].used /\ ent[i].key = KeyAt(h, n)
    BY <2>1 DEF find, Hits, Used
  <2>3. Held(ent[i]) = Content(KeyAt(h, n)) /\ Within(KeyAt(h, n))
    BY <1>0, <2>2 DEF RingIntact, RingWithin, Used
  <2>4. Held(ent[i]) = sceIoPread(f, p, n) /\ p + n <= FileSize[f]
    BY <2>3 DEF Content, sceIoPread, KeyAt, Within
  <2> HIDE DEF f, p
  <2>5. m = n
    BY <1>0, <1>1, <2>4, WholeRead
  <2> QED BY <2>1, <2>4, <2>5 DEF f, p
<1>4. CASE ReadCard(h, n)
  BY <1>4 DEF ReadCard
<1> QED BY <1>2, <1>3, <1>4 DEF fread_diag

\* A step about one handle, which leaves the archives of the others as they are.
LEMMA OneView ==
  ASSUME Typed, NEW h \in Handles, NEW v, vf' = [vf EXCEPT ![h] = v],
         \A g \in InUse : g # h => sf'[vf[g].sf].file = sf[vf[g].sf].file
  PROVE  Views' = [Views EXCEPT ![h] = View(h)'] /\ vf'[h] = v
<1>1. vf = [g \in Handles |-> vf[g]]
  BY DEF Typed
<1>2. vf'[h] = v /\ \A g \in Handles : g # h => vf'[g] = vf[g]
  BY ONLY <1>1, vf' = [vf EXCEPT ![h] = v], h \in Handles
<1>3. \A g \in Handles : g # h => View(g)' = View(g)
  BY <1>2 DEF View, InUse
<1>4. Views' = [g \in Handles |-> View(g)'] /\ Views = [g \in Handles |-> View(g)]
  BY DEF Views
<1>5. Views' = [Views EXCEPT ![h] = View(h)']
  BY ONLY <1>3, <1>4, h \in Handles
<1> QED BY <1>2, <1>5

LEMMA NoView ==
  ASSUME Typed, vf' = vf, \A g \in InUse : sf'[vf[g].sf].file = sf[vf[g].sf].file
  PROVE  Views' = Views
<1>1. \A g \in Handles : View(g)' = View(g)
  BY DEF View, InUse
<1> QED BY <1>1 DEF Views

\* The handles one by one, in the words of StdioFiles.
LEMMA ViewFacts ==
  ASSUME Typed, NEW h \in Handles
  PROVE  /\ Views[h] = View(h)
         /\ vf[h] = Free <=> View(h) = [file |-> "closed"]
         /\ vf[h] # Free => View(h) = [file |-> sf[vf[h].sf].file, pos |-> vf[h].pos, eof |-> vf[h].eof]
BY DEF Views, View

LEMMA Ended ==
  ASSUME NEW u, NEW f, NEW p, NEW e, u = [file |-> f, pos |-> p, eof |-> e], NEW x, x = [u EXCEPT !.eof = TRUE]
  PROVE  x = [file |-> f, pos |-> p, eof |-> TRUE]
OBVIOUS

LEMMA MovedOn ==
  ASSUME NEW u, NEW f, NEW p, NEW e, u = [file |-> f, pos |-> p, eof |-> e], NEW q, NEW z, NEW x,
         x = [u EXCEPT !.pos = q, !.eof = z]
  PROVE  x = [file |-> f, pos |-> q, eof |-> z]
OBVIOUS

LEMMA ReadIsRead ==
  ASSUME ObbIInv, IndexIInv, RingWithin, NEW h \in Handles, NEW n \in Lens, fread_diag(h, n)
  PROVE  Stdio!Next
<1>0. Typed /\ h \in InUse /\ vf[h] # Free /\ n \in Nat \ {0} /\ \A t \in Open : sf'[t].file = sf[t].file
  BY ObbAssumption, ReadFacts DEF ObbIInv, fread_diag, InUse
<1>a. PICK f \in Files, p \in Nat, e \in BOOLEAN, s \in Open :
        f = sf[vf[h].sf].file /\ p = vf[h].pos /\ e = vf[h].eof /\ s = vf[h].sf /\ vf[h] = [sf |-> s, pos |-> p, eof |-> e]
  <2>1. vf[h].sf \in Open /\ vf[h].pos \in Nat /\ sf[vf[h].sf].file \in Files
    BY <1>0, HandleFacts DEF Typed
  <2>2. vf[h].eof \in BOOLEAN
    BY <1>0 DEF Typed
  <2>3. vf[h] = [sf |-> vf[h].sf, pos |-> vf[h].pos, eof |-> vf[h].eof]
    BY <1>0, HandleFacts
  <2> QED BY ONLY <2>1, <2>2, <2>3
<1>b. vf = [g \in Handles |-> vf[g]]
  BY <1>0 DEF Typed
<1>d. Views = [g \in Handles |-> Views[g]]
  BY DEF Views
<1>e. ASSUME NEW q \in Nat, NEW z \in BOOLEAN, vf'[h] = [sf |-> s, pos |-> q, eof |-> z]
      PROVE  View(h)' = [file |-> f, pos |-> q, eof |-> z]
  <2>1. vf'[h] # Free /\ vf'[h].sf = s /\ vf'[h].pos = q /\ vf'[h].eof = z
    BY <1>e DEF Free
  <2>2. sf'[s].file = f
    BY <1>0, <1>a
  <2> QED BY <2>1, <2>2 DEF View
<1>f. ASSUME NEW v, vf' = [vf EXCEPT ![h] = v] PROVE Views' = [Views EXCEPT ![h] = View(h)'] /\ vf'[h] = v
  BY <1>0, <1>f, HandleFacts, OneView
<1>c. Views[h] = [file |-> f, pos |-> p, eof |-> e] /\ Views[h] # [file |-> "closed"]
  <2>1. Views[h] = [file |-> f, pos |-> p, eof |-> e]
    BY <1>0, <1>a, ViewFacts
  <2> QED BY <2>1
<1>1. CASE ReadFails(h, n)
  <2>1. vf' = [vf EXCEPT ![h].eof = TRUE] /\ got' = <<>>
    BY <1>1 DEF ReadFails, Quiet
  <2>2. vf' = [vf EXCEPT ![h] = [sf |-> s, pos |-> p, eof |-> TRUE]]
    <3>1. vf'[h] = [sf |-> s, pos |-> p, eof |-> TRUE]
      BY ONLY <1>a, <1>b, <2>1, h \in Handles
    <3>2. vf' = [vf EXCEPT ![h] = vf'[h]]
      BY ONLY <1>b, <2>1, h \in Handles
    <3> QED BY ONLY <3>1, <3>2
  <2>3. Views' = [Views EXCEPT ![h] = View(h)'] /\ vf'[h] = [sf |-> s, pos |-> p, eof |-> TRUE]
    BY <1>f, <2>2
  <2>4. View(h)' = [file |-> f, pos |-> p, eof |-> TRUE]
    BY <1>e, <2>3
  <2>5. Views' = [Views EXCEPT ![h].eof = TRUE]
    <3>1. [Views EXCEPT ![h].eof = TRUE] = [Views EXCEPT ![h] = [Views[h] EXCEPT !.eof = TRUE]]
      BY ONLY <1>d, h \in Handles
    <3>2. [Views[h] EXCEPT !.eof = TRUE] = [file |-> f, pos |-> p, eof |-> TRUE]
      <4>1. PICK x : x = [Views[h] EXCEPT !.eof = TRUE]
        OBVIOUS
      <4>2. x = [file |-> f, pos |-> p, eof |-> TRUE]
        BY ONLY <1>c, <4>1, Ended
      <4> QED BY ONLY <4>1, <4>2
    <3> QED BY ONLY <2>3, <2>4, <3>1, <3>2
  <2> QED BY <1>c, <2>1, <2>5 DEF Stdio!Next, Stdio!ReadError, Stdio!Closed, Views, View
<1>2. CASE ~ReadFails(h, n)
  <2> DEFINE m == ReadSize(f, p, n)
             bytes == sceIoPread(f, p, m)
  <2>1. Served(h, n, m, bytes)
    BY <1>2, <1>a, ReadHandsOver
  <2>2. m \in Nat /\ bytes = Stdio!Bytes(f, p, n) /\ Len(bytes) = m
    <3>1. m \in Nat /\ bytes = Stdio!Bytes(f, p, n)
      <4>1. f \in Files
        OBVIOUS
      <4> QED BY <1>0, <4>1, BytesThere
    <3> HIDE DEF m
    <3> QED BY <3>1 DEF sceIoPread
  <2> HIDE DEF m, bytes
  <2>3. vf' = [vf EXCEPT ![h].pos = @ + m, ![h].eof = @ \/ m < n] /\ got' = bytes
    BY <2>1 DEF Served
  <2>4. vf' = [vf EXCEPT ![h] = [sf |-> s, pos |-> p + m, eof |-> e \/ m < n]]
    <3>1. vf'[h] = [sf |-> s, pos |-> p + m, eof |-> e \/ m < n]
      BY ONLY <1>a, <1>b, <2>3, h \in Handles
    <3>2. vf' = [vf EXCEPT ![h] = vf'[h]]
      BY ONLY <1>b, <2>3, h \in Handles
    <3> QED BY ONLY <3>1, <3>2
  <2>5. Views' = [Views EXCEPT ![h] = View(h)'] /\ vf'[h] = [sf |-> s, pos |-> p + m, eof |-> e \/ m < n]
    BY <1>f, <2>4
  <2>6. View(h)' = [file |-> f, pos |-> p + m, eof |-> e \/ m < n]
    <3>1. p + m \in Nat /\ (e \/ m < n) \in BOOLEAN
      BY <2>2
    <3>2. PICK q \in Nat, z \in BOOLEAN : q = p + m /\ z = (e \/ m < n)
      BY <3>1
    <3> QED BY <1>e, <2>5, <3>2
  <2>7. Views' = [Views EXCEPT ![h].pos = @ + Len(got'), ![h].eof = @ \/ Len(got') < n]
    <3>1. Len(got') = m
      BY <2>2, <2>3
    <3>2. PICK k : k = Len(got')
      OBVIOUS
    <3>3. [Views EXCEPT ![h].pos = @ + k, ![h].eof = @ \/ k < n] = [Views EXCEPT ![h] = View(h)']
      <4>1. k = m
        BY <3>1, <3>2
      <4>2. [Views EXCEPT ![h].pos = @ + k, ![h].eof = @ \/ k < n]
              = [Views EXCEPT ![h] = [Views[h] EXCEPT !.pos = @ + k, !.eof = @ \/ k < n]]
        BY ONLY <1>d, h \in Handles
      <4>3. [Views[h] EXCEPT !.pos = @ + k, !.eof = @ \/ k < n] = [file |-> f, pos |-> p + m, eof |-> e \/ m < n]
        <5>1. PICK u : u = Views[h]
          OBVIOUS
        <5>2. PICK q, z : q = u.pos + k /\ z = (u.eof \/ k < n)
          OBVIOUS
        <5>3. PICK x : x = [u EXCEPT !.pos = @ + k, !.eof = @ \/ k < n]
          OBVIOUS
        <5>4. x = [u EXCEPT !.pos = q, !.eof = z]
          BY <5>2, <5>3
        <5>5. u.pos = p /\ u.eof = e
          BY <1>c, <5>1
        <5>6. q = p + m /\ z = (e \/ m < n)
          BY <4>1, <5>2, <5>5
        <5>7. x = [file |-> f, pos |-> q, eof |-> z]
          <6>1. u = [file |-> f, pos |-> p, eof |-> e]
            BY <1>c, <5>1
          <6> QED BY ONLY <5>4, <6>1, MovedOn
        <5>8. x = [file |-> f, pos |-> p + m, eof |-> e \/ m < n]
          BY <5>6, <5>7
        <5> QED BY <5>1, <5>3, <5>8
      <4> QED BY ONLY <2>6, <4>2, <4>3
    <3> QED BY <2>5, <3>2, <3>3
  <2>8. Stdio!Read(h, n)
    BY <1>c, <2>2, <2>3, <2>7 DEF Stdio!Read, Views, View
  <2> QED BY <1>c, <2>8 DEF Stdio!Next, Stdio!Closed, Views, View
<1> QED BY <1>1, <1>2

LEMMA OpenIsOpen ==
  ASSUME ObbIInv, NEW f \in Files, NEW h \in Handles, NEW s \in Archives, fopen_shared(f, h, s)
  PROVE  Stdio!Next
<1>0. Typed /\ vf[h] = Free /\ SlotFor(f, s) /\ OpenArchive(f, s, 1) /\ got' = <<>>
      /\ vf' = [vf EXCEPT ![h] = [sf |-> s, pos |-> 0, eof |-> FALSE]]
  BY DEF ObbIInv, fopen_shared, Quiet
<1>1. /\ sf'[s].file = f
      /\ \A g \in InUse : sf'[vf[g].sf].file = sf[vf[g].sf].file
  BY <1>0, OpenedFacts, HandleFacts DEF Same
<1>2. /\ Views' = [Views EXCEPT ![h] = View(h)']
      /\ vf'[h] = [sf |-> s, pos |-> 0, eof |-> FALSE]
  BY <1>0, <1>1, OneView
<1>3. View(h)' = [file |-> f, pos |-> 0, eof |-> FALSE]
  <2>1. vf'[h] # Free /\ vf'[h].sf = s /\ vf'[h].pos = 0 /\ vf'[h].eof = FALSE
    BY <1>2 DEF Free
  <2> QED BY <1>1, <2>1 DEF View
<1>4. Views[h] = [file |-> "closed"]
  BY <1>0 DEF Views, View
<1>5. Stdio!Open(h, f)
  BY <1>0, <1>2, <1>3, <1>4 DEF Stdio!Open, Stdio!Closed, Views, View
<1> QED BY <1>5 DEF Stdio!Next

LEMMA CloseIsClose ==
  ASSUME ObbIInv, ObbIInv', NEW h \in Handles, fclose_diag(h)
  PROVE  Stdio!Next
<1>0. Typed /\ Typed' /\ vf[h] # Free /\ got' = <<>> /\ vf' = [vf EXCEPT ![h] = Free]
  BY DEF ObbIInv, fclose_diag, Quiet
<1>1. ASSUME NEW g \in InUse, g # h PROVE sf'[vf[g].sf].file = sf[vf[g].sf].file
  <2>1. vf = [x \in Handles |-> vf[x]] /\ g \in Handles /\ vf[g] # Free
    BY <1>0 DEF Typed, InUse
  <2>2. vf'[g] = vf[g]
    BY ONLY <1>0, <1>1, <2>1
  <2>3. vf'[g].sf \in Open'
    BY <1>0, <2>1, <2>2 DEF Typed, InUse
  <2> QED BY <1>0, <2>2, <2>3, ClosedFacts DEF Same
<1>2. Views' = [Views EXCEPT ![h] = View(h)'] /\ vf'[h] = Free
  BY <1>0, <1>1, OneView
<1>3. View(h)' = [file |-> "closed"]
  BY <1>2 DEF View
<1>4. Views[h] # [file |-> "closed"]
  <2>1. Views[h] = [file |-> sf[vf[h].sf].file, pos |-> vf[h].pos, eof |-> vf[h].eof]
    BY <1>0 DEF Views, View
  <2> QED BY <2>1
<1> QED BY <1>0, <1>2, <1>3, <1>4 DEF Stdio!Next, Stdio!Close, Stdio!Closed, Views, View

LEMMA SeekIsSeek ==
  ASSUME ObbIInv, NEW h \in Handles, NEW pos \in Positions, fseek_diag(h, pos)
  PROVE  Stdio!Next
<1>0. Typed /\ h \in InUse /\ vf[h] # Free /\ got' = <<>> /\ sf' = sf
      /\ vf' = [vf EXCEPT ![h].pos = pos, ![h].eof = FALSE]
  BY DEF ObbIInv, fseek_diag, Quiet, InUse
<1>1. vf = [g \in Handles |-> vf[g]] /\ vf[h] = [sf |-> vf[h].sf, pos |-> vf[h].pos, eof |-> vf[h].eof]
  BY <1>0, HandleFacts DEF Typed
<1>2. vf' = [vf EXCEPT ![h] = [sf |-> vf[h].sf, pos |-> pos, eof |-> FALSE]]
  <2>1. vf'[h] = [sf |-> vf[h].sf, pos |-> pos, eof |-> FALSE]
    BY ONLY <1>0, <1>1, h \in Handles
  <2>2. vf' = [vf EXCEPT ![h] = vf'[h]]
    BY ONLY <1>0, <1>1, h \in Handles
  <2> QED BY ONLY <2>1, <2>2
<1>3. Views' = [Views EXCEPT ![h] = View(h)'] /\ vf'[h] = [sf |-> vf[h].sf, pos |-> pos, eof |-> FALSE]
  BY <1>0, <1>2, OneView
<1>4. PICK f, p, e : f = sf[vf[h].sf].file /\ p = vf[h].pos /\ e = vf[h].eof
  OBVIOUS
<1>5. View(h)' = [file |-> f, pos |-> pos, eof |-> FALSE]
  <2>1. vf'[h] # Free /\ vf'[h].sf = vf[h].sf /\ vf'[h].pos = pos /\ vf'[h].eof = FALSE
    BY <1>3 DEF Free
  <2> QED BY <1>0, <1>4, <2>1 DEF View
<1>6. PICK u : u = Views[h]
  OBVIOUS
<1>7. u = [file |-> f, pos |-> p, eof |-> e]
  BY <1>0, <1>4, <1>6 DEF Views, View
<1>8. Views' = [Views EXCEPT ![h].pos = pos, ![h].eof = FALSE]
  <2>1. Views = [g \in Handles |-> Views[g]]
    BY DEF Views
  <2>2. [Views EXCEPT ![h].pos = pos, ![h].eof = FALSE] = [Views EXCEPT ![h] = [Views[h] EXCEPT !.pos = pos, !.eof = FALSE]]
    BY ONLY <2>1, h \in Handles
  <2>3. PICK x : x = [u EXCEPT !.pos = pos, !.eof = FALSE]
    OBVIOUS
  <2>4. x = [file |-> f, pos |-> pos, eof |-> FALSE]
    BY ONLY <1>7, <2>3
  <2> QED BY <1>3, <1>5, <1>6, <2>2, <2>3, <2>4
<1>9. Stdio!Seek(h, pos)
  BY <1>0, <1>8 DEF Stdio!Seek, Views, View
<1>10. Views[h] # [file |-> "closed"]
  BY <1>6, <1>7
<1> QED BY <1>9, <1>10 DEF Stdio!Next, Stdio!Closed, Views, View

LEMMA ElsewhereIs ==
  ASSUME Views' = Views, got' = <<>> PROVE Stdio!Next
BY DEF Stdio!Next, Stdio!Elsewhere, Views, View

LEMMA BootIsRestart ==
  ASSUME Boot PROVE Stdio!Next
<1>1. vf' = [h \in Handles |-> Free] /\ got' = <<>>
  BY DEF Boot
<1>2. \A h \in Handles : View(h)' = [file |-> "closed"]
  BY <1>1 DEF View
<1> QED BY <1>1, <1>2 DEF Stdio!Next, Stdio!Restart, Stdio!Init, Stdio!Closed, View

StdioIInv == ObbIInv /\ IndexIInv /\ RingWithin

LEMMA StdioStart == Init => StdioIInv /\ Stdio!Init
<1> SUFFICES ASSUME Init PROVE StdioIInv /\ Stdio!Init
  OBVIOUS
<1>1. Open = {} /\ Used(ent) = {}
  BY DEF Init, RingInit, Open, Used, Unused
<1>2. \A f \in Files : Replays(card[f], f)
  BY DEF Init, Replays, Loads, NoFile
<1>3. card = [f \in Files |-> card[f]]
  BY Zenon DEF Init
<1>4. Stdio!Init
  BY DEF Init, Stdio!Init, Stdio!Closed
<1> QED BY <1>1, <1>2, <1>3, <1>4, InitHolds DEF StdioIInv, IndexIInv, RingWithin

LEMMA StdioStep == StdioIInv /\ Next => StdioIInv' /\ [Stdio!Next]_(Stdio!vars)
<1> SUFFICES ASSUME StdioIInv, Next PROVE StdioIInv' /\ Stdio!Next
  OBVIOUS
<1>1. ObbIInv /\ ObbIInv' /\ Typed /\ IndexIInv /\ RingWithin
  BY ObbInductive DEF StdioIInv, ObbIInv
<1>2. ASSUME UNCHANGED ram PROVE RingWithin'
  BY <1>1, <1>2 DEF ram, RingWithin, Used, Within
<1>3. ASSUME NEW f \in Files, NEW s \in Archives, NEW n, SlotFor(f, s), OpenArchive(f, s, n), UNCHANGED card
      PROVE  IndexIInv'
  <2>1. \A t \in Open' : Same(t) \/ (t = s /\ sf'[t].idx = obbidx_open(f) /\ sf'[t].file = f)
    BY <1>1, <1>3, OpenedFacts
  <2> QED BY <1>1, <1>3, <2>1, IndexKept
<1>4. ASSUME NEW f \in Files, NEW s \in Archives, NEW h \in Handles, fopen_shared(f, h, s)
      PROVE  IndexIInv' /\ RingWithin' /\ Stdio!Next
  BY <1>1, <1>2, <1>3, <1>4, OpenIsOpen DEF fopen_shared
<1>5. ASSUME NEW f \in Files, NEW s \in Archives, fopen_outOfHandles(f, s)
      PROVE  IndexIInv' /\ RingWithin' /\ Stdio!Next
  <2>1. /\ SlotFor(f, s) /\ OpenArchive(f, s, 0) /\ got' = <<>>
        /\ UNCHANGED <<vf, card>> /\ UNCHANGED ram
    BY <1>5 DEF fopen_outOfHandles, Quiet
  <2>2. Views' = Views
    BY <1>1, <2>1, OpenedFacts, HandleFacts, NoView DEF Same
  <2> QED BY <1>2, <1>3, <2>1, <2>2, ElsewhereIs
<1>6. ASSUME NEW h \in Handles, fclose_diag(h)
      PROVE  IndexIInv' /\ RingWithin' /\ Stdio!Next
  BY <1>1, <1>2, <1>6, ClosedFacts, IndexKept, CloseIsClose DEF fclose_diag
<1>7. ASSUME NEW h \in Handles, NEW pos \in Positions, fseek_diag(h, pos)
      PROVE  IndexIInv' /\ RingWithin' /\ Stdio!Next
  <2>1. UNCHANGED <<sf, card>> /\ UNCHANGED ram
    BY <1>7 DEF fseek_diag
  <2>2. \A t \in Open' : Same(t)
    BY <2>1 DEF Open, Same
  <2> QED BY <1>1, <1>2, <1>7, <2>1, <2>2, IndexKept, SeekIsSeek
<1>8. ASSUME NEW h \in Handles, NEW n \in Lens, fread_diag(h, n)
      PROVE  IndexIInv' /\ RingWithin' /\ Stdio!Next
  BY <1>1, <1>8, ReadFacts, ReadWithin, ReadIsRead
<1>9. ASSUME io_obb_mount_done PROVE IndexIInv' /\ RingWithin' /\ Stdio!Next
  <2>1. UNCHANGED vf /\ UNCHANGED ram /\ got' = <<>>
    BY <1>9 DEF io_obb_mount_done, Quiet
  <2>2. Views' = Views
    BY <1>1, <1>9, <2>1, MountFacts, HandleFacts, NoView
  <2> QED BY <1>1, <1>2, <1>9, <2>1, <2>2, MountFacts, ElsewhereIs
<1>10. ASSUME Boot, UNCHANGED card \/ \E s \in Open : PowerOffWriting(s)
       PROVE  IndexIInv' /\ RingWithin' /\ Stdio!Next
  <2>1. RingWithin'
    BY <1>10 DEF Boot, RingWithin, Used, Unused
  <2> QED BY <1>1, <1>10, <2>1, BootFacts, BootIsRestart
<1>11. IndexIInv' /\ RingWithin' /\ Stdio!Next
  BY <1>4, <1>5, <1>6, <1>7, <1>8, <1>9, <1>10 DEF Next, PowerOff, PowerOffWriting
<1> QED BY <1>1, <1>11 DEF StdioIInv

LEMMA StdioRest == StdioIInv /\ UNCHANGED vars => StdioIInv' /\ UNCHANGED Stdio!vars
<1> SUFFICES ASSUME StdioIInv, UNCHANGED vars PROVE StdioIInv' /\ UNCHANGED Stdio!vars
  OBVIOUS
<1>1. UNCHANGED <<sf, vf, card, got>> /\ UNCHANGED ram
  BY DEF vars
<1>2. ObbIInv'
  BY ObbInductive DEF StdioIInv
<1>3. \A t \in Open' : Same(t)
  BY <1>1 DEF Open, Same
<1>4. IndexIInv' /\ RingWithin'
  BY <1>1, <1>3, IndexKept DEF StdioIInv, ram, RingWithin, Used, Within
<1>5. UNCHANGED Stdio!vars
  BY <1>1 DEF Stdio!vars
<1> QED BY <1>2, <1>4, <1>5 DEF StdioIInv

\* Every handle reads its archive as if it had it alone, for archives of any size, any
\* number of handles and any index, recorded, replayed or torn: what the ring, the index
\* and the card hand over is the archive's own bytes, and each handle has its own place
\* (fread_diag, dynlib.c:562; obbidx_serve, obb_index.c:120).
THEOREM ReadsAsIfAlone == Spec => ImplementsStdio
<1>1. StdioIInv /\ [Next]_vars => StdioIInv' /\ [Stdio!Next]_(Stdio!vars)
  BY StdioStep, StdioRest
<1> QED BY <1>1, StdioStart, PTL DEF Spec, ImplementsStdio, Stdio!Spec

-----------------------------------------------------------------------------
(* The tables of what is not there.                                        *)

OnCard == Assets!OnCard
Cells == 0 .. MissSlots - 1
Vacant == {Assets!Empty, Assets!Forgotten}
Tables == [Cells -> OnCard \cup Vacant]

Remembers(set, f) == \E n \in Cells : set[Assets!At(f, n)] = f

\* Along the probes for f nothing comes before f that ends them, nor f itself.
Tidy(set) ==
  \A f \in OnCard, n \in Cells :
    set[Assets!At(f, n)] = f => \A m \in 0 .. n - 1 : set[Assets!At(f, m)] \notin {f, Assets!Empty}

\* f is where adding it again finds it.
Settled(set, f) ==
  \E n \in 0 .. (MissSlots \div 2) - 1 :
    /\ set[Assets!At(f, n)] = f
    /\ \A m \in 0 .. n - 1 : set[Assets!At(f, m)] \notin {f} \cup Vacant

Firm(set, f) == Remembers(set, f) => Settled(set, f)

LEMMA AtFacts ==
  ASSUME NEW f \in OnCard, NEW n \in Cells
  PROVE  /\ Assets!At(f, n) \in Cells
         /\ \A m \in Cells : m # n => Assets!At(f, m) # Assets!At(f, n)
<1>1. MissSlots \in Nat \ {0} /\ Home[f] \in Nat
  BY StorageAssumption DEF OnCard
<1>2. Assets!At(f, n) \in Cells
  <2>1. Home[f] + n \in Nat
    BY <1>1 DEF Cells
  <2>2. (Home[f] + n) % MissSlots \in 0 .. MissSlots - 1
    BY <1>1, <2>1, DivMod
  <2> QED BY <2>2 DEF Assets!At, Cells
<1>3. ASSUME NEW m \in Cells, m # n PROVE Assets!At(f, m) # Assets!At(f, n)
  <2>1. Home[f] + n \in Nat /\ Home[f] + m \in Nat
    BY <1>1 DEF Cells
  <2>2. CASE m < n
    <3>1. Home[f] + m < Home[f] + n /\ (Home[f] + n) - (Home[f] + m) < MissSlots
      BY <1>1, <2>2 DEF Cells
    <3> QED BY <1>1, <2>1, <3>1, ModDiffer DEF Assets!At
  <2>3. CASE n < m
    <3>1. Home[f] + n < Home[f] + m /\ (Home[f] + m) - (Home[f] + n) < MissSlots
      BY <1>1, <2>3 DEF Cells
    <3> QED BY <1>1, <2>1, <3>1, ModDiffer DEF Assets!At
  <2> QED BY <1>3, <2>2, <2>3 DEF Cells
<1> QED BY <1>2, <1>3

LEMMA Half == 0 .. (MissSlots \div 2) - 1 \subseteq Cells
<1>1. MissSlots \in Nat \ {0} BY StorageAssumption
<1>2. MissSlots \div 2 \in Nat /\ MissSlots = 2 * (MissSlots \div 2) + (MissSlots % 2) /\ MissSlots % 2 \in 0 .. 1
  BY <1>1, DivMod
<1> QED BY <1>1, <1>2 DEF Cells

LEMMA LeastIsMin ==
  ASSUME NEW S \in SUBSET Nat, S # {}
  PROVE  Assets!Min(S) \in S /\ \A y \in S : Assets!Min(S) <= y
BY LeastExists DEF Assets!Min

LEMMA FoundIfThere ==
  ASSUME NEW set, Tidy(set), NEW f \in OnCard
  PROVE  Assets!miss_has(set, f) <=> Remembers(set, f)
<1> DEFINE S == Assets!Stops(set, f)
<1>1. S = {n \in Cells : set[Assets!At(f, n)] \in {f, Assets!Empty}}
  BY DEF Assets!Stops, Cells
<1>2. S \in SUBSET Nat
  BY <1>1 DEF Cells
<1>3. Assets!miss_has(set, f) <=> S # {} /\ set[Assets!At(f, Assets!Min(S))] = f
  BY DEF Assets!miss_has
<1> HIDE DEF S
<1>4. Assets!miss_has(set, f) => Remembers(set, f)
  BY <1>1, <1>2, <1>3, LeastIsMin DEF Remembers
<1>5. ASSUME Remembers(set, f) PROVE Assets!miss_has(set, f)
  <2>1. PICK n \in Cells : set[Assets!At(f, n)] = f
    BY <1>5 DEF Remembers
  <2>2. n \in S
    BY <1>1, <2>1
  <2>3. PICK m \in S : m = Assets!Min(S) /\ m <= n
    BY <1>2, <2>2, LeastIsMin
  <2>4. m = n
    <3>1. m \in 0 .. n - 1 => set[Assets!At(f, m)] \notin {f, Assets!Empty}
      BY <2>1 DEF Tidy
    <3> QED BY <1>1, <1>2, <2>3, <3>1 DEF Cells
  <2> QED BY <1>3, <2>1, <2>2, <2>3, <2>4
<1> QED BY <1>4, <1>5

LEMMA Distinct == Assets!Empty \notin OnCard /\ Assets!Forgotten \notin OnCard /\ Assets!Empty # Assets!Forgotten
BY DEF OnCard, Assets!OnCard, Assets!Empty, Assets!Forgotten

LEMMA AddKeeps ==
  ASSUME NEW set \in Tables, Tidy(set), NEW f \in OnCard, Firm(set, f)
  PROVE  LET s == Assets!miss_add(set, f)
         IN  /\ s \in Tables /\ Tidy(s)
             /\ \A g \in OnCard : Remembers(s, g) => Remembers(set, g) \/ g = f
             /\ \A g \in OnCard : Firm(set, g) => Firm(s, g)
<1> DEFINE s == Assets!miss_add(set, f)
           T == {n \in 0 .. (MissSlots \div 2) - 1 : set[Assets!At(f, n)] \in {f} \cup Vacant}
<1>0. Assets!miss_add(set, f) = IF T = {} THEN set ELSE [set EXCEPT ![Assets!At(f, Assets!Min(T))] = f]
  <2>1. T = {n \in 0 .. (MissSlots \div 2) - 1 : set[Assets!At(f, n)] \in {f, Assets!Empty, Assets!Forgotten}}
    BY DEF Vacant
  <2> QED BY <2>1, Zenon DEF Assets!miss_add
<1>1. CASE s = set
  BY <1>1
<1>2. CASE s # set
  <2>1. T # {} /\ T \in SUBSET Nat
    BY <1>0, <1>2
  <2>2. PICK n \in T : n = Assets!Min(T) /\ \A y \in T : n <= y
    BY <2>1, LeastIsMin
  <2> DEFINE at == Assets!At(f, n)
  <2>3. s = [set EXCEPT ![at] = f]
    BY <1>0, <2>1, <2>2
  <2>4. n \in 0 .. (MissSlots \div 2) - 1 /\ n \in Cells /\ at \in Cells
    BY <2>2, Half, AtFacts
  <2>5. \A m \in 0 .. n - 1 : m \in Cells /\ set[Assets!At(f, m)] \notin {f} \cup Vacant
    <3> SUFFICES ASSUME NEW m \in 0 .. n - 1 PROVE m \in Cells /\ set[Assets!At(f, m)] \notin {f} \cup Vacant
      OBVIOUS
    <3>1. m \in 0 .. (MissSlots \div 2) - 1 /\ ~(n <= m)
      BY <2>4, StorageAssumption
    <3> QED BY <2>2, <3>1, Half
  <2>6. set[at] \in Vacant
    <3>1. set[at] # f
      BY <1>2, <2>3, <2>4 DEF Tables
    <3> QED BY <2>2, <3>1
  <2> HIDE DEF at, T, s
  <2>7. ~Remembers(set, f)
    <3> SUFFICES ASSUME Remembers(set, f) PROVE FALSE
      OBVIOUS
    <3>1. PICK k \in 0 .. (MissSlots \div 2) - 1 :
            /\ set[Assets!At(f, k)] = f
            /\ \A m \in 0 .. k - 1 : set[Assets!At(f, m)] \notin {f} \cup Vacant
      BY Zenon DEF Firm, Settled
    <3>2. k \in T
      BY <3>1 DEF T
    <3>3. n # k
      BY <2>6, <3>1, Distinct DEF at, Vacant
    <3>4. n \in 0 .. k - 1
      BY <2>2, <2>4, <3>2, <3>3
    <3> QED BY <2>6, <3>1, <3>4 DEF at
  <2>8. s \in Tables
    BY <2>3, <2>4 DEF Tables
  <2>9. \A c \in Cells : s[c] = IF c = at THEN f ELSE set[c]
    BY <2>3 DEF Tables
  <2>10. \A c \in Cells : c # at => s[c] = set[c]
    BY <2>9
  <2>11. s[at] = f
    BY <2>4, <2>9
  <2>12. \A m \in 0 .. n - 1 : Assets!At(f, m) \in Cells /\ Assets!At(f, m) # at
    BY <2>4, <2>5, AtFacts DEF at
  <2>13. ASSUME NEW g \in OnCard, NEW k \in Cells, s[Assets!At(g, k)] = g, g # f
         PROVE  set[Assets!At(g, k)] = g
    BY <2>10, <2>11, <2>13, AtFacts
  <2>14. ASSUME NEW k \in Cells, s[Assets!At(f, k)] = f PROVE k = n
    <3>1. Assets!At(f, k) = at
      BY <2>7, <2>10, <2>14, AtFacts DEF Remembers
    <3> QED BY <2>4, <3>1, AtFacts DEF at
  <2>15. \A g \in OnCard : Remembers(s, g) => Remembers(set, g) \/ g = f
    BY <2>13 DEF Remembers
  <2>16. Tidy(s)
    <3> SUFFICES ASSUME NEW g \in OnCard, NEW k \in Cells, s[Assets!At(g, k)] = g, NEW m \in 0 .. k - 1
                 PROVE  s[Assets!At(g, m)] \notin {g, Assets!Empty}
      BY DEF Tidy
    <3>0. m \in Cells
      BY StorageAssumption DEF Cells
    <3>1. CASE g = f
      <4>1. k = n
        BY <2>14, <3>1
      <4> QED BY <2>5, <2>10, <2>12, <3>1, <4>1 DEF Vacant
    <3>2. CASE g # f
      <4>1. set[Assets!At(g, m)] \notin {g, Assets!Empty}
        BY <2>13, <3>2 DEF Tidy
      <4>2. Assets!At(g, m) \in Cells
        BY <3>0, AtFacts
      <4> QED BY <2>10, <2>11, <3>2, <4>1, <4>2, Distinct
    <3> QED BY <3>1, <3>2
  <2>17. ASSUME NEW g \in OnCard, Firm(set, g), Remembers(s, g) PROVE Settled(s, g)
    <3>1. CASE g = f
      <4>1. \A m \in 0 .. n - 1 : s[Assets!At(f, m)] \notin {f} \cup Vacant
        BY <2>5, <2>10, <2>12
      <4> QED BY <2>4, <2>11, <3>1, <4>1 DEF Settled, at
    <3>2. CASE g # f
      <4>1. Settled(set, g)
        BY <2>15, <2>17, <3>2 DEF Firm
      <4>2. PICK k \in 0 .. (MissSlots \div 2) - 1 :
              /\ set[Assets!At(g, k)] = g
              /\ \A m \in 0 .. k - 1 : set[Assets!At(g, m)] \notin {g} \cup Vacant
        BY <4>1, Zenon DEF Settled
      <4>3. k \in Cells /\ Assets!At(g, k) \in Cells
        BY Half, AtFacts
      <4>4. s[Assets!At(g, k)] = g
        BY <2>6, <2>10, <4>2, <4>3, Distinct DEF Vacant
      <4>5. ASSUME NEW m \in 0 .. k - 1 PROVE s[Assets!At(g, m)] \notin {g} \cup Vacant
        <5>1. m \in Cells
          BY <4>3, StorageAssumption DEF Cells
        <5>2. Assets!At(g, m) \in Cells /\ Assets!At(g, m) # at
          BY <2>6, <4>2, <5>1, AtFacts
        <5> QED BY <2>10, <4>2, <5>2
      <4> QED BY <4>4, <4>5 DEF Settled
    <3> QED BY <3>1, <3>2
  <2> QED BY <2>8, <2>15, <2>16, <2>17 DEF Firm, s
<1> QED BY <1>1, <1>2

LEMMA ForgetKeeps ==
  ASSUME NEW set \in Tables, Tidy(set), NEW f \in OnCard
  PROVE  LET s == Assets!miss_forget(set, f)
         IN  /\ s \in Tables /\ Tidy(s) /\ ~Remembers(s, f)
             /\ \A g \in OnCard : Remembers(s, g) => Remembers(set, g)
<1> DEFINE s == Assets!miss_forget(set, f)
           S == Assets!Stops(set, f)
<1>0. S = {n \in Cells : set[Assets!At(f, n)] \in {f, Assets!Empty}}
  BY DEF Assets!Stops, Cells
<1>1. CASE ~Assets!miss_has(set, f)
  BY <1>1, FoundIfThere DEF Assets!miss_forget
<1>2. CASE Assets!miss_has(set, f)
  <2>1. S # {} /\ S \in SUBSET Nat /\ set[Assets!At(f, Assets!Min(S))] = f
    BY <1>0, <1>2 DEF Assets!miss_has, Cells
  <2> HIDE DEF S
  <2>2. PICK n \in Cells : n = Assets!Min(S) /\ set[Assets!At(f, n)] = f
    BY <1>0, <2>1, LeastIsMin
  <2> DEFINE at == Assets!At(f, n)
  <2>3. s = [set EXCEPT ![at] = Assets!Forgotten] /\ at \in Cells
    BY <1>2, <2>2, AtFacts DEF Assets!miss_forget, S
  <2> HIDE DEF at, s
  <2>4. /\ \A c \in Cells : c # at => s[c] = set[c]
        /\ s[at] = Assets!Forgotten
    BY <2>3 DEF Tables
  <2>5. s \in Tables
    BY <2>3 DEF Tables, Vacant
  <2>6. ASSUME NEW g \in OnCard, NEW k \in Cells, s[Assets!At(g, k)] = g
        PROVE  set[Assets!At(g, k)] = g /\ Assets!At(g, k) # at
    BY <2>4, <2>6, AtFacts, Distinct
  <2>7. ~Remembers(s, f)
    <3> SUFFICES ASSUME NEW k \in Cells, s[Assets!At(f, k)] = f PROVE FALSE
      BY DEF Remembers
    <3>1. set[Assets!At(f, k)] = f /\ Assets!At(f, k) # at
      BY <2>6
    <3>2. k # n
      BY <3>1 DEF at
    <3>3. k \in 0 .. n - 1 \/ n \in 0 .. k - 1
      BY <3>2, StorageAssumption DEF Cells
    <3> QED BY <2>2, <3>1, <3>3 DEF Tidy
  <2>8. Tidy(s)
    <3> SUFFICES ASSUME NEW g \in OnCard, NEW k \in Cells, s[Assets!At(g, k)] = g, NEW m \in 0 .. k - 1
                 PROVE  s[Assets!At(g, m)] \notin {g, Assets!Empty}
      BY DEF Tidy
    <3>1. m \in Cells
      BY StorageAssumption DEF Cells
    <3>2. set[Assets!At(g, m)] \notin {g, Assets!Empty} /\ Assets!At(g, m) \in Cells
      BY <2>6, <3>1, AtFacts DEF Tidy
    <3> QED BY <2>4, <3>2, Distinct
  <2>9. \A g \in OnCard : Remembers(s, g) => Remembers(set, g)
    BY <2>6 DEF Remembers
  <2> QED BY <2>5, <2>7, <2>8, <2>9 DEF s
<1> QED BY <1>1, <1>2

-----------------------------------------------------------------------------
(* An open.                                                                *)

Reading == {"nowhere", "bundle", "set", "root", "archive", "done", "known"}
Writing == {"forget", "create"}

Sources == {"none", "translation", "bundle", "set", "root", "archive"}
OpenOp == [kind : {"none", "read", "write"}, path : Paths \cup {Assets!NoOp.path},
           at : {"set", "root"}, missed : BOOLEAN,
           found : Sources]

AssetsTyped ==
  /\ present \subseteq OnCard
  /\ g_card_miss \in Tables /\ g_all_miss \in Tables
  /\ pc \in [Threads -> {"idle"} \cup Reading \cup Writing] /\ op \in [Threads -> OpenOp]
  /\ seen \in [Threads -> SUBSET Sources]
  /\ \A t \in Threads :
       /\ pc[t] # "idle" => op[t].path \in Paths
       /\ op[t].kind = IF pc[t] \in Reading THEN "read" ELSE IF pc[t] \in Writing THEN "write" ELSE "none"

\* What is remembered is not there.
Absences ==
  /\ Tidy(g_card_miss) /\ Tidy(g_all_miss)
  /\ \A f \in OnCard : Remembers(g_card_miss, f) \/ Remembers(g_all_miss, f) => f[1] \in Cacheable /\ f \notin present
  /\ \A f \in OnCard : Remembers(g_all_miss, f) => f[1] \notin Translated \cup Bundled \cup Archived

Where(t) == Assets!Search(op[t].path, present)
Asks(t) == op[t].path \in Cacheable

\* How far the search of a file has come, on a card that does not change under it.
Searches(t) ==
  /\ pc[t] \in Reading => seen[t] = {Where(t)} /\ (op[t].missed => Assets!Hashed(t) \notin present)
  /\ pc[t] = "nowhere" => op[t].found = "none"
  /\ pc[t] \in {"set", "root", "archive"} => op[t].path \notin Translated \cup Bundled
  /\ pc[t] \in {"set", "root"} => pc[t] = op[t].at
  /\ pc[t] = "archive" => Assets!Hashed(t) \notin present
  /\ pc[t] \in {"done", "known"} => op[t].found = Where(t)

\* What it will remember may have been remembered meanwhile, but is not remembered twice.
RemembersOnce(t) ==
  /\ pc[t] \in Reading \ {"nowhere", "known"} /\ Asks(t) => Firm(g_all_miss, Assets!Hashed(t))
  /\ pc[t] \in Reading /\ Asks(t) /\ (op[t].missed \/ pc[t] \in {"set", "root"}) =>
       Firm(g_card_miss, Assets!Hashed(t))

Translates(t) == pc[t] # "idle" => Assets!Hashed(t) = Assets!fs_translate(op[t].path)

\* What a write forgot nobody remembers before the file is made.
Forgot(t) ==
  pc[t] = "create" =>
    /\ ~Remembers(g_card_miss, Assets!Hashed(t)) /\ ~Remembers(g_all_miss, Assets!Hashed(t))
    /\ \A u \in Threads : pc[u] \notin Reading

Undisturbed ==
  Absences /\ \A t \in Threads : Searches(t) /\ RemembersOnce(t) /\ Translates(t) /\ Forgot(t)

AssetsIInv == ~tainted => AssetsTyped /\ Undisturbed

LEMMA Names ==
  ASSUME NEW p \in Paths, present \subseteq OnCard
  PROVE  LET f == Assets!fs_translate(p)
         IN  /\ f \in OnCard /\ f[1] = p /\ f[2] \in {"set", "root"} /\ f = <<p, f[2]>>
             /\ f \notin present => <<p, "set">> \notin present /\ <<p, "root">> \notin present
             /\ p \notin Translated \cup Bundled =>
                  Assets!Search(p, present) = IF f \in present THEN f[2]
                                              ELSE IF p \in Archived THEN "archive" ELSE "none"
BY DEF OnCard, Assets!OnCard, Assets!fs_translate, Assets!modset_redirect, Assets!Search

LEMMA Finds == \A p, c : Assets!Search(p, c) \in Sources
BY DEF Assets!Search, Sources

LEMMA Idles ==
  Assets!NoOp \in OpenOp /\ Assets!NoOp.kind = "none" /\ Assets!NoOp.missed = FALSE /\ Assets!NoOp.found = "none"
BY DEF Assets!NoOp, OpenOp, Sources

\* A call of thread t begins.
LEMMA Begins ==
  ASSUME AssetsTyped, NEW p \in Paths, NEW k \in {"read", "write"}
  PROVE  LET o == [Assets!NoOp EXCEPT !.kind = k, !.path = p, !.at = Assets!fs_translate(p)[2]]
         IN  /\ o \in OpenOp /\ o.kind = k /\ o.path = p /\ o.at = Assets!fs_translate(p)[2]
             /\ o.missed = FALSE /\ o.found = "none" /\ <<o.path, o.at>> = Assets!fs_translate(p)
<1>1. Assets!fs_translate(p)[2] \in {"set", "root"} /\ Assets!fs_translate(p) = <<p, Assets!fs_translate(p)[2]>>
  BY Names DEF AssetsTyped
<1> DEFINE a == Assets!fs_translate(p)[2]
           o == [Assets!NoOp EXCEPT !.kind = k, !.path = p, !.at = a]
<1>2. /\ o \in OpenOp /\ o.kind = k /\ o.path = p /\ o.at = a
      /\ o.missed = Assets!NoOp.missed /\ o.found = Assets!NoOp.found
  <2>1. a \in {"set", "root"} BY <1>1
  <2> HIDE DEF a
  <2>2. Assets!NoOp \in OpenOp BY Idles
  <2> QED BY ONLY <2>1, <2>2, p \in Paths, k \in {"read", "write"} DEF OpenOp
<1> QED BY ONLY <1>1, <1>2, Idles

LEMMA Returned ==
  ASSUME NEW o \in OpenOp, NEW w \in Sources
  PROVE  LET r == [o EXCEPT !.found = w]
         IN  r \in OpenOp /\ r.kind = o.kind /\ r.path = o.path /\ r.at = o.at /\ r.missed = o.missed /\ r.found = w
BY DEF OpenOp

LEMMA Missed ==
  ASSUME NEW o \in OpenOp, NEW m \in BOOLEAN
  PROVE  LET r == [o EXCEPT !.missed = m]
         IN  r \in OpenOp /\ r.kind = o.kind /\ r.path = o.path /\ r.at = o.at /\ r.missed = m /\ r.found = o.found
BY DEF OpenOp

\* What a step of thread t leaves of the others.
Alone(t) == \A u \in Threads \ {t} : pc'[u] = pc[u] /\ op'[u] = op[u]

LEMMA TypesOf ==
  ASSUME AssetsTyped, NEW t \in Threads, NEW l \in {"idle"} \cup Reading \cup Writing, NEW o \in OpenOp,
         pc' = [pc EXCEPT ![t] = l], op' = [op EXCEPT ![t] = o],
         l # "idle" => o.path \in Paths,
         o.kind = (IF l \in Reading THEN "read" ELSE IF l \in Writing THEN "write" ELSE "none"),
         present' \subseteq OnCard, g_card_miss' \in Tables, g_all_miss' \in Tables,
         seen' \in [Threads -> SUBSET Sources]
  PROVE  AssetsTyped' /\ Alone(t) /\ pc'[t] = l /\ op'[t] = o
<1>1. pc \in [Threads -> {"idle"} \cup Reading \cup Writing] /\ op \in [Threads -> OpenOp]
  BY DEF AssetsTyped
<1>2. /\ pc' \in [Threads -> {"idle"} \cup Reading \cup Writing] /\ op' \in [Threads -> OpenOp]
      /\ Alone(t) /\ pc'[t] = l /\ op'[t] = o
  BY <1>1, Zenon DEF Alone
<1>3. ASSUME NEW u \in Threads
      PROVE  /\ pc'[u] # "idle" => op'[u].path \in Paths
             /\ op'[u].kind = IF pc'[u] \in Reading THEN "read" ELSE IF pc'[u] \in Writing THEN "write" ELSE "none"
  <2>1. CASE u = t
    BY <1>2, <2>1
  <2>2. CASE u # t
    <3>1. pc'[u] = pc[u] /\ op'[u] = op[u]
      BY <1>2, <2>2 DEF Alone
    <3> QED BY <3>1 DEF AssetsTyped
  <2> QED BY <2>1, <2>2
<1> QED BY <1>2, <1>3, Zenon DEF AssetsTyped

-----------------------------------------------------------------------------
(* Its steps.                                                              *)

LEMMA HashedIs ==
  ASSUME AssetsTyped, Undisturbed, NEW t \in Threads, pc[t] # "idle"
  PROVE  /\ op[t] \in OpenOp /\ op[t].path \in Paths /\ Assets!Hashed(t) \in OnCard
         /\ Assets!Hashed(t) = Assets!fs_translate(op[t].path) /\ Assets!Hashed(t)[1] = op[t].path
         /\ Assets!Hashed(t) = <<op[t].path, op[t].at>>
<1>1. op[t] \in OpenOp /\ op[t].path \in Paths /\ present \subseteq OnCard
  BY DEF AssetsTyped
<1>2. Assets!Hashed(t) = Assets!fs_translate(op[t].path)
  BY DEF Undisturbed, Translates
<1>3. Assets!Hashed(t) = <<op[t].path, op[t].at>>
  BY DEF Assets!Hashed
<1> QED BY <1>1, <1>2, <1>3, Names

\* Thread t moves on, the card and the tables stay.
LEMMA Moves ==
  ASSUME AssetsTyped, Undisturbed,
         NEW t \in Threads, NEW l \in {"idle"} \cup Reading \cup Writing, NEW o \in OpenOp,
         pc' = [pc EXCEPT ![t] = l], op' = [op EXCEPT ![t] = o],
         l # "idle" => o.path \in Paths,
         o.kind = (IF l \in Reading THEN "read" ELSE IF l \in Writing THEN "write" ELSE "none"),
         UNCHANGED <<present, g_card_miss, g_all_miss>>,
         seen' \in [Threads -> SUBSET Sources], \A u \in Threads \ {t} : seen'[u] = seen[u],
         l \in Reading => pc[t] \in Reading \/ \A u \in Threads : pc[u] # "create",
         pc'[t] = l /\ op'[t] = o => Searches(t)' /\ RemembersOnce(t)' /\ Translates(t)',
         l # "create"
  PROVE  AssetsTyped' /\ Undisturbed'
<1>1. /\ AssetsTyped' /\ Alone(t) /\ pc'[t] = l /\ op'[t] = o
  <2>1. present' \subseteq OnCard /\ g_card_miss' \in Tables /\ g_all_miss' \in Tables
    BY DEF AssetsTyped
  <2> QED BY <2>1, TypesOf
<1>2. Absences'
  BY DEF Undisturbed, Absences
<1>3. ASSUME NEW u \in Threads PROVE Searches(u)' /\ RemembersOnce(u)' /\ Translates(u)' /\ Forgot(u)'
  <2>1. CASE u = t
    BY <1>1, <2>1 DEF Forgot
  <2>2. CASE u # t
    <3>1. pc'[u] = pc[u] /\ op'[u] = op[u] /\ seen'[u] = seen[u]
      BY <1>1, <2>2 DEF Alone
    <3>2. /\ Assets!Hashed(u)' = Assets!Hashed(u) /\ Where(u)' = Where(u) /\ Asks(u)' = Asks(u)
          /\ Assets!fs_translate(op[u].path)' = Assets!fs_translate(op[u].path)
      BY <3>1 DEF Assets!Hashed, Where, Asks, Assets!Search, Assets!fs_translate, Assets!modset_redirect
    <3>3. Searches(u) /\ RemembersOnce(u) /\ Translates(u) /\ Forgot(u)
      BY DEF Undisturbed
    <3>4. Searches(u)'
      BY <3>1, <3>2, <3>3 DEF Searches
    <3>5. RemembersOnce(u)'
      BY <3>1, <3>2, <3>3 DEF RemembersOnce, Firm, Remembers, Settled
    <3>6. Translates(u)'
      BY <3>1, <3>2, <3>3 DEF Translates
    <3>7. Forgot(u)'
      <4> SUFFICES ASSUME pc[u] = "create" PROVE Forgot(u)'
        BY <3>1 DEF Forgot
      <4>1. \A v \in Threads : pc[v] \notin Reading
        BY <3>3 DEF Forgot
      <4>2. \A v \in Threads : pc'[v] \notin Reading
        BY <1>1, <4>1 DEF Alone
      <4> QED BY <3>2, <3>3, <4>2 DEF Forgot, Remembers
    <3> QED BY <3>4, <3>5, <3>6, <3>7
  <2> QED BY <2>1, <2>2
<1> QED BY <1>1, <1>2, <1>3, Zenon DEF Undisturbed

\* Nobody is in an open any more.
LEMMA Rests ==
  ASSUME Absences', \A u \in Threads : pc'[u] = "idle"
  PROVE  Undisturbed'
BY DEF Undisturbed, Searches, RemembersOnce, Translates, Forgot, Reading

\* The card has changed while everyone else rests.
LEMMA SeenTyped ==
  ASSUME AssetsTyped, NEW c, Assets!Changes(c) PROVE seen' \in [Threads -> SUBSET Sources]
BY Finds DEF Assets!Changes, AssetsTyped

\* A table to which f is added, or not.
LEMMA MayAdd ==
  ASSUME NEW set \in Tables, Tidy(set), NEW f \in OnCard, NEW b \in BOOLEAN, b => Firm(set, f),
         NEW s, s = IF b THEN Assets!miss_add(set, f) ELSE set
  PROVE  /\ s \in Tables /\ Tidy(s)
         /\ \A g \in OnCard : Remembers(s, g) => Remembers(set, g) \/ (b /\ g = f)
         /\ \A g \in OnCard : Firm(set, g) => Firm(s, g)
BY AddKeeps

LEMMA ReadBegins ==
  ASSUME AssetsTyped, Undisturbed, NEW t \in Threads, NEW p \in Paths, Assets!OpenRead(t, p), ~tainted'
  PROVE  AssetsTyped' /\ Undisturbed'
<1> DEFINE o == [Assets!NoOp EXCEPT !.kind = "read", !.path = p, !.at = Assets!fs_translate(p)[2]]
           l == IF p \in Cacheable THEN "nowhere" ELSE "bundle"
<1>1. /\ pc' = [pc EXCEPT ![t] = l] /\ op' = [op EXCEPT ![t] = o]
      /\ seen' = [seen EXCEPT ![t] = {Assets!Search(p, present)}]
      /\ UNCHANGED <<present, g_card_miss, g_all_miss>>
  BY DEF Assets!OpenRead, Assets!Goes, Assets!Does, Assets!tables
<1>2. /\ o \in OpenOp /\ o.kind = "read" /\ o.path = p /\ o.at = Assets!fs_translate(p)[2]
      /\ o.missed = FALSE /\ o.found = "none" /\ <<o.path, o.at>> = Assets!fs_translate(p)
  BY Begins
<1>3. \A u \in Threads : pc[u] # "create"
  BY DEF Assets!OpenRead, Assets!Writing, AssetsTyped, Writing, Reading
<1>4. l \in {"nowhere", "bundle"} /\ (l = "bundle" => p \notin Cacheable)
  OBVIOUS
<1> HIDE DEF l, o
<1>5. seen' \in [Threads -> SUBSET Sources] /\ (\A u \in Threads \ {t} : seen'[u] = seen[u])
      /\ seen'[t] = {Assets!Search(p, present)}
  BY <1>1, Finds DEF AssetsTyped
<1>6. ASSUME pc'[t] = l, op'[t] = o PROVE Searches(t)' /\ RemembersOnce(t)' /\ Translates(t)'
  <2>1. Where(t)' = Assets!Search(p, present)
    BY <1>1, <1>2, <1>6 DEF Where, Assets!Search
  <2>2. Assets!Hashed(t)' = <<o.path, o.at>>
    BY <1>6 DEF Assets!Hashed
  <2>3. Assets!fs_translate(op[t].path)' = Assets!fs_translate(p)
    BY <1>1, <1>2, <1>6 DEF Assets!fs_translate, Assets!modset_redirect
  <2>4. Searches(t)'
    BY <1>2, <1>4, <1>5, <1>6, <2>1 DEF Searches
  <2>5. RemembersOnce(t)'
    BY <1>2, <1>4, <1>6 DEF RemembersOnce, Asks
  <2>6. Translates(t)'
    BY <1>2, <2>2, <2>3 DEF Translates
  <2> QED BY <2>4, <2>5, <2>6
<1>7. l \in Reading /\ l # "create"
  BY <1>4 DEF Reading
<1> QED BY <1>1, <1>2, <1>3, <1>5, <1>6, <1>7, Moves

LEMMA WriteBegins ==
  ASSUME AssetsTyped, Undisturbed, NEW t \in Threads, NEW p \in Paths, Assets!OpenWrite(t, p)
  PROVE  AssetsTyped' /\ Undisturbed'
<1> DEFINE o == [Assets!NoOp EXCEPT !.kind = "write", !.path = p, !.at = Assets!fs_translate(p)[2]]
<1>1. /\ pc' = [pc EXCEPT ![t] = "forget"] /\ op' = [op EXCEPT ![t] = o]
      /\ seen' = seen /\ UNCHANGED <<present, g_card_miss, g_all_miss>>
  BY DEF Assets!OpenWrite, Assets!Goes, Assets!Does, Assets!tables
<1>2. /\ o \in OpenOp /\ o.kind = "write" /\ o.path = p /\ o.at = Assets!fs_translate(p)[2]
      /\ <<o.path, o.at>> = Assets!fs_translate(p)
  BY Begins
<1> HIDE DEF o
<1>3. "forget" \in Writing /\ "forget" \notin Reading /\ "forget" \notin {"idle", "create"}
  BY DEF Writing, Reading
<1>4. ASSUME pc'[t] = "forget", op'[t] = o PROVE Searches(t)' /\ RemembersOnce(t)' /\ Translates(t)'
  <2>1. Assets!Hashed(t)' = <<o.path, o.at>>
    BY <1>4 DEF Assets!Hashed
  <2>2. Assets!fs_translate(op[t].path)' = Assets!fs_translate(p)
    BY <1>1, <1>2, <1>4 DEF Assets!fs_translate, Assets!modset_redirect
  <2> QED BY <1>2, <1>3, <1>4, <2>1, <2>2 DEF Searches, RemembersOnce, Translates
<1>5. seen' \in [Threads -> SUBSET Sources] /\ \A u \in Threads \ {t} : seen'[u] = seen[u]
  BY <1>1 DEF AssetsTyped
<1> QED BY <1>1, <1>2, <1>3, <1>4, <1>5, Moves

\* A step of a read that leaves all but its thread's place and result.
LEMMA ReadGoesOn ==
  ASSUME AssetsTyped, Undisturbed, NEW t \in Threads, pc[t] \in Reading, NEW l \in Reading, NEW o \in OpenOp,
         pc' = [pc EXCEPT ![t] = l], op' = [op EXCEPT ![t] = o],
         o.kind = "read", o.path = op[t].path, o.at = op[t].at,
         UNCHANGED <<present, g_card_miss, g_all_miss, seen>>,
         o.missed => Assets!Hashed(t) \notin present,
         l = "nowhere" => o.found = "none",
         l \in {"set", "root", "archive"} => op[t].path \notin Translated \cup Bundled,
         l \in {"set", "root"} => l = op[t].at,
         l = "archive" => Assets!Hashed(t) \notin present,
         l \in {"done", "known"} => o.found = Where(t),
         l \in Reading \ {"nowhere", "known"} /\ Asks(t) => Firm(g_all_miss, Assets!Hashed(t)),
         Asks(t) /\ (o.missed \/ l \in {"set", "root"}) => Firm(g_card_miss, Assets!Hashed(t))
  PROVE  AssetsTyped' /\ Undisturbed'
<1>1. op[t].path \in Paths /\ Searches(t) /\ Translates(t) /\ pc[t] # "idle"
  BY DEF AssetsTyped, Undisturbed, Reading
<1>2. ASSUME pc'[t] = l, op'[t] = o PROVE Searches(t)' /\ RemembersOnce(t)' /\ Translates(t)'
  <2>1. /\ Assets!Hashed(t)' = Assets!Hashed(t) /\ Where(t)' = Where(t) /\ Asks(t)' = Asks(t)
        /\ Assets!fs_translate(op[t].path)' = Assets!fs_translate(op[t].path)
    BY <1>2 DEF Assets!Hashed, Where, Asks, Assets!Search, Assets!fs_translate, Assets!modset_redirect
  <2>2. Searches(t)'
    BY <1>1, <1>2, <2>1 DEF Searches
  <2>3. RemembersOnce(t)'
    BY <1>2, <2>1 DEF RemembersOnce, Firm, Remembers, Settled
  <2>4. Translates(t)'
    BY <1>1, <1>2, <2>1 DEF Translates
  <2> QED BY <2>2, <2>3, <2>4
<1>3. l # "create" /\ seen' \in [Threads -> SUBSET Sources]
  BY DEF Reading, AssetsTyped
<1> QED BY <1>1, <1>2, <1>3, Moves

LEMMA NowhereKeeps ==
  ASSUME AssetsTyped, Undisturbed, NEW t \in Threads, Assets!Nowhere(t)
  PROVE  AssetsTyped' /\ Undisturbed'
<1> DEFINE f == Assets!Hashed(t)
           l == IF Assets!miss_has(g_all_miss, f) THEN "known" ELSE "bundle"
<1>1. /\ pc[t] = "nowhere" /\ pc' = [pc EXCEPT ![t] = l]
      /\ UNCHANGED <<present, g_card_miss, g_all_miss, op, seen>>
  BY DEF Assets!Nowhere, Assets!Goes, Assets!tables
<1>2. pc[t] \in Reading /\ pc[t] # "idle"
  BY <1>1 DEF Reading
<1>3. op[t] \in OpenOp /\ op[t].path \in Paths /\ f \in OnCard /\ f = Assets!fs_translate(op[t].path) /\ f[1] = op[t].path
  BY <1>2, HashedIs
<1>4. op[t].kind = "read" /\ op' = [op EXCEPT ![t] = op[t]]
  BY <1>1, <1>2 DEF AssetsTyped
<1>5. /\ op[t].found = "none" /\ (op[t].missed => f \notin present)
      /\ Asks(t) /\ op[t].missed => Firm(g_card_miss, f)
  BY <1>1, <1>2 DEF Undisturbed, Searches, RemembersOnce
<1>6. Assets!miss_has(g_all_miss, f) <=> Remembers(g_all_miss, f)
  BY <1>3, FoundIfThere DEF Undisturbed, Absences
<1>7. CASE Remembers(g_all_miss, f)
  <2>1. l = "known" /\ l \in Reading
    BY <1>6, <1>7 DEF Reading
  <2>2. f \notin present /\ op[t].path \notin Translated \cup Bundled \cup Archived
    BY <1>3, <1>7 DEF Undisturbed, Absences
  <2>3. Where(t) = "none"
    BY <1>3, <2>2, Names DEF Where, AssetsTyped
  <2> HIDE DEF f, l
  <2> QED BY <1>1, <1>2, <1>3, <1>4, <1>5, <2>1, <2>2, <2>3, ReadGoesOn DEF f
<1>8. CASE ~Remembers(g_all_miss, f)
  <2>1. l = "bundle" /\ l \in Reading /\ Firm(g_all_miss, f)
    BY <1>6, <1>8 DEF Reading, Firm
  <2> HIDE DEF f, l
  <2> QED BY <1>1, <1>2, <1>3, <1>4, <1>5, <2>1, ReadGoesOn DEF f
<1> QED BY <1>7, <1>8

LEMMA BundledKeeps ==
  ASSUME AssetsTyped, Undisturbed, NEW t \in Threads, Assets!OpenBundled(t), ~tainted'
  PROVE  AssetsTyped' /\ Undisturbed'
<1> DEFINE f == Assets!Hashed(t)
           p == op[t].path
<1>1. pc[t] = "bundle" /\ UNCHANGED <<present, g_card_miss, g_all_miss, seen>>
  BY DEF Assets!OpenBundled, Assets!tables
<1>2. pc[t] \in Reading /\ pc[t] # "idle"
  BY <1>1 DEF Reading
<1>3. op[t] \in OpenOp /\ p \in Paths /\ f \in OnCard /\ f = Assets!fs_translate(p) /\ f[1] = p /\ f = <<p, op[t].at>>
  BY <1>2, HashedIs
<1>4. op[t].kind = "read"
  BY <1>2 DEF AssetsTyped
<1>5. /\ (op[t].missed => f \notin present) /\ (Asks(t) => Firm(g_all_miss, f))
      /\ (Asks(t) /\ op[t].missed => Firm(g_card_miss, f))
  BY <1>1, <1>2 DEF Undisturbed, Searches, RemembersOnce
<1>6. ASSUME NEW w \in Sources, Assets!Returns(t, w), w = Where(t)
      PROVE  AssetsTyped' /\ Undisturbed'
  <2> DEFINE r == [op[t] EXCEPT !.found = w]
  <2>1. pc' = [pc EXCEPT ![t] = "done"] /\ op' = [op EXCEPT ![t] = r]
    BY <1>6 DEF Assets!Returns, Assets!Goes, Assets!Does
  <2>2. r \in OpenOp /\ r.kind = op[t].kind /\ r.path = p /\ r.at = op[t].at /\ r.missed = op[t].missed /\ r.found = w
    BY <1>3, Returned
  <2>3. "done" \in Reading
    BY DEF Reading
  <2> HIDE DEF r, f, p
  <2> QED BY <1>1, <1>2, <1>4, <1>5, <1>6, <2>1, <2>2, <2>3, ReadGoesOn DEF f, p
<1>7. CASE p \in Translated
  <2>1. Assets!Returns(t, "translation") /\ Where(t) = "translation"
    BY <1>7 DEF Assets!OpenBundled, Assets!Fails, Where, Assets!Search
  <2> QED BY <1>6, <2>1 DEF Sources
<1>8. CASE p \in Bundled \ Translated
  <2>1. Assets!Returns(t, "bundle") /\ Where(t) = "bundle"
    BY <1>8 DEF Assets!OpenBundled, Assets!Fails, Where, Assets!Search
  <2> QED BY <1>6, <2>1 DEF Sources
<1>9. CASE p \notin Translated \cup Bundled
  <2> DEFINE l == IF p \in Cacheable /\ Assets!miss_has(g_card_miss, f) THEN "archive"
                  ELSE IF f[2] = "set" THEN "set" ELSE "root"
  <2>1. pc' = [pc EXCEPT ![t] = l] /\ op' = op
    BY <1>3, <1>9 DEF Assets!OpenBundled, Assets!Goes
  <2>2. op' = [op EXCEPT ![t] = op[t]]
    BY <2>1 DEF AssetsTyped
  <2>3. Assets!miss_has(g_card_miss, f) <=> Remembers(g_card_miss, f)
    BY <1>3, FoundIfThere DEF Undisturbed, Absences
  <2>4. f[2] \in {"set", "root"} /\ f[2] = op[t].at
    <3>1. Assets!fs_translate(p)[2] \in {"set", "root"}
      BY <1>3, Names DEF AssetsTyped
    <3> HIDE DEF f
    <3>2. f[2] = op[t].at
      BY ONLY <1>3
    <3> QED BY <1>3, <3>1, <3>2
  <2>5. CASE l = "archive"
    <3>1. f \notin present /\ l \in Reading
      BY <1>3, <2>3, <2>4, <2>5 DEF Undisturbed, Absences, Reading
    <3> HIDE DEF l, f, p
    <3> QED BY <1>1, <1>2, <1>3, <1>4, <1>5, <1>9, <2>1, <2>2, <2>5, <3>1, ReadGoesOn DEF f, p
  <2>6. CASE l # "archive"
    <3>1. /\ l = op[t].at /\ l \in {"set", "root"} /\ l \in Reading
          /\ Asks(t) => Firm(g_card_miss, f)
      BY <2>3, <2>4, <2>6 DEF Reading, Asks, Firm
    <3> HIDE DEF l, f, p
    <3> QED BY <1>1, <1>2, <1>3, <1>4, <1>5, <1>9, <2>1, <2>2, <2>6, <3>1, ReadGoesOn DEF f, p
  <2> QED BY <2>5, <2>6
<1> QED BY <1>7, <1>8, <1>9

LEMMA CardKeeps ==
  ASSUME AssetsTyped, Undisturbed, NEW t \in Threads, Assets!OpenCard(t), ~tainted'
  PROVE  AssetsTyped' /\ Undisturbed'
<1> DEFINE f == Assets!Hashed(t)
           p == op[t].path
<1>1. pc[t] \in {"set", "root"} /\ UNCHANGED <<present, g_card_miss, g_all_miss, seen>>
  BY DEF Assets!OpenCard, Assets!tables
<1>2. pc[t] \in Reading /\ pc[t] # "idle" /\ pc[t] \notin {"nowhere", "known"}
  BY <1>1 DEF Reading
<1>3. op[t] \in OpenOp /\ p \in Paths /\ f \in OnCard /\ f = Assets!fs_translate(p) /\ f[1] = p /\ f = <<p, op[t].at>>
  BY <1>2, HashedIs
<1>4. op[t].kind = "read"
  BY <1>2 DEF AssetsTyped
<1>5. /\ (op[t].missed => f \notin present) /\ (Asks(t) => Firm(g_all_miss, f))
      /\ (Asks(t) => Firm(g_card_miss, f)) /\ p \notin Translated \cup Bundled /\ pc[t] = op[t].at
  BY <1>1, <1>2 DEF Undisturbed, Searches, RemembersOnce
<1>6. f = <<p, pc[t]>>
  BY <1>3, <1>5
<1>7. CASE f \in present
  <2> DEFINE r == [op[t] EXCEPT !.found = pc[t]]
  <2>1. pc' = [pc EXCEPT ![t] = "done"] /\ op' = [op EXCEPT ![t] = r]
    BY <1>6, <1>7 DEF Assets!OpenCard, Assets!Returns, Assets!Goes, Assets!Does, Assets!Fails
  <2>2. pc[t] = Where(t) /\ pc[t] \in Sources
    <3>1. Where(t) = Assets!fs_translate(p)[2]
      BY <1>3, <1>5, <1>7, Names DEF Where, AssetsTyped
    <3> HIDE DEF f
    <3>2. f[2] = pc[t]
      BY ONLY <1>6
    <3> QED BY <1>1, <1>3, <3>1, <3>2 DEF Sources
  <2>3. r \in OpenOp /\ r.kind = op[t].kind /\ r.path = p /\ r.at = op[t].at /\ r.missed = op[t].missed /\ r.found = pc[t]
    BY <1>3, <2>2, Returned
  <2>4. "done" \in Reading
    BY DEF Reading
  <2> HIDE DEF r, f, p
  <2> QED BY <1>1, <1>2, <1>4, <1>5, <2>1, <2>2, <2>3, <2>4, ReadGoesOn DEF f, p
<1>8. CASE f \notin present
  <2> DEFINE r == [op[t] EXCEPT !.missed = TRUE]
  <2>1. pc' = [pc EXCEPT ![t] = "archive"] /\ op' = [op EXCEPT ![t] = r]
    BY <1>6, <1>8 DEF Assets!OpenCard, Assets!Goes, Assets!Does, Assets!Fails
  <2>2. r \in OpenOp /\ r.kind = op[t].kind /\ r.path = p /\ r.at = op[t].at
    BY <1>3, Missed
  <2>3. "archive" \in Reading
    BY DEF Reading
  <2> HIDE DEF r, f, p
  <2> QED BY <1>1, <1>2, <1>4, <1>5, <1>8, <2>1, <2>2, <2>3, ReadGoesOn DEF f, p
<1> QED BY <1>7, <1>8

LEMMA ArchiveKeeps ==
  ASSUME AssetsTyped, Undisturbed, NEW t \in Threads, Assets!obb_try_open(t)
  PROVE  AssetsTyped' /\ Undisturbed'
<1> DEFINE f == Assets!Hashed(t)
           p == op[t].path
           w == IF p \in Archived THEN "archive" ELSE "none"
           r == [op[t] EXCEPT !.found = w]
<1>1. /\ pc[t] = "archive" /\ UNCHANGED <<present, g_card_miss, g_all_miss, seen>>
      /\ pc' = [pc EXCEPT ![t] = "done"] /\ op' = [op EXCEPT ![t] = r]
  BY DEF Assets!obb_try_open, Assets!tables, Assets!Returns, Assets!Goes, Assets!Does
<1>2. pc[t] \in Reading /\ pc[t] # "idle" /\ pc[t] \notin {"nowhere", "known"} /\ "done" \in Reading
  BY <1>1 DEF Reading
<1>3. op[t] \in OpenOp /\ p \in Paths /\ f = Assets!fs_translate(p)
  BY <1>2, HashedIs
<1>4. op[t].kind = "read"
  BY <1>2 DEF AssetsTyped
<1>5. /\ (Asks(t) => Firm(g_all_miss, f)) /\ (Asks(t) /\ op[t].missed => Firm(g_card_miss, f))
      /\ p \notin Translated \cup Bundled /\ f \notin present
  BY <1>1, <1>2 DEF Undisturbed, Searches, RemembersOnce
<1>6. w = Where(t) /\ w \in Sources
  BY <1>3, <1>5, Names DEF Where, AssetsTyped, Sources
<1>7. r \in OpenOp /\ r.kind = op[t].kind /\ r.path = p /\ r.at = op[t].at /\ r.missed = op[t].missed /\ r.found = w
  BY <1>3, <1>6, Returned
<1> HIDE DEF r, f, p, w
<1> QED BY <1>1, <1>2, <1>4, <1>5, <1>6, <1>7, ReadGoesOn DEF f, p

\* An open that ends resets its thread.
LEMMA Ends ==
  ASSUME AssetsTyped, NEW t \in Threads, pc' = [pc EXCEPT ![t] = "idle"], op' = [op EXCEPT ![t] = Assets!NoOp],
         present' \subseteq OnCard, g_card_miss' \in Tables, g_all_miss' \in Tables,
         seen' \in [Threads -> SUBSET Sources]
  PROVE  AssetsTyped' /\ Alone(t) /\ pc'[t] = "idle"
BY TypesOf, Idles DEF Reading, Writing

LEMMA RememberKeeps ==
  ASSUME AssetsTyped, Undisturbed, NEW t \in Threads, Assets!Remember(t)
  PROVE  AssetsTyped' /\ Undisturbed'
<1> DEFINE f == Assets!Hashed(t)
           p == op[t].path
           learns == pc[t] = "done" /\ p \in Cacheable
           c == learns /\ op[t].missed
           a == learns /\ op[t].found = "none"
<1>1. /\ pc[t] \in {"done", "known"} /\ present' = present
      /\ pc' = [pc EXCEPT ![t] = "idle"] /\ op' = [op EXCEPT ![t] = Assets!NoOp] /\ seen' = [seen EXCEPT ![t] = {}]
      /\ g_card_miss' = IF c THEN Assets!miss_add(g_card_miss, f) ELSE g_card_miss
      /\ g_all_miss' = IF a THEN Assets!miss_add(g_all_miss, f) ELSE g_all_miss
  BY DEF Assets!Remember, Assets!Goes, Assets!Does
<1>2. pc[t] \in Reading /\ pc[t] # "idle"
  BY <1>1 DEF Reading
<1>3. op[t] \in OpenOp /\ p \in Paths /\ f \in OnCard /\ f = Assets!fs_translate(p) /\ f[1] = p
  BY <1>2, HashedIs
<1>4. /\ c => Firm(g_card_miss, f) /\ f \notin present /\ f[1] \in Cacheable
      /\ a => Firm(g_all_miss, f)
  BY <1>2, <1>3 DEF Undisturbed, Searches, RemembersOnce, Asks
<1>5. a => f \notin present /\ f[1] \in Cacheable /\ f[1] \notin Translated \cup Bundled \cup Archived
  <2> SUFFICES ASSUME a PROVE f \notin present /\ p \notin Translated \cup Bundled \cup Archived
    BY <1>3
  <2>1. Where(t) = "none"
    BY <1>1 DEF Undisturbed, Searches
  <2> QED BY <1>3, <2>1 DEF Where, Assets!Search, Assets!fs_translate, Assets!modset_redirect
<1>6. c \in BOOLEAN /\ a \in BOOLEAN
  BY <1>3 DEF OpenOp
<1> HIDE DEF f, p, c, a, learns
<1>7. /\ g_card_miss \in Tables /\ Tidy(g_card_miss) /\ g_all_miss \in Tables /\ Tidy(g_all_miss)
  BY DEF AssetsTyped, Undisturbed, Absences
<1>8. /\ g_card_miss' \in Tables /\ Tidy(g_card_miss)'
      /\ \A g \in OnCard : Remembers(g_card_miss', g) => Remembers(g_card_miss, g) \/ (c /\ g = f)
      /\ \A g \in OnCard : Firm(g_card_miss, g) => Firm(g_card_miss', g)
  BY <1>1, <1>3, <1>4, <1>6, <1>7, MayAdd
<1>9. /\ g_all_miss' \in Tables /\ Tidy(g_all_miss)'
      /\ \A g \in OnCard : Remembers(g_all_miss', g) => Remembers(g_all_miss, g) \/ (a /\ g = f)
      /\ \A g \in OnCard : Firm(g_all_miss, g) => Firm(g_all_miss', g)
  BY <1>1, <1>3, <1>4, <1>6, <1>7, MayAdd
<1>10. Absences'
  BY <1>1, <1>4, <1>5, <1>8, <1>9 DEF Undisturbed, Absences
<1>11. AssetsTyped' /\ Alone(t) /\ pc'[t] = "idle" /\ seen' \in [Threads -> SUBSET Sources]
  <2>1. seen' \in [Threads -> SUBSET Sources] /\ present' \subseteq OnCard
    BY <1>1 DEF AssetsTyped
  <2> QED BY <1>1, <1>8, <1>9, <2>1, Ends
<1>12. ASSUME NEW u \in Threads PROVE Searches(u)' /\ RemembersOnce(u)' /\ Translates(u)' /\ Forgot(u)'
  <2>1. CASE pc'[u] = "idle"
    BY <2>1 DEF Searches, RemembersOnce, Translates, Forgot, Reading
  <2>2. CASE pc'[u] # "idle"
    <3>1. u # t /\ pc'[u] = pc[u] /\ op'[u] = op[u] /\ seen'[u] = seen[u]
      BY <1>1, <1>11, <2>2 DEF Alone, AssetsTyped
    <3>2. /\ Assets!Hashed(u)' = Assets!Hashed(u) /\ Where(u)' = Where(u) /\ Asks(u)' = Asks(u)
          /\ Assets!fs_translate(op[u].path)' = Assets!fs_translate(op[u].path)
      BY <1>1, <3>1 DEF Assets!Hashed, Where, Asks, Assets!Search, Assets!fs_translate, Assets!modset_redirect
    <3>3. Searches(u) /\ RemembersOnce(u) /\ Translates(u) /\ Forgot(u)
      BY DEF Undisturbed
    <3>4. Searches(u)'
      BY <1>1, <3>1, <3>2, <3>3 DEF Searches
    <3>5. RemembersOnce(u)'
      <4>1. Assets!Hashed(u) \in OnCard
        BY <2>2, <3>1, HashedIs
      <4>2. /\ Firm(g_card_miss, Assets!Hashed(u)) => Firm(g_card_miss, Assets!Hashed(u))'
            /\ Firm(g_all_miss, Assets!Hashed(u)) => Firm(g_all_miss, Assets!Hashed(u))'
        BY <1>8, <1>9, <3>2, <4>1
      <4> QED BY <3>1, <3>2, <3>3, <4>2 DEF RemembersOnce
    <3>6. Translates(u)'
      BY <3>1, <3>2, <3>3 DEF Translates
    <3>7. Forgot(u)'
      BY <1>2, <3>1, <3>3 DEF Forgot
    <3> QED BY <3>4, <3>5, <3>6, <3>7
  <2> QED BY <2>1, <2>2
<1> QED BY <1>10, <1>11, <1>12 DEF Undisturbed

LEMMA ForgetsKeep ==
  ASSUME AssetsTyped, Undisturbed, NEW t \in Threads, Assets!Forgets(t), ~tainted'
  PROVE  AssetsTyped' /\ Undisturbed'
<1> DEFINE f == Assets!Hashed(t)
<1>1. /\ pc[t] = "forget" /\ present' = present /\ seen' = seen /\ op' = op
      /\ pc' = [pc EXCEPT ![t] = "create"]
      /\ g_card_miss' = Assets!miss_forget(g_card_miss, f)
      /\ g_all_miss' = Assets!miss_forget(g_all_miss, f)
      /\ \A u \in Threads \ {t} : pc[u] = "idle"
  BY DEF Assets!Forgets, Assets!Goes, Assets!Overlaps
<1>2. f \in OnCard /\ op[t] \in OpenOp /\ op[t].path \in Paths /\ f = Assets!fs_translate(op[t].path)
  BY <1>1, HashedIs
<1>3. /\ g_card_miss \in Tables /\ Tidy(g_card_miss) /\ g_all_miss \in Tables /\ Tidy(g_all_miss)
  BY DEF AssetsTyped, Undisturbed, Absences
<1> HIDE DEF f
<1>4. /\ g_card_miss' \in Tables /\ Tidy(g_card_miss)' /\ ~Remembers(g_card_miss', f)
      /\ \A g \in OnCard : Remembers(g_card_miss', g) => Remembers(g_card_miss, g)
  BY <1>1, <1>2, <1>3, ForgetKeeps
<1>5. /\ g_all_miss' \in Tables /\ Tidy(g_all_miss)' /\ ~Remembers(g_all_miss', f)
      /\ \A g \in OnCard : Remembers(g_all_miss', g) => Remembers(g_all_miss, g)
  BY <1>1, <1>2, <1>3, ForgetKeeps
<1>6. Absences'
  BY <1>1, <1>4, <1>5 DEF Undisturbed, Absences
<1>7. AssetsTyped' /\ Alone(t) /\ pc'[t] = "create"
  <2>1. op[t].kind = "write" /\ op' = [op EXCEPT ![t] = op[t]] /\ "create" \in Writing /\ "create" \notin Reading
    BY <1>1 DEF AssetsTyped, Writing, Reading
  <2>2. present' \subseteq OnCard /\ seen' \in [Threads -> SUBSET Sources]
    BY <1>1 DEF AssetsTyped
  <2> QED BY <1>1, <1>2, <1>4, <1>5, <2>1, <2>2, TypesOf
<1>8. \A u \in Threads : pc'[u] \notin Reading /\ (u # t => pc'[u] = "idle")
  BY <1>1, <1>7 DEF Alone, Reading
<1>9. Assets!Hashed(t)' = f /\ Assets!fs_translate(op[t].path)' = Assets!fs_translate(op[t].path)
  BY <1>1 DEF f, Assets!Hashed, Assets!fs_translate, Assets!modset_redirect
<1>10. ASSUME NEW u \in Threads PROVE Searches(u)' /\ RemembersOnce(u)' /\ Translates(u)' /\ Forgot(u)'
  <2>1. Searches(u)' /\ RemembersOnce(u)'
    BY <1>8 DEF Searches, RemembersOnce, Reading
  <2>2. CASE u = t
    BY <1>2, <1>4, <1>5, <1>8, <1>9, <2>1, <2>2 DEF Translates, Forgot
  <2>3. CASE u # t
    BY <1>8, <2>1, <2>3 DEF Translates, Forgot
  <2> QED BY <2>2, <2>3
<1> QED BY <1>6, <1>7, <1>10 DEF Undisturbed

LEMMA CreateKeeps ==
  ASSUME AssetsTyped, Undisturbed, NEW t \in Threads, Assets!Create(t), ~tainted'
  PROVE  AssetsTyped' /\ Undisturbed'
<1> DEFINE f == Assets!fs_translate(op[t].path)
<1>1. /\ pc[t] = "create" /\ UNCHANGED <<g_card_miss, g_all_miss>>
      /\ pc' = [pc EXCEPT ![t] = "idle"] /\ op' = [op EXCEPT ![t] = Assets!NoOp]
      /\ Assets!Changes(present \cup {f}) \/ UNCHANGED <<present, seen>>
      /\ \A u \in Threads \ {t} : pc[u] = "idle"
  BY DEF Assets!Create, Assets!Goes, Assets!Does, Assets!Overlaps, Assets!tables
<1>2. f \in OnCard /\ Assets!Hashed(t) = f
  BY <1>1, HashedIs
<1>3. ~Remembers(g_card_miss, f) /\ ~Remembers(g_all_miss, f)
  BY <1>1, <1>2 DEF Undisturbed, Forgot
<1> HIDE DEF f
<1>4. present' \subseteq present \cup {f} /\ seen' \in [Threads -> SUBSET Sources]
  BY <1>1, SeenTyped DEF Assets!Changes, AssetsTyped
<1>5. AssetsTyped' /\ Alone(t) /\ pc'[t] = "idle"
  <2>1. present' \subseteq OnCard /\ g_card_miss' \in Tables /\ g_all_miss' \in Tables
    BY <1>1, <1>2, <1>4 DEF AssetsTyped
  <2> QED BY <1>1, <1>4, <2>1, Ends
<1>6. Absences'
  BY <1>1, <1>2, <1>3, <1>4 DEF Undisturbed, Absences
<1>7. \A u \in Threads : pc'[u] = "idle"
  BY <1>1, <1>5 DEF Alone
<1> QED BY <1>5, <1>6, <1>7, Rests

\* Files come and go while nobody opens one.
LEMMA CardChanges ==
  ASSUME AssetsTyped, Undisturbed, NEW t \in Threads, pc[t] = "idle", ~Assets!Overlaps(t),
         NEW c \in SUBSET OnCard, Assets!Changes(c), UNCHANGED <<g_card_miss, g_all_miss, pc, op>>,
         \A f \in c \ present : f[1] \notin Cacheable
  PROVE  AssetsTyped' /\ Undisturbed'
<1>1. present' = c /\ \A u \in Threads : pc'[u] = "idle"
  BY DEF Assets!Changes, Assets!Overlaps
<1>2. AssetsTyped'
  BY <1>1, SeenTyped DEF AssetsTyped
<1>3. Absences'
  BY <1>1 DEF Undisturbed, Absences
<1> QED BY <1>1, <1>2, <1>3, Rests

LEMMA AssetsStep == AssetsIInv /\ Assets!Next => AssetsIInv'
<1> SUFFICES ASSUME AssetsIInv, Assets!Next, ~tainted' PROVE AssetsTyped' /\ Undisturbed'
  BY DEF AssetsIInv
<1>1. PICK t \in Threads :
        \/ \E p \in Paths : Assets!OpenRead(t, p) \/ Assets!OpenWrite(t, p) \/ Assets!fs_unlink(t, p)
        \/ \E p, q \in Paths : Assets!fs_rename(t, p, q)
        \/ Assets!Nowhere(t) \/ Assets!OpenBundled(t) \/ Assets!OpenCard(t) \/ Assets!obb_try_open(t)
        \/ Assets!Remember(t) \/ Assets!Forgets(t) \/ Assets!Create(t)
  BY DEF Assets!Next
<1>2. ~tainted
  BY <1>1 DEF Assets!OpenRead, Assets!OpenWrite, Assets!fs_unlink, Assets!fs_rename, Assets!Nowhere,
              Assets!OpenBundled, Assets!OpenCard, Assets!obb_try_open, Assets!Remember, Assets!Forgets,
              Assets!Create, Assets!Fails
<1>3. AssetsTyped /\ Undisturbed
  BY <1>2 DEF AssetsIInv
<1>4. ASSUME NEW p \in Paths, Assets!fs_unlink(t, p) PROVE AssetsTyped' /\ Undisturbed'
  <2>1. present \ {Assets!fs_translate(p)} \in SUBSET OnCard
    BY <1>3 DEF AssetsTyped
  <2> QED BY <1>3, <1>4, <2>1, CardChanges DEF Assets!fs_unlink, Assets!tables
<1>5. ASSUME NEW p \in Paths, NEW q \in Paths, Assets!fs_rename(t, p, q) PROVE AssetsTyped' /\ Undisturbed'
  <2> DEFINE c == (present \ {Assets!fs_translate(p)}) \cup {Assets!fs_translate(q)}
  <2>1. c \in SUBSET OnCard /\ \A f \in c \ present : f[1] \notin Cacheable
    <3>1. Assets!fs_translate(q) \in OnCard /\ Assets!fs_translate(q)[1] = q /\ q \notin Cacheable
      BY <1>3, <1>5, Names DEF AssetsTyped, Assets!fs_rename
    <3> QED BY <1>3, <3>1 DEF AssetsTyped
  <2>2. /\ pc[t] = "idle" /\ Assets!Changes(c) /\ ~Assets!Overlaps(t)
        /\ UNCHANGED <<g_card_miss, g_all_miss, pc, op>>
    BY <1>5 DEF Assets!fs_rename, Assets!tables
  <2> HIDE DEF c
  <2> QED BY <1>3, <2>1, <2>2, CardChanges
<1> QED BY <1>1, <1>3, <1>4, <1>5, ReadBegins, WriteBegins, NowhereKeeps, BundledKeeps, CardKeeps, ArchiveKeeps,
           RememberKeeps, ForgetsKeep, CreateKeeps

LEMMA AssetsStart == StorageInit => AssetsIInv
<1> SUFFICES ASSUME Assets!Init PROVE AssetsTyped /\ Undisturbed
  BY DEF StorageInit, AssetsIInv
<1>1. /\ pc = [t \in Threads |-> "idle"] /\ op = [t \in Threads |-> Assets!NoOp]
      /\ g_card_miss = [i \in Cells |-> Assets!Empty] /\ g_all_miss = [i \in Cells |-> Assets!Empty]
      /\ seen = [t \in Threads |-> {}] /\ present \subseteq OnCard
  BY DEF Assets!Init, Cells, OnCard
<1>2. AssetsTyped
  BY <1>1, Idles DEF AssetsTyped, Tables, Vacant, Reading, Writing
<1>3. \A f \in OnCard, n \in Cells : g_card_miss[Assets!At(f, n)] # f /\ g_all_miss[Assets!At(f, n)] # f
  BY <1>1, AtFacts, Distinct
<1>4. Absences
  BY <1>3 DEF Absences, Tidy, Remembers
<1> QED BY <1>1, <1>2, <1>4 DEF Undisturbed, Searches, RemembersOnce, Translates, Forgot, Reading

LEMMA AssetsInductive == AssetsIInv /\ [StorageNext]_all => AssetsIInv'
<1>1. ASSUME AssetsIInv, UNCHANGED assets PROVE AssetsIInv'
  BY <1>1 DEF assets, AssetsIInv, AssetsTyped, Undisturbed, Absences, Searches, RemembersOnce, Translates, Forgot,
     Where, Asks, Assets!Hashed, Assets!Search, Assets!fs_translate, Assets!modset_redirect
<1> QED BY <1>1, AssetsStep DEF StorageNext, Reads, Chooses, Keeps, Opens, all

\* The tables of what is not there never hide a file from an open that no change of the
\* card and no failure disturbed, whatever the hashes, however small the tables
\* (miss_has, miss_add and miss_forget, sdl_patch.c:629-690).
THEOREM TablesHideNothing == StorageSpec => []TablesTellTrue
<1>1. AssetsIInv => TablesTellTrue
  BY DEF AssetsIInv, Undisturbed, Searches, TablesTellTrue, Assets!TablesTellTrue, AssetsTyped, Reading
<1> QED BY <1>1, AssetsStart, AssetsInductive, PTL DEF StorageSpec

-----------------------------------------------------------------------------
(* What is chosen is what the next start reads.                            *)

EngineKeys == {Bias, Volume}
NoIni == Kept!NoFile
Setting == Langs \cup Translations \cup {"absent", "empty", "16", "32", Floor, Other}
Ini == [Kept!Keys -> Setting]
Inis == Ini \cup {NoIni}
Saving == {"write", "remove", "rename"}
Told == {"options", "bias", "mods", "menu", "choose", "texture", "picker", "mount", "game", "fatal"}
Resumes == {"mods", "picker", "mount"}

Writes == [out : Inis, far : BOOLEAN, lost : BOOLEAN, had : BOOLEAN, then : Resumes \cup {"off"}]

KeptTyped ==
  /\ ini \in Inis /\ new \in Inis /\ card_ini \in Inis
  /\ far \in BOOLEAN /\ big \in BOOLEAN
  /\ job \in Writes
  /\ phase \in {"off"} \cup Saving \cup Told
  /\ phase \in Saving => job.then \in Resumes
  /\ g_gl_tex16 \in BOOLEAN

\* The language and the translation that a file gives.
Speaks(f) ==
  LET tr == Kept!ini_get(f, "Translation")
      chosen == tr \in Translations /\ Kept!Has(tr)
  IN  /\ g_lang_id = IF chosen \/ Kept!ini_get(f, "Language") = "absent" THEN English
                     ELSE Kept!ini_get(f, "Language")
      /\ translation = IF chosen THEN tr ELSE "absent"

\* What has been chosen so far is in the file, or in what is being written over it.
SettingsSaved ==
  /\ phase \in Told /\ ~far => Speaks(ini)
  /\ phase \in Saving /\ ~job.lost /\ ~job.far => Speaks(job.out)
  /\ phase \in Told \ {"options"} => g_gl_tex16 = Kept!TexOf(Kept!read_whole_ini)
  /\ phase \in Saving /\ ~job.lost => g_gl_tex16 = Kept!TexOf(job.out)

ModsSaved ==
  /\ phase \in {"menu", "texture", "picker", "mount", "game", "fatal"} => Kept!ActiveSet = s_active
  /\ phase \in Saving /\ job.then # "mods" => Kept!ActiveSet = s_active
  /\ phase = "choose" => s_active = "empty" \/ (s_active \in Sets /\ Kept!Has(s_active))

\* What is being written is on the card by the time it takes the old file's place.
WrittenFirst ==
  /\ phase \in {"remove", "rename"} => new = job.out
  /\ phase = "rename" => ~big

\* A setting of the engine is remembered, or as the file had it at first.
EngineKept ==
  /\ phase # "game" => memo = Kept!NoKeys /\ card_ini = NoIni /\ spoiled = {}
  /\ \A k \in EngineKeys \ spoiled :
       IF k \in DOMAIN memo THEN memo[k] = Kept!ini_get(ini, k)
       ELSE card_ini # NoIni => Kept!ini_get(card_ini, k) \in {"absent", Kept!ini_get(ini, k)}

KeptIInv ==
  KeptTyped /\ WrittenFirst /\ EngineKept /\ (~unsaved => SettingsSaved /\ ModsSaved)

LEMMA SettingFacts ==
  /\ EngineKeys \subseteq Kept!Keys /\ {"Language", "Translation", "TextureBits"} \subseteq Kept!Keys
  /\ EngineKeys \cap {"Language", "Translation", "TextureBits"} = {}
  /\ Floor # "absent" /\ Other # "absent"
BY StorageAssumption DEF EngineKeys, Kept!Keys

LEMMA FileFacts ==
  /\ NoIni \notin Ini /\ Kept!Blank \in Ini
  /\ \A k : Kept!ini_get(NoIni, k) = "absent"
  /\ \A k \in Kept!Keys : Kept!ini_get(Kept!Blank, k) = "absent"
  /\ \A f \in Inis, k \in Kept!Keys : Kept!ini_get(f, k) \in Setting
<1>1. Kept!Keys # {} BY DEF Kept!Keys
<1>2. Kept!Absent = "absent" BY DEF Kept!Absent
<1>3. NoIni \notin Ini BY <1>1 DEF Ini, NoIni, Kept!NoFile
<1>4. Kept!Blank \in Ini /\ \A k \in Kept!Keys : Kept!Blank[k] = "absent"
  BY <1>2 DEF Kept!Blank, Ini, Setting
<1> QED BY <1>2, <1>3, <1>4 DEF Kept!ini_get, Ini, Inis, Setting, NoIni

LEMMA SetFacts ==
  ASSUME NEW f \in Inis, NEW k \in Kept!Keys, NEW v \in Setting
  PROVE  /\ Kept!ini_set(f, k, v) \in Ini /\ Kept!ini_set(f, k, v) # NoIni
         /\ Kept!ini_get(Kept!ini_set(f, k, v), k) = v
         /\ \A x \in Kept!Keys : x # k => Kept!ini_get(Kept!ini_set(f, k, v), x) = Kept!ini_get(f, x)
<1> DEFINE b == IF f = NoIni THEN Kept!Blank ELSE f
           s == [b EXCEPT ![k] = v]
<1>1. b \in Ini /\ Kept!ini_set(f, k, v) = s
  BY FileFacts DEF Inis, Kept!ini_set, NoIni
<1>2. \A x \in Kept!Keys : b[x] = Kept!ini_get(f, x)
  BY FileFacts DEF Kept!ini_get, NoIni, Kept!Blank, Kept!Absent
<1> HIDE DEF b
<1>3. s \in Ini /\ s[k] = v /\ \A x \in Kept!Keys : x # k => s[x] = b[x]
  BY <1>1 DEF Ini
<1>4. s # NoIni /\ \A x : Kept!ini_get(s, x) = s[x]
  BY <1>3, FileFacts DEF Kept!ini_get, NoIni
<1> QED BY <1>1, <1>2, <1>3, <1>4

LEMMA SpeaksAlike ==
  ASSUME NEW f, NEW g, Kept!ini_get(f, "Language") = Kept!ini_get(g, "Language"),
         Kept!ini_get(f, "Translation") = Kept!ini_get(g, "Translation")
  PROVE  Speaks(f) <=> Speaks(g)
BY DEF Speaks

LEMMA SpeaksOn ==
  ASSUME UNCHANGED <<g_lang_id, translation, folders>>, NEW f
  PROVE  Speaks(f)' <=> Speaks(f)
BY DEF Speaks, Kept!Has

\* Until the game runs, nothing of the engine is remembered.
LEMMA NothingYet ==
  ASSUME memo = Kept!NoKeys, card_ini = NoIni, spoiled = {} PROVE EngineKept
BY DEF EngineKept, Kept!NoKeys

LEMMA BeforeTheGame ==
  ASSUME KeptIInv, phase # "game", UNCHANGED Kept!filter PROVE EngineKept'
<1>1. memo' = Kept!NoKeys /\ card_ini' = NoIni /\ spoiled' = {}
  BY DEF KeptIInv, EngineKept, Kept!filter
<1> QED BY <1>1 DEF EngineKept, Kept!NoKeys

LEMMA Phases ==
  /\ "off" \notin Told \cup Saving \cup Resumes /\ Resumes \subseteq Told \ {"options", "game"} /\ Told \cap Saving = {}
BY DEF Told, Saving, Resumes

LEMMA NoWrite == Kept!NoJob \in Writes
BY DEF Kept!NoJob, Writes, Inis, NoIni

LEMMA NewWritten ==
  ASSUME KeptIInv, Kept!WriteNew
  PROVE  KeptIInv'
<1> USE DEF Kept!card, Kept!language, Kept!mods, Kept!filter, Kept!Goes
<1>1. /\ phase = "write" /\ UNCHANGED <<ini, far, big, folders, active, s_active, g_lang_id, translation, g_gl_tex16, card_ini, memo, spoiled>>
      /\ \/ new' = job.out /\ phase' = "remove" /\ job' = job /\ unsaved' = unsaved
         \/ new' = NoIni /\ phase' = job.then /\ job' = Kept!NoJob /\ unsaved'
  BY DEF Kept!WriteNew, NoIni
<1>2. EngineKept'
  BY <1>1, BeforeTheGame DEF Kept!WriteNew
<1>3. KeptTyped' /\ WrittenFirst'
  <2>1. job.then \in Resumes /\ job.out \in Inis
    BY <1>1 DEF KeptIInv, KeptTyped, Saving, Writes
  <2>2. "remove" \in Saving /\ "write" \in Saving /\ NoIni \in Inis
    BY DEF Saving, Inis
  <2>3. phase' = "remove" \/ phase' \in Resumes
    BY <1>1, <2>1
  <2> HIDE DEF Kept!card, Kept!language, Kept!mods, Kept!filter
  <2>4. KeptTyped'
    BY <1>1, <2>1, <2>2, <2>3, Phases, NoWrite DEF KeptIInv, KeptTyped
  <2>5. WrittenFirst'
    BY <1>1, <2>1 DEF WrittenFirst, Resumes
  <2> QED BY <2>4, <2>5
<1>4. ~unsaved' => SettingsSaved' /\ ModsSaved'
  <2> SUFFICES ASSUME ~unsaved' PROVE SettingsSaved' /\ ModsSaved'
    OBVIOUS
  <2>1. phase' = "remove" /\ job' = job /\ ~unsaved /\ \A f : Speaks(f)' <=> Speaks(f)
    BY <1>1, SpeaksOn
  <2> QED BY <1>1, <2>1 DEF KeptIInv, SettingsSaved, ModsSaved, Saving, Told, Kept!ActiveSet, Kept!Has, Kept!TexOf, Kept!ini_get
<1> QED BY <1>2, <1>3, <1>4 DEF KeptIInv

LEMMA OldRemoved ==
  ASSUME KeptIInv, Kept!RemoveOld
  PROVE  KeptIInv'
<1>1. /\ phase = "remove" /\ phase' = "rename" /\ ini' = NoIni /\ far' = FALSE /\ big' = FALSE
      /\ UNCHANGED <<new, active, folders, job, s_active, unsaved, g_lang_id, translation, g_gl_tex16, card_ini>>
      /\ UNCHANGED Kept!filter
  BY DEF Kept!RemoveOld, Kept!Goes, NoIni, Kept!mods, Kept!language, Kept!filter
<1>2. EngineKept'
  BY <1>1, BeforeTheGame
<1>3. KeptTyped' /\ WrittenFirst'
  BY <1>1 DEF KeptIInv, KeptTyped, WrittenFirst, Saving, Inis
<1>4. ~unsaved' => SettingsSaved' /\ ModsSaved'
  BY <1>1, SpeaksOn DEF KeptIInv, SettingsSaved, ModsSaved, Saving, Told, Kept!ActiveSet, Kept!Has, Kept!TexOf, Kept!ini_get
<1> QED BY <1>2, <1>3, <1>4 DEF KeptIInv

LEMMA Renamed ==
  ASSUME KeptIInv, Kept!Rename
  PROVE  KeptIInv'
<1>1. /\ phase = "rename" /\ phase' = job.then /\ job' = Kept!NoJob
      /\ \/ ini' = new /\ new' = NoIni /\ far' = job.far /\ unsaved' = (unsaved \/ job.lost)
         \/ unsaved' /\ ini' = ini /\ new' = new /\ far' = far
      /\ UNCHANGED <<big, active, folders, s_active, g_lang_id, translation, g_gl_tex16, card_ini>>
      /\ UNCHANGED Kept!filter
  BY DEF Kept!Rename, Kept!Goes, NoIni, Kept!mods, Kept!language, Kept!filter
<1>2. EngineKept'
  BY <1>1, BeforeTheGame
<1>3. job.then \in Resumes /\ job.far \in BOOLEAN /\ new = job.out /\ ~big
  BY <1>1 DEF KeptIInv, KeptTyped, WrittenFirst, Saving, Writes
<1>4. KeptTyped'
  BY <1>1, <1>3, Phases, NoWrite DEF KeptIInv, KeptTyped, Inis
<1>5. WrittenFirst'
  BY <1>1, <1>3 DEF WrittenFirst, Resumes
<1>6. ~unsaved' => SettingsSaved' /\ ModsSaved'
  <2> SUFFICES ASSUME ~unsaved' PROVE SettingsSaved' /\ ModsSaved'
    OBVIOUS
  <2>1. ~unsaved /\ ~job.lost /\ ini' = job.out /\ far' = job.far /\ \A f : Speaks(f)' <=> Speaks(f)
    BY <1>1, <1>3, SpeaksOn
  <2>2. Kept!read_whole_ini' = job.out
    BY <1>1, <1>3, <2>1 DEF Kept!read_whole_ini
  <2>3. phase \in Saving
    BY <1>1 DEF Saving
  <2>4. SettingsSaved'
    BY <1>1, <1>3, <2>1, <2>2, <2>3, Phases DEF KeptIInv, SettingsSaved, Kept!TexOf, Kept!ini_get
  <2>5. ModsSaved'
    BY <1>1, <1>3, <2>1, <2>3, Phases DEF KeptIInv, ModsSaved, Kept!ActiveSet, Kept!Has, Resumes
  <2> QED BY <2>4, <2>5
<1> QED BY <1>2, <1>4, <1>5, <1>6 DEF KeptIInv

LEMMA LanguageResolved ==
  ASSUME KeptIInv, Kept!resolve_language
  PROVE  KeptIInv'
<1>1. /\ phase = "off" /\ phase' = "options"
      /\ g_lang_id' = Kept!ResolvedId /\ translation' = Kept!ResolvedTranslation
      /\ UNCHANGED Kept!card /\ UNCHANGED <<job, g_gl_tex16>> /\ UNCHANGED Kept!filter
  BY DEF Kept!resolve_language, Kept!Goes
<1>2. EngineKept'
  BY <1>1, BeforeTheGame
<1>3. KeptTyped' /\ WrittenFirst'
  BY <1>1 DEF KeptIInv, KeptTyped, WrittenFirst, Saving, Told, Kept!card, Kept!filter
<1>4. ~far => Speaks(ini)'
  BY <1>1 DEF Speaks, Kept!ResolvedId, Kept!ResolvedTranslation, Kept!TranslationChosen, Kept!Head, Kept!card,
              Kept!Has, Kept!Absent, Kept!ini_get
<1>5. SettingsSaved' /\ ModsSaved'
  BY <1>1, <1>4 DEF SettingsSaved, ModsSaved, Saving, Told, Kept!card
<1> QED BY <1>2, <1>3, <1>5 DEF KeptIInv

LEMMA OptionsRead ==
  ASSUME KeptIInv, Kept!read_vita_options
  PROVE  KeptIInv'
<1>1. /\ phase = "options" /\ phase' = "bias" /\ g_gl_tex16' = Kept!TexOf(Kept!read_whole_ini)
      /\ UNCHANGED Kept!card /\ UNCHANGED <<job, unsaved>> /\ UNCHANGED Kept!filter /\ UNCHANGED Kept!language
  BY DEF Kept!read_vita_options, Kept!Goes
<1>2. EngineKept'
  BY <1>1, BeforeTheGame
<1>3. KeptTyped' /\ WrittenFirst'
  BY <1>1 DEF KeptIInv, KeptTyped, WrittenFirst, Saving, Told, Kept!card, Kept!filter, Kept!TexOf
<1>4. Kept!TexOf(Kept!read_whole_ini)' = Kept!TexOf(Kept!read_whole_ini)
  BY <1>1 DEF Kept!TexOf, Kept!read_whole_ini, Kept!card, Kept!ini_get
<1>5. Speaks(ini)' <=> Speaks(ini)
  BY <1>1, SpeaksOn DEF Kept!card, Kept!language
<1>6. ~unsaved' => SettingsSaved' /\ ModsSaved'
  BY <1>1, <1>4, <1>5 DEF KeptIInv, SettingsSaved, ModsSaved, Saving, Told, Kept!card
<1> QED BY <1>2, <1>3, <1>6 DEF KeptIInv

\* A write begins.
LEMMA Replacing ==
  ASSUME KeptTyped, NEW out \in Inis, NEW p \in Resumes, Kept!Replaces(out, p)
  PROVE  /\ job' \in Writes /\ job'.out = out /\ job'.far = (far /\ ~big) /\ job'.lost = big /\ job'.then = p
         /\ phase' = "write"
<1>1. /\ phase' = "write"
      /\ job' = [out |-> out, far |-> far /\ ~big, lost |-> big, had |-> ini # Kept!NoFile, then |-> p]
  BY DEF Kept!Replaces, Kept!Goes
<1>2. far \in BOOLEAN /\ big \in BOOLEAN
  BY DEF KeptTyped
<1> QED BY <1>1, <1>2 DEF Writes

\* What a file is read as, but for the keys that were set in it.
LEMMA ReadWhole == KeptTyped => Kept!read_whole_ini \in Inis /\ (~big => Kept!read_whole_ini = ini)
BY DEF KeptTyped, Kept!read_whole_ini, Inis, NoIni

LEMMA BiasRepaired ==
  ASSUME KeptIInv, Kept!repair_sound_bias
  PROVE  KeptIInv'
<1>1. /\ phase = "bias" /\ UNCHANGED Kept!card /\ UNCHANGED <<g_gl_tex16, unsaved>> /\ UNCHANGED Kept!filter
      /\ UNCHANGED Kept!language /\ UNCHANGED Kept!mods
  BY DEF Kept!repair_sound_bias
<1>2. EngineKept'
  BY <1>1, BeforeTheGame
<1>3. KeptTyped /\ ini \in Inis
  BY DEF KeptIInv, KeptTyped
<1>4. /\ Kept!TexOf(Kept!read_whole_ini)' = Kept!TexOf(Kept!read_whole_ini)
      /\ \A f : Speaks(f)' <=> Speaks(f)
  BY <1>1, SpeaksOn DEF Kept!TexOf, Kept!read_whole_ini, Kept!card, Kept!ini_get, Kept!language
<1>5. CASE phase' = "mods" /\ job' = job
  <2>1. KeptTyped' /\ WrittenFirst'
    BY <1>1, <1>5 DEF KeptIInv, KeptTyped, WrittenFirst, Saving, Told, Kept!card, Kept!filter
  <2>2. ~unsaved' => SettingsSaved' /\ ModsSaved'
    BY <1>1, <1>4, <1>5 DEF KeptIInv, SettingsSaved, ModsSaved, Saving, Told, Kept!card
  <2> QED BY <1>2, <2>1, <2>2 DEF KeptIInv
<1>6. ASSUME NEW out, out = Kept!ini_set(ini, Bias, Other), Kept!Replaces(out, "mods"),
             Kept!ini_get(Kept!read_whole_ini, Bias) = Floor
      PROVE  KeptIInv'
  <2>1. ~big
    BY <1>6, FileFacts, SettingFacts DEF Kept!read_whole_ini, NoIni
  <2>2. /\ out \in Inis /\ \A x \in {"Language", "Translation", "TextureBits"} : Kept!ini_get(out, x) = Kept!ini_get(ini, x)
    <3>1. Bias \in Kept!Keys /\ Other \in Setting /\ Bias \notin {"Language", "Translation", "TextureBits"}
      BY SettingFacts DEF EngineKeys, Setting
    <3>2. \A x \in {"Language", "Translation", "TextureBits"} : x \in Kept!Keys /\ x # Bias
      BY <3>1, SettingFacts
    <3>3. out \in Ini /\ \A x \in Kept!Keys : x # Bias => Kept!ini_get(out, x) = Kept!ini_get(ini, x)
      BY ONLY <1>3, <1>6, <3>1, SetFacts
    <3> QED BY ONLY <3>2, <3>3 DEF Inis
  <2>3. /\ job' \in Writes /\ job'.out = out /\ job'.far = far /\ job'.lost = big /\ job'.then = "mods"
        /\ phase' = "write"
    BY <1>3, <1>6, <2>1, <2>2, Replacing DEF Resumes, KeptTyped
  <2>4. KeptTyped' /\ WrittenFirst'
    BY <1>1, <1>3, <2>3 DEF KeptTyped, WrittenFirst, Saving, Resumes, Kept!card, Kept!filter
  <2>5. Speaks(out) <=> Speaks(ini)
    BY <2>2, SpeaksAlike
  <2>6. Kept!TexOf(job'.out) = Kept!TexOf(Kept!read_whole_ini)
    BY <1>3, <2>1, <2>2, <2>3, ReadWhole DEF Kept!TexOf
  <2>7. SettingsSaved => SettingsSaved'
    <3>1. Kept!TexOf(job.out)' = Kept!TexOf(job'.out)
      BY DEF Kept!TexOf, Kept!ini_get
    <3>2. Speaks(job.out)' <=> Speaks(ini)
      BY <1>4, <2>3, <2>5
    <3> QED BY <1>1, <2>3, <2>6, <3>1, <3>2 DEF SettingsSaved, Saving, Told, Kept!card
  <2>8. ModsSaved'
    BY <2>3 DEF ModsSaved, Saving
  <2> QED BY <1>1, <1>2, <2>4, <2>7, <2>8 DEF KeptIInv
<1> QED BY <1>5, <1>6 DEF Kept!repair_sound_bias, Kept!Goes

LEMMA SetsScanned ==
  ASSUME KeptIInv, Kept!modset_scan
  PROVE  KeptIInv'
<1>1. /\ phase = "mods" /\ phase' = "menu" /\ s_active' = Kept!ActiveSet
      /\ UNCHANGED <<ini, new, far, big, active, folders, job, g_gl_tex16, unsaved>> /\ UNCHANGED Kept!filter
      /\ UNCHANGED Kept!language
  BY DEF Kept!modset_scan, Kept!Goes
<1>2. EngineKept'
  BY <1>1, BeforeTheGame
<1>3. KeptTyped' /\ WrittenFirst'
  BY <1>1 DEF KeptIInv, KeptTyped, WrittenFirst, Saving, Told, Kept!filter
<1>4. /\ Kept!TexOf(Kept!read_whole_ini)' = Kept!TexOf(Kept!read_whole_ini)
      /\ \A f : Speaks(f)' <=> Speaks(f)
      /\ Kept!ActiveSet' = Kept!ActiveSet
  BY <1>1, SpeaksOn DEF Kept!TexOf, Kept!read_whole_ini, Kept!ini_get, Kept!language, Kept!ActiveSet, Kept!Has
<1>5. ~unsaved' => SettingsSaved' /\ ModsSaved'
  BY <1>1, <1>4 DEF KeptIInv, SettingsSaved, ModsSaved, Saving, Told
<1> QED BY <1>2, <1>3, <1>5 DEF KeptIInv

\* Steps that change nothing of what is kept.
LEMMA NothingKept ==
  ASSUME KeptIInv, UNCHANGED <<ini, new, far, big, active, folders, job, g_gl_tex16, unsaved>>, UNCHANGED Kept!filter,
         UNCHANGED Kept!language, UNCHANGED s_active,
         \/ phase' = phase
         \/ phase = "menu" /\ phase' = "picker"
         \/ phase = "texture" /\ phase' = "picker"
         \/ phase = "picker" /\ phase' = "mount"
         \/ phase = "mount" /\ phase' \in {"game", "fatal"}
  PROVE  KeptIInv'
<1>1. EngineKept'
  BY DEF KeptIInv, EngineKept, Kept!filter, Kept!NoKeys, Kept!ini_get
<1>2. KeptTyped' /\ WrittenFirst'
  BY DEF KeptIInv, KeptTyped, WrittenFirst, Saving, Told, Kept!filter
<1>3. /\ Kept!TexOf(Kept!read_whole_ini)' = Kept!TexOf(Kept!read_whole_ini)
      /\ \A f : Speaks(f)' <=> Speaks(f) /\ Kept!TexOf(f)' = Kept!TexOf(f)
      /\ Kept!ActiveSet' = Kept!ActiveSet /\ \A x : Kept!Has(x)' <=> Kept!Has(x)
  BY SpeaksOn DEF Kept!TexOf, Kept!read_whole_ini, Kept!ini_get, Kept!language, Kept!ActiveSet, Kept!Has
<1>4. SettingsSaved => SettingsSaved'
  BY <1>3 DEF SettingsSaved, Saving, Told, Kept!TexOf, Kept!ini_get
<1>5. ModsSaved => ModsSaved'
  BY <1>3 DEF ModsSaved, Saving, Told
<1> QED BY <1>1, <1>2, <1>4, <1>5 DEF KeptIInv

LEMMA SetOffered ==
  ASSUME KeptIInv, Kept!offer_mod_menu
  PROVE  KeptIInv'
<1>1. /\ phase = "menu" /\ UNCHANGED <<ini, new, far, big, folders, job, g_gl_tex16>>
      /\ UNCHANGED Kept!filter /\ UNCHANGED Kept!language
  BY DEF Kept!offer_mod_menu
<1>2. CASE phase' = "picker" /\ UNCHANGED <<active, s_active, unsaved>>
  BY <1>1, <1>2, NothingKept
<1>3. CASE /\ s_active' \in {s \in Sets : Kept!Has(s)} \cup {Kept!Empty}
           /\ \/ phase' = "choose" /\ UNCHANGED unsaved
              \/ unsaved' = TRUE /\ phase' = "texture"
  <2>1. EngineKept'
    BY <1>1, BeforeTheGame
  <2>2. KeptTyped' /\ WrittenFirst'
    BY <1>1, <1>3 DEF KeptIInv, KeptTyped, WrittenFirst, Saving, Told, Kept!filter
  <2>3. ASSUME ~unsaved' PROVE SettingsSaved' /\ ModsSaved'
    <3>1. phase' = "choose" /\ ~unsaved
      BY <1>3, <2>3
    <3>2. /\ Kept!TexOf(Kept!read_whole_ini)' = Kept!TexOf(Kept!read_whole_ini)
          /\ Speaks(ini)' <=> Speaks(ini)
      BY <1>1, SpeaksOn DEF Kept!TexOf, Kept!read_whole_ini, Kept!ini_get, Kept!language
    <3>3. SettingsSaved'
      BY <1>1, <3>1, <3>2 DEF KeptIInv, SettingsSaved, Saving, Told
    <3>4. ModsSaved'
      BY <1>1, <1>3, <3>1 DEF ModsSaved, Saving, Kept!Has, Kept!Empty
    <3> QED BY <3>3, <3>4
  <2> QED BY <2>1, <2>2, <2>3 DEF KeptIInv
<1> QED BY <1>2, <1>3 DEF Kept!offer_mod_menu, Kept!Goes

LEMMA SetChosen ==
  ASSUME KeptIInv, Kept!modset_choose
  PROVE  KeptIInv'
<1>1. /\ phase = "choose" /\ phase' = "texture" /\ UNCHANGED <<ini, new, far, big, folders, job, g_gl_tex16, s_active>>
      /\ UNCHANGED Kept!filter /\ UNCHANGED Kept!language
      /\ (active' = s_active /\ unsaved' = unsaved) \/ unsaved'
  BY DEF Kept!modset_choose, Kept!Goes, Kept!mods
<1>2. EngineKept'
  BY <1>1, BeforeTheGame
<1>3. KeptTyped' /\ WrittenFirst'
  BY <1>1 DEF KeptIInv, KeptTyped, WrittenFirst, Saving, Told, Kept!filter
<1>4. ASSUME ~unsaved' PROVE SettingsSaved' /\ ModsSaved'
  <2>1. active' = s_active /\ ~unsaved
    BY <1>1, <1>4
  <2>2. /\ Kept!TexOf(Kept!read_whole_ini)' = Kept!TexOf(Kept!read_whole_ini)
        /\ Speaks(ini)' <=> Speaks(ini)
    BY <1>1, SpeaksOn DEF Kept!TexOf, Kept!read_whole_ini, Kept!ini_get, Kept!language
  <2>3. SettingsSaved'
    BY <1>1, <2>1, <2>2 DEF KeptIInv, SettingsSaved, Saving, Told
  <2>4. ModsSaved'
    BY <1>1, <2>1 DEF KeptIInv, ModsSaved, Saving, Kept!Has, Kept!Empty, Kept!ActiveSet
  <2> QED BY <2>3, <2>4
<1> QED BY <1>2, <1>3, <1>4 DEF KeptIInv

\* A menu before the game begins a write.
LEMMA MenuSaves ==
  ASSUME KeptIInv, phase \in {"texture", "picker"}, NEW out \in Inis, Kept!Replaces(out, IF phase = "texture" THEN "picker" ELSE "mount"),
         UNCHANGED Kept!card, UNCHANGED <<s_active, unsaved>>, UNCHANGED Kept!filter,
         g_gl_tex16' \in BOOLEAN,
         SettingsSaved /\ ~big => (~far => Speaks(out)') /\ g_gl_tex16' = Kept!TexOf(out)
  PROVE  KeptIInv'
<1>1. EngineKept'
  BY BeforeTheGame
<1>2. /\ job' \in Writes /\ job'.out = out /\ job'.far = (far /\ ~big) /\ job'.lost = big
      /\ job'.then \in Resumes /\ job'.then # "mods" /\ phase' = "write" /\ big \in BOOLEAN
  BY Replacing DEF KeptIInv, KeptTyped, Resumes
<1>3. KeptTyped' /\ WrittenFirst'
  BY <1>2 DEF KeptIInv, KeptTyped, WrittenFirst, Saving, Kept!card, Kept!filter
<1>4. ModsSaved => ModsSaved'
  BY <1>2 DEF ModsSaved, Saving, Kept!card, Kept!ActiveSet, Kept!Has
<1>5. SettingsSaved => SettingsSaved'
  <2>1. Kept!TexOf(job.out)' = Kept!TexOf(out) /\ (Speaks(job.out)' <=> Speaks(out)')
    BY <1>2 DEF Kept!TexOf, Kept!ini_get, Speaks
  <2> QED BY <1>2, <2>1 DEF SettingsSaved, Saving, Told
<1> QED BY <1>1, <1>3, <1>4, <1>5 DEF KeptIInv

LEMMA TextureOffered ==
  ASSUME KeptIInv, Kept!offer_texture_menu
  PROVE  KeptIInv'
<1>1. /\ phase = "texture" /\ UNCHANGED Kept!card /\ UNCHANGED <<unsaved, s_active>> /\ UNCHANGED Kept!filter
      /\ UNCHANGED Kept!language
  BY DEF Kept!offer_texture_menu, Kept!mods
<1>2. CASE phase' = "picker" /\ UNCHANGED <<job, g_gl_tex16>>
  BY <1>1, <1>2, NothingKept DEF Kept!card
<1>3. ASSUME NEW v \in {"16", "32"}, NEW out, out = Kept!ini_set(Kept!read_whole_ini, "TextureBits", v),
             g_gl_tex16' = (v = "16"), Kept!Replaces(out, "picker")
      PROVE  KeptIInv'
  <2>1. KeptTyped /\ Kept!read_whole_ini \in Inis /\ (~big => Kept!read_whole_ini = ini)
    BY ReadWhole DEF KeptIInv
  <2>2. "TextureBits" \in Kept!Keys /\ v \in Setting /\ {"Language", "Translation"} \subseteq Kept!Keys
    BY SettingFacts DEF Setting
  <2>3. /\ out \in Inis /\ Kept!ini_get(out, "TextureBits") = v
        /\ Kept!ini_get(out, "Language") = Kept!ini_get(Kept!read_whole_ini, "Language")
        /\ Kept!ini_get(out, "Translation") = Kept!ini_get(Kept!read_whole_ini, "Translation")
    <3>1. /\ out \in Ini /\ Kept!ini_get(out, "TextureBits") = v
          /\ \A x \in Kept!Keys : x # "TextureBits" => Kept!ini_get(out, x) = Kept!ini_get(Kept!read_whole_ini, x)
      BY ONLY <1>3, <2>1, <2>2, SetFacts
    <3> QED BY ONLY <2>2, <3>1 DEF Inis
  <2>4. g_gl_tex16' = Kept!TexOf(out)
    BY <1>3, <2>3 DEF Kept!TexOf
  <2>5. SettingsSaved /\ ~big => (~far => Speaks(out)')
    <3>1. Speaks(out)' <=> Speaks(out)
      BY <1>1, SpeaksOn DEF Kept!card, Kept!language
    <3>2. ~big => (Speaks(out) <=> Speaks(ini))
      BY <2>1, <2>3, SpeaksAlike
    <3> QED BY <1>1, <3>1, <3>2 DEF SettingsSaved, Told
  <2> QED BY <1>1, <1>3, <2>3, <2>4, <2>5, MenuSaves
<1>4. ASSUME phase' # "picker" \/ ~UNCHANGED <<job, g_gl_tex16>>
      PROVE  /\ g_gl_tex16' \in BOOLEAN
             /\ Kept!Replaces(Kept!ini_set(Kept!read_whole_ini, "TextureBits", IF g_gl_tex16' THEN "16" ELSE "32"), "picker")
  BY <1>4 DEF Kept!offer_texture_menu, Kept!Goes
<1>5. CASE g_gl_tex16' = TRUE /\ Kept!Replaces(Kept!ini_set(Kept!read_whole_ini, "TextureBits", "16"), "picker")
  BY <1>3, <1>5
<1>6. CASE g_gl_tex16' = FALSE /\ Kept!Replaces(Kept!ini_set(Kept!read_whole_ini, "TextureBits", "32"), "picker")
  BY <1>3, <1>6
<1> QED BY <1>2, <1>4, <1>5, <1>6

\* What the picker writes says what was picked.
LEMMA WrittenSpeaks ==
  ASSUME KeptTyped, NEW id \in Langs, NEW tr \in Translations \cup {"absent"}, tr # "absent" => Kept!Has(tr) /\ id = English
  PROVE  LET out == Kept!Written(id, tr)
         IN  /\ out \in Inis
             /\ ~big => Kept!ini_get(out, "TextureBits") = Kept!ini_get(ini, "TextureBits")
             /\ LET read == Kept!ini_get(out, "Translation")
                    chosen == read \in Translations /\ Kept!Has(read)
                IN  /\ id = IF chosen \/ Kept!ini_get(out, "Language") = "absent" THEN English
                             ELSE Kept!ini_get(out, "Language")
                    /\ tr = IF chosen THEN read ELSE "absent"
<1> DEFINE f == Kept!ini_set(Kept!read_whole_ini, "Language", id)
           w == Kept!Written(id, tr)
<1>1. Kept!read_whole_ini \in Inis /\ (~big => Kept!read_whole_ini = ini)
  BY ReadWhole
<1>2. /\ "Language" \in Kept!Keys /\ "Translation" \in Kept!Keys /\ "TextureBits" \in Kept!Keys
      /\ id \in Setting /\ tr \in Setting /\ "empty" \in Setting /\ id # "absent"
      /\ "absent" \notin Translations /\ "empty" \notin Translations
  BY SettingFacts, StorageAssumption DEF Setting
<1>3. /\ f \in Ini /\ Kept!ini_get(f, "Language") = id
      /\ Kept!ini_get(f, "TextureBits") = Kept!ini_get(Kept!read_whole_ini, "TextureBits")
  BY ONLY <1>1, <1>2, SetFacts
<1>4. w = IF tr # "absent" THEN Kept!ini_set(f, "Translation", tr)
          ELSE IF Kept!ini_get(f, "Translation") # "absent" THEN Kept!ini_set(f, "Translation", "empty") ELSE f
  BY DEF Kept!Written, Kept!Absent, Kept!Empty
<1> HIDE DEF f, w
<1>5. ASSUME NEW v \in Setting
      PROVE  LET g == Kept!ini_set(f, "Translation", v)
             IN  /\ g \in Ini /\ Kept!ini_get(g, "Translation") = v
                 /\ Kept!ini_get(g, "Language") = Kept!ini_get(f, "Language")
                 /\ Kept!ini_get(g, "TextureBits") = Kept!ini_get(f, "TextureBits")
  <2>1. f \in Inis
    BY <1>3 DEF Inis
  <2> QED BY ONLY <1>2, <2>1, v \in Setting, SetFacts
<1>6. /\ w \in Ini /\ Kept!ini_get(w, "Language") = id
      /\ Kept!ini_get(w, "TextureBits") = Kept!ini_get(Kept!read_whole_ini, "TextureBits")
      /\ tr # "absent" => Kept!ini_get(w, "Translation") = tr
      /\ tr = "absent" => Kept!ini_get(w, "Translation") \in {"absent", "empty"}
  <2>1. CASE tr # "absent"
    BY <1>2, <1>3, <1>4, <1>5, <2>1
  <2>2. CASE tr = "absent"
    BY <1>2, <1>3, <1>4, <1>5, <2>2
  <2> QED BY <2>1, <2>2
<1>7. w \in Inis
  BY <1>6 DEF Inis
<1> QED BY <1>1, <1>2, <1>6, <1>7 DEF w

LEMMA LanguagePicked ==
  ASSUME KeptIInv, Kept!offer_language_picker
  PROVE  KeptIInv'
<1>1. /\ phase = "picker" /\ UNCHANGED Kept!card /\ UNCHANGED <<unsaved, s_active, g_gl_tex16>> /\ UNCHANGED Kept!filter
  BY DEF Kept!offer_language_picker, Kept!mods
<1>2. CASE phase' = "mount" /\ UNCHANGED job /\ UNCHANGED Kept!language
  BY <1>1, <1>2, NothingKept DEF Kept!card
<1>3. ASSUME NEW id \in Langs, NEW tr \in Translations \cup {"absent"}, tr # "absent" => Kept!Has(tr) /\ id = English,
             g_lang_id' = id, translation' = tr, NEW out, out = Kept!Written(id, tr), Kept!Replaces(out, "mount")
      PROVE  KeptIInv'
  <2>1. KeptTyped
    BY DEF KeptIInv
  <2>2. out \in Inis /\ Speaks(out)' /\ (~big => Kept!ini_get(out, "TextureBits") = Kept!ini_get(ini, "TextureBits"))
    <3>1. folders' = folders
      BY <1>1 DEF Kept!card
    <3> QED BY <1>3, <2>1, <3>1, WrittenSpeaks DEF Speaks, Kept!Has, Kept!ini_get
  <2>3. g_gl_tex16' \in BOOLEAN /\ (SettingsSaved /\ ~big => g_gl_tex16' = Kept!TexOf(out))
    <3>1. ~big => Kept!TexOf(out) = Kept!TexOf(Kept!read_whole_ini)
      BY <2>1, <2>2, ReadWhole DEF Kept!TexOf
    <3> QED BY <1>1, <2>1, <3>1 DEF KeptTyped, SettingsSaved, Told
  <2> QED BY <1>1, <1>3, <2>2, <2>3, MenuSaves
<1>4. ASSUME ~(phase' = "mount" /\ UNCHANGED job /\ UNCHANGED Kept!language)
      PROVE  /\ Kept!Replaces(Kept!Written(g_lang_id', translation'), "mount")
             /\ \/ g_lang_id' \in Langs /\ translation' = "absent"
                \/ translation' \in {t \in Translations : Kept!Has(t)} /\ g_lang_id' = English
  BY <1>4 DEF Kept!offer_language_picker, Kept!Goes, Kept!language, Kept!Absent
<1>5. English \in Langs /\ "absent" \notin Translations
  BY StorageAssumption
<1> QED BY <1>2, <1>3, <1>4, <1>5

LEMMA PoweredOff ==
  ASSUME KeptIInv, Kept!PowerOff
  PROVE  KeptIInv'
<1>1. /\ phase' = "off" /\ job' = Kept!NoJob /\ g_gl_tex16' = TRUE
      /\ memo' = Kept!NoKeys /\ card_ini' = NoIni /\ spoiled' = {} /\ UNCHANGED Kept!card
  BY DEF Kept!PowerOff, Kept!Goes, NoIni
<1>2. EngineKept'
  BY <1>1 DEF EngineKept, Kept!NoKeys
<1>3. KeptTyped' /\ WrittenFirst'
  BY <1>1, NoWrite DEF KeptIInv, KeptTyped, WrittenFirst, Saving, Inis, Kept!card
<1>4. SettingsSaved' /\ ModsSaved'
  BY <1>1 DEF SettingsSaved, ModsSaved, Saving, Told
<1> QED BY <1>2, <1>3, <1>4 DEF KeptIInv

LEMMA Rearranged ==
  ASSUME KeptIInv, Kept!Rearrange
  PROVE  KeptIInv'
<1>1. /\ phase = "off" /\ phase' = "off" /\ UNCHANGED <<ini, new, far, big, job, g_gl_tex16>> /\ UNCHANGED Kept!filter
  BY DEF Kept!Rearrange
<1>2. EngineKept'
  BY <1>1, BeforeTheGame
<1>3. KeptTyped' /\ WrittenFirst'
  BY <1>1 DEF KeptIInv, KeptTyped, WrittenFirst, Saving, Kept!filter
<1>4. SettingsSaved' /\ ModsSaved'
  BY <1>1 DEF SettingsSaved, ModsSaved, Saving, Told
<1> QED BY <1>2, <1>3, <1>4 DEF KeptIInv

\* The file the filter compares with is the one there was, or an empty one.
LEMMA FirstFacts ==
  ASSUME KeptTyped
  PROVE  /\ Kept!FirstCard \in Ini /\ Kept!FirstCard # NoIni
         /\ card_ini # NoIni => Kept!FirstCard = card_ini
         /\ card_ini = NoIni => \A k \in Kept!Keys : Kept!ini_get(Kept!FirstCard, k) \in {"absent", Kept!ini_get(ini, k)}
<1>1. Kept!read_whole_ini \in Inis /\ (Kept!read_whole_ini = ini \/ Kept!read_whole_ini = NoIni) /\ card_ini \in Inis
  BY DEF KeptTyped, Kept!read_whole_ini, Inis, NoIni
<1>2. Kept!FirstCard = IF card_ini # NoIni THEN card_ini
                       ELSE IF Kept!read_whole_ini = NoIni THEN Kept!Blank ELSE Kept!read_whole_ini
  BY DEF Kept!FirstCard, NoIni
<1>3. Kept!FirstCard \in Ini
  BY <1>1, <1>2, FileFacts DEF Inis
<1> QED BY <1>1, <1>2, <1>3, FileFacts

LEMMA EntryWritten ==
  ASSUME KeptIInv, NEW k \in EngineKeys, NEW v \in {Floor, Other}, Kept!WriteIniEntry(k, v)
  PROVE  KeptIInv'
<1>1. /\ phase = "game" /\ phase' = "game"
      /\ UNCHANGED <<new, far, big, active, folders, job, g_gl_tex16, s_active, unsaved>> /\ UNCHANGED Kept!language
      /\ card_ini' = IF k \in DOMAIN memo THEN card_ini ELSE Kept!FirstCard
  BY DEF Kept!WriteIniEntry, Kept!mods
<1>2. KeptTyped /\ ini \in Inis /\ k \in Kept!Keys /\ v \in Setting
  BY SettingFacts DEF KeptIInv, KeptTyped, Setting
<1>3. card_ini' \in Inis
  BY <1>1, <1>2, FirstFacts DEF KeptTyped, Inis
<1>4. ASSUME NEW x \in EngineKeys \ spoiled
      PROVE  IF x \in DOMAIN memo THEN memo[x] = Kept!ini_get(ini, x)
             ELSE card_ini' # NoIni => Kept!ini_get(card_ini', x) \in {"absent", Kept!ini_get(ini, x)}
  <2>1. IF x \in DOMAIN memo THEN memo[x] = Kept!ini_get(ini, x)
        ELSE card_ini # NoIni => Kept!ini_get(card_ini, x) \in {"absent", Kept!ini_get(ini, x)}
    BY DEF KeptIInv, EngineKept
  <2>2. x \in Kept!Keys
    BY SettingFacts
  <2> QED BY <1>1, <1>2, <2>1, <2>2, FirstFacts
<1>5. CASE UNCHANGED <<ini, memo, spoiled>>
  <2>1. EngineKept'
    BY <1>1, <1>4, <1>5 DEF EngineKept, Kept!ini_get
  <2>2. KeptTyped' /\ WrittenFirst'
    BY <1>1, <1>2, <1>3, <1>5 DEF KeptTyped, WrittenFirst, Saving
  <2>3. /\ Kept!TexOf(Kept!read_whole_ini)' = Kept!TexOf(Kept!read_whole_ini)
        /\ Speaks(ini)' <=> Speaks(ini)
    BY <1>1, <1>5, SpeaksOn DEF Kept!TexOf, Kept!read_whole_ini, Kept!ini_get, Kept!language
  <2>4. ~unsaved' => SettingsSaved' /\ ModsSaved'
    BY <1>1, <1>5, <2>3 DEF KeptIInv, SettingsSaved, ModsSaved, Saving, Told, Kept!ActiveSet, Kept!Has
  <2> QED BY <2>1, <2>2, <2>4 DEF KeptIInv
<1>6. ASSUME NEW ok \in BOOLEAN, ini' = IF ok THEN Kept!ini_set(ini, k, v) ELSE ini,
             memo' = Kept!Remembered(k, v, ok),
             spoiled' = IF k \in DOMAIN memo' THEN spoiled ELSE spoiled \cup {k}
      PROVE  KeptIInv'
  <2>1. /\ ini' \in Inis /\ (ok => Kept!ini_get(ini', k) = v)
        /\ \A x \in Kept!Keys : x # k => Kept!ini_get(ini', x) = Kept!ini_get(ini, x)
    <3>1. CASE ok
      <4>1. /\ ini' \in Ini /\ Kept!ini_get(ini', k) = v
            /\ \A x \in Kept!Keys : x # k => Kept!ini_get(ini', x) = Kept!ini_get(ini, x)
        BY ONLY <1>2, <1>6, <3>1, SetFacts
      <4> QED BY <4>1 DEF Inis
    <3>2. CASE ~ok
      BY <1>2, <1>6, <3>2
    <3> QED BY <3>1, <3>2
  <2>2. /\ \A x : x # k => (x \in DOMAIN memo' <=> x \in DOMAIN memo)
        /\ \A x \in DOMAIN memo' : x # k => memo'[x] = memo[x]
        /\ k \in DOMAIN memo' => ok /\ memo'[k] = v
    BY <1>6 DEF Kept!Remembered
  <2>3. EngineKept'
    <3>1. ASSUME NEW x \in EngineKeys \ spoiled'
          PROVE  IF x \in DOMAIN memo' THEN memo'[x] = Kept!ini_get(ini', x)
                 ELSE card_ini' # NoIni => Kept!ini_get(card_ini', x) \in {"absent", Kept!ini_get(ini', x)}
      <4>1. x \in Kept!Keys /\ x \notin spoiled
        BY <1>6, SettingFacts
      <4>2. CASE x = k
        BY <1>6, <2>1, <2>2, <4>2
      <4>3. CASE x # k
        BY <1>4, <2>1, <2>2, <4>1, <4>3
      <4> QED BY <4>2, <4>3
    <3> QED BY <1>1, <3>1 DEF EngineKept, Kept!ini_get
  <2>4. KeptTyped' /\ WrittenFirst'
    BY <1>1, <1>2, <1>3, <2>1 DEF KeptTyped, WrittenFirst, Saving
  <2>5. \A x \in {"Language", "Translation", "TextureBits"} : Kept!ini_get(ini', x) = Kept!ini_get(ini, x)
    <3>1. \A x \in {"Language", "Translation", "TextureBits"} : x \in Kept!Keys /\ x # k
      BY SettingFacts
    <3> QED BY ONLY <2>1, <3>1
  <2>6. Speaks(ini)' <=> Speaks(ini)
    <3>1. Speaks(ini') <=> Speaks(ini)
      BY <2>5, SpeaksAlike
    <3> QED BY <1>1, <3>1 DEF Speaks, Kept!Has, Kept!language, Kept!ini_get
  <2>7. Kept!TexOf(Kept!read_whole_ini)' = Kept!TexOf(Kept!read_whole_ini)
    <3>1. Kept!TexOf(Kept!read_whole_ini)' = (Kept!ini_get(IF big THEN NoIni ELSE ini', "TextureBits") # "32")
      BY <1>1 DEF Kept!TexOf, Kept!read_whole_ini, Kept!ini_get, NoIni
    <3>2. Kept!TexOf(Kept!read_whole_ini) = (Kept!ini_get(IF big THEN NoIni ELSE ini, "TextureBits") # "32")
      BY DEF Kept!TexOf, Kept!read_whole_ini, NoIni
    <3> QED BY <2>5, <3>1, <3>2
  <2>8. ~unsaved' => SettingsSaved' /\ ModsSaved'
    BY <1>1, <2>6, <2>7 DEF KeptIInv, SettingsSaved, ModsSaved, Saving, Told, Kept!ActiveSet, Kept!Has
  <2> QED BY <2>3, <2>4, <2>8 DEF KeptIInv
<1> QED BY <1>5, <1>6 DEF Kept!WriteIniEntry

LEMMA Passes ==
  ASSUME KeptIInv, Kept!watch_thread \/ Kept!mount_obbs \/ Kept!OnGooglePlayButton
  PROVE  KeptIInv'
<1>1. /\ UNCHANGED <<ini, new, far, big, active, folders, job, g_gl_tex16, unsaved, s_active>>
      /\ UNCHANGED Kept!filter /\ UNCHANGED Kept!language
  BY DEF Kept!watch_thread, Kept!mount_obbs, Kept!OnGooglePlayButton, Kept!card, Kept!mods
<1>2. \/ phase' = phase
      \/ phase = "mount" /\ phase' \in {"game", "fatal"}
  BY DEF Kept!watch_thread, Kept!mount_obbs, Kept!OnGooglePlayButton, Kept!Goes
<1> QED BY <1>1, <1>2, NothingKept

LEMMA KeptStep ==
  ASSUME KeptIInv, Kept!Starts \/ \E k \in EngineKeys : Kept!Sets_ini(k) PROVE KeptIInv'
<1>1. CASE Kept!WriteNew \/ Kept!RemoveOld \/ Kept!Rename
  BY <1>1, NewWritten, OldRemoved, Renamed
<1>2. CASE Kept!resolve_language \/ Kept!read_vita_options \/ Kept!repair_sound_bias \/ Kept!modset_scan
  BY <1>2, LanguageResolved, OptionsRead, BiasRepaired, SetsScanned
<1>3. CASE Kept!offer_mod_menu \/ Kept!modset_choose \/ Kept!offer_texture_menu \/ Kept!offer_language_picker
  BY <1>3, SetOffered, SetChosen, TextureOffered, LanguagePicked
<1>4. CASE Kept!watch_thread \/ Kept!mount_obbs \/ Kept!OnGooglePlayButton
  BY <1>4, Passes
<1>5. CASE Kept!PowerOff \/ Kept!Rearrange
  BY <1>5, PoweredOff, Rearranged
<1>6. ASSUME NEW k \in EngineKeys, Kept!Sets_ini(k) PROVE KeptIInv'
  BY <1>6, EntryWritten DEF Kept!Sets_ini
<1> QED BY <1>1, <1>2, <1>3, <1>4, <1>5, <1>6 DEF Kept!Starts

LEMMA KeptStart == StorageInit => KeptIInv
<1> SUFFICES ASSUME StorageInit PROVE KeptIInv
  OBVIOUS
<1>1. /\ phase = "off" /\ new = NoIni /\ job = Kept!NoJob /\ g_gl_tex16 = TRUE
      /\ memo = Kept!NoKeys /\ card_ini = NoIni /\ spoiled = {}
  BY DEF StorageInit, Kept!Init, NoIni
<1>2. ini \in Inis /\ far \in BOOLEAN /\ big \in BOOLEAN
  <2>1. CASE ini = NoIni /\ far = FALSE /\ big = FALSE
    BY <2>1 DEF Inis
  <2>2. ASSUME NEW l \in Langs \cup {"absent"}, NEW b \in {Floor, Other},
               ini = [Kept!Blank EXCEPT !["Language"] = l, ![Bias] = b], far \in BOOLEAN, big \in BOOLEAN
        PROVE  ini \in Inis /\ far \in BOOLEAN /\ big \in BOOLEAN
    <3>1. Kept!Blank \in Ini /\ l \in Setting /\ b \in Setting
      BY FileFacts DEF Setting
    <3>2. ini \in Ini
      BY <2>2, <3>1 DEF Ini
    <3> QED BY <2>2, <3>2 DEF Inis
  <2>3. \/ ini = NoIni /\ far = FALSE /\ big = FALSE
        \/ /\ \E l \in Langs \cup {"absent"}, b \in {Floor, Other} :
                ini = [Kept!Blank EXCEPT !["Language"] = l, ![Bias] = b]
           /\ far \in BOOLEAN /\ big \in BOOLEAN
    BY DEF StorageInit, Kept!Init, NoIni, Kept!Absent
  <2> QED BY <2>1, <2>2, <2>3
<1>3. KeptTyped /\ WrittenFirst
  BY <1>1, <1>2, NoWrite DEF KeptTyped, WrittenFirst, Saving, Inis
<1>4. SettingsSaved /\ ModsSaved
  BY <1>1 DEF SettingsSaved, ModsSaved, Saving, Told
<1> QED BY <1>1, <1>3, <1>4, NothingYet DEF KeptIInv

LEMMA Untouched == ASSUME KeptIInv, UNCHANGED kept PROVE KeptIInv'
<1>1. UNCHANGED <<ini, new, far, big, active, folders, job, g_gl_tex16, unsaved, s_active, phase>>
  BY DEF kept
<1>2. UNCHANGED Kept!filter /\ UNCHANGED Kept!language
  BY DEF kept, Kept!filter, Kept!language
<1> QED BY <1>1, <1>2, NothingKept

LEMMA KeptInductive == KeptIInv /\ [StorageNext]_all => KeptIInv'
<1> SUFFICES ASSUME KeptIInv, [StorageNext]_all PROVE KeptIInv'
  OBVIOUS
<1>1. CASE Kept!Starts \/ \E k \in EngineKeys : Kept!Sets_ini(k)
  BY <1>1, KeptStep
<1>2. CASE UNCHANGED kept
  BY <1>2, Untouched
<1> QED BY <1>1, <1>2 DEF StorageNext, Reads, Chooses, Keeps, Opens, all, Kept!Next, EngineKeys

LEMMA WhatIsSaidStands == KeptIInv => SettingsStand
<1> SUFFICES ASSUME KeptIInv PROVE SettingsStand
  OBVIOUS
<1>1. ASSUME phase \in {"mount", "game"}, ~unsaved
      PROVE  /\ ~far => Kept!ResolvedId = g_lang_id /\ Kept!ResolvedTranslation = translation
             /\ Kept!ActiveSet = s_active
             /\ Kept!TexOf(Kept!read_whole_ini) = g_gl_tex16
  <2>1. SettingsSaved /\ ModsSaved
    BY <1>1 DEF KeptIInv
  <2>2. ~far => Speaks(ini)
    BY <1>1, <2>1 DEF SettingsSaved, Told
  <2>3. ASSUME ~far PROVE Kept!ResolvedId = g_lang_id /\ Kept!ResolvedTranslation = translation
    BY <2>2, <2>3 DEF Speaks, Kept!ResolvedId, Kept!ResolvedTranslation, Kept!TranslationChosen, Kept!Head,
                      Kept!Absent
  <2> QED BY <1>1, <2>1, <2>3 DEF SettingsSaved, ModsSaved, Told
<1>2. ASSUME NEW k \in EngineKeys \ spoiled, NEW v \in {Floor, Other}, Kept!Hits(Kept!FirstCard, k, v)
      PROVE  Kept!ini_get(ini, k) = v
  <2>1. KeptTyped /\ k \in Kept!Keys /\ v # "absent"
    BY SettingFacts DEF KeptIInv
  <2>2. IF k \in DOMAIN memo THEN memo[k] = Kept!ini_get(ini, k)
        ELSE card_ini # NoIni => Kept!ini_get(card_ini, k) \in {"absent", Kept!ini_get(ini, k)}
    BY DEF KeptIInv, EngineKept
  <2>3. IF k \in DOMAIN memo THEN memo[k] = v ELSE Kept!ini_get(Kept!FirstCard, k) = v
    BY <1>2 DEF Kept!Hits
  <2> QED BY <2>1, <2>2, <2>3, FirstFacts
<1> QED BY <1>1, <1>2 DEF SettingsStand, Kept!NextStartAgrees, Kept!SkippedIsStored, EngineKeys

\* What the menus chose is what the next start reads, through every write and the loss of
\* power in any of them (resolve_language, write_language, save_texture_bits and
\* modset_choose: main.c:1234-1292, 1412-1489, modset.c:147-161), and a write of the engine
\* that the filter answers itself would have changed nothing (ini_write.c:12-24).
THEOREM ChoicesStand == StorageSpec => []SettingsStand
<1>1. KeptIInv /\ [StorageNext]_all => KeptIInv'
  BY KeptInductive
<1>2. StorageInit => KeptIInv
  BY KeptStart
<1> QED BY <1>1, <1>2, WhatIsSaidStands, PTL DEF StorageSpec
=============================================================================
