------------------------------ MODULE ObbFiles ------------------------------
(***************************************************************************)
(* The stdio layer the game's archive reads go through (loader/dynlib.c):  *)
(* every read-only open of a .obb gets a virtual handle with a position of *)
(* its own over one shared descriptor; a read is served from the mount     *)
(* index (loader/obb_index.c), from the RAM ring (loader/obb_cache.c) or   *)
(* from the card.  The index is recorded during one boot, written when the *)
(* archives are mounted and replayed by the next ones; the power may go at *)
(* any time, also while it is written.                                     *)
(*                                                                         *)
(* Every call that touches shared state runs under kotor_io, so a call is  *)
(* one step; seeks touch only the handle, which one thread uses at a time. *)
(***************************************************************************)
EXTENDS RamRing, Sequences, FiniteSets

CONSTANTS
  FileSize,   \* bytes of each archive
  NShared,    \* SF_MAX
  NVirtual,   \* VF_MAX
  MaxRange, MaxRec, Budget,   \* of the index: OBB_INDEX_MAX_RANGE, IDX_MAX_REC, bytes
  Lens,       \* how much is read at once
  Positions,  \* where handles are moved to
  MaxSeq      \* bound on what the ring takes in

ASSUME ObbAssumption ==
  /\ FileSize \in [Files -> Nat]
  /\ NShared \in Nat \ {0} /\ NVirtual \in Nat \ {0}
  /\ MaxRange \in Nat /\ MaxRec \in Nat /\ Budget \in Nat /\ MaxSeq \in Nat
  /\ Lens \subseteq Nat \ {0} /\ Positions \subseteq Nat

VARIABLES
  sf,       \* g_sf: the shared archives, with their index
  vf,       \* g_vf: the virtual handles
  card,     \* each archive's .idx file
  mounted,  \* io_obb_mount_done has run this boot
  got       \* what the call just made handed over

vars == <<ram, sf, vf, card, mounted, got>>

Archives == 1 .. NShared
Handles == 1 .. NVirtual

NoArchive == [file |-> "none"]
Free == [sf |-> 0]
NoFile == [nrec |-> 0, nblob |-> 0, rec |-> <<>>, blob |-> <<>>]
NoIndex == [serving |-> FALSE, full |-> TRUE, rec |-> <<>>, blob |-> <<>>]

Open == {s \in Archives : sf[s] # NoArchive}
InUse == {h \in Handles : vf[h] # Free}
Readers(s) == {h \in InUse : vf[h].sf = s}

-----------------------------------------------------------------------------
(* The index. A record is [off, len, blob]: the bytes from off on are those *)
(* of the blob from `blob' on.                                              *)

\* The greatest record with an offset up to target; with equal ones, the last.
rec_find(rec, target) ==
  CHOOSE i \in 0 .. Len(rec) :
    /\ i > 0 => rec[i].off <= target
    /\ \A j \in i + 1 .. Len(rec) : rec[j].off > target

recs_valid(file, f) ==
  \A i \in 1 .. file.nrec :
    LET r == file.rec[i]
    IN  /\ r.len \in 1 .. MaxRange
        /\ r.blob + r.len <= file.nblob
        /\ r.off + r.len <= FileSize[f]
        /\ i > 1 => r.off >= file.rec[i - 1].off

\* Whether idx_load takes the file: the header, then as much as it promises.
Loads(file, f) ==
  /\ file.nrec \in 1 .. MaxRec /\ file.nblob > 0
  /\ Len(file.rec) = file.nrec /\ Len(file.blob) = file.nblob
  /\ recs_valid(file, f)

obbidx_open(f) ==
  IF FileSize[f] = 0 THEN NoIndex
  ELSE IF Loads(card[f], f)
       THEN [serving |-> TRUE, full |-> FALSE, rec |-> card[f].rec, blob |-> card[f].blob]
       ELSE [serving |-> FALSE, full |-> FALSE, rec |-> <<>>, blob |-> <<>>]

\* Only one record is looked at: the range must lie in it.
Serves(ix, off, len) ==
  /\ ix.serving
  /\ LET i == rec_find(ix.rec, off)
     IN  i > 0 /\ off - ix.rec[i].off + len <= ix.rec[i].len
ServedBytes_start(ix, off, len) ==
  LET r == ix.rec[rec_find(ix.rec, off)]
  IN  SubSeq(ix.blob, r.blob + 1, r.blob + len)
ServedBytes(ix, off, len) ==
  LET r == ix.rec[rec_find(ix.rec, off)]
  IN  SubSeq(ix.blob, r.blob + off - r.off + 1, r.blob + off - r.off + len)

obbidx_record(ix, off, src) ==
  IF ix.serving \/ ix.full \/ src = <<>> \/ Len(src) > MaxRange THEN ix
  ELSE IF Len(ix.blob) + Len(src) > Budget \/ Len(ix.rec) >= MaxRec
       THEN [ix EXCEPT !.full = TRUE]
       ELSE [ix EXCEPT
              !.rec = Append(@, [off |-> off, len |-> Len(src), blob |-> Len(ix.blob)]),
              !.blob = @ \o src]

\* qsort by offset: records of one offset may come out in any order.
Sorted(rec, s) ==
  /\ Len(s) = Len(rec)
  /\ \A i \in 1 .. Len(s) - 1 : s[i].off <= s[i + 1].off
  /\ \A i \in DOMAIN rec : rec[i] \in {s[j] : j \in DOMAIN s}
Sorts(rec) ==
  {s \in {[i \in DOMAIN rec |-> rec[p[i]]] : p \in [DOMAIN rec -> DOMAIN rec]} : Sorted(rec, s)}

Written(ix) == [nrec |-> Len(ix.rec), nblob |-> Len(ix.blob), rec |-> ix.rec, blob |-> ix.blob]

\* What obbidx_finish may make of the index and of its file: nothing to write; the
\* file cannot be opened, and recording goes on; written; a failed write, removed.
Finished(ix, file) ==
  IF ix.serving \/ ix.rec = <<>> THEN {[ix |-> ix, file |-> file]}
  ELSE UNION {LET x == [ix EXCEPT !.rec = s]
                  stopped == [x EXCEPT !.full = TRUE]
              IN  {[ix |-> x, file |-> file], [ix |-> stopped, file |-> Written(x)],
                   [ix |-> stopped, file |-> NoFile]} : s \in Sorts(ix.rec)}

\* What the card may hold when the power goes during that write: the header alone,
\* part of the blob, or records that point outside it.
Torn(ix) ==
  LET w == Written(ix)
  IN  {[w EXCEPT !.rec = <<>>, !.blob = <<>>],
       [w EXCEPT !.blob = SubSeq(@, 1, Len(@) - 1)],
       [w EXCEPT !.rec = [i \in DOMAIN @ |-> [@[i] EXCEPT !.blob = w.nblob]]]}

-----------------------------------------------------------------------------
(* The handles.                                                            *)

Init ==
  /\ RingInit
  /\ sf = [s \in Archives |-> NoArchive]
  /\ vf = [h \in Handles |-> Free]
  /\ card = [f \in Files |-> NoFile]
  /\ mounted = FALSE
  /\ got = <<>>

\* The slot the archive is in, or the first one free for it.
Fresh(f) == \A s \in Open : sf[s].file # f
Fits(f, s) == IF Fresh(f) THEN sf[s] = NoArchive ELSE sf[s] # NoArchive /\ sf[s].file = f
SlotFor(f, s) == Fits(f, s) /\ \A t \in 1 .. s - 1 : ~Fits(f, t)

\* No bytes are handed over.
Quiet == got' = <<>>

\* The archive is found or opened, in slot s, for one more reader or for none.
OpenArchive(f, s, reader) ==
  sf' = IF Fresh(f)
        THEN [sf EXCEPT ![s] = [file |-> f, refs |-> reader, idx |-> obbidx_open(f)]]
        ELSE [sf EXCEPT ![s].refs = @ + reader]

fopen_shared(f, h, s) ==
  /\ SlotFor(f, s)
  /\ vf[h] = Free /\ \A g \in 1 .. h - 1 : vf[g] # Free
  /\ OpenArchive(f, s, 1)
  /\ vf' = [vf EXCEPT ![h] = [sf |-> s, pos |-> 0, eof |-> FALSE]]
  /\ Quiet /\ UNCHANGED <<ram, card, mounted>>

\* No virtual handle is free: fopen_shared leaves the archive open all the same, and
\* the game gets a FILE of its own.
fopen_outOfHandles(f, s) ==
  /\ InUse = Handles /\ SlotFor(f, s)
  /\ OpenArchive(f, s, 0)
  /\ Quiet /\ UNCHANGED <<vf, ram, card, mounted>>

LastReader_afterDrop(s) == sf[s].refs <= 0
LastReader_early(s) == sf[s].refs - 1 <= 1
LastReader(s) == sf[s].refs - 1 <= 0
fclose_diag(h) ==
  LET s == vf[h].sf
  IN  /\ vf[h] # Free
      /\ vf' = [vf EXCEPT ![h] = Free]
      /\ sf' = IF LastReader(s) THEN [sf EXCEPT ![s] = NoArchive] ELSE [sf EXCEPT ![s].refs = @ - 1]
      /\ Quiet /\ UNCHANGED <<ram, card, mounted>>

\* fseek_diag, fseeko_diag; rewind_diag is a move to 0 (the mark ferror_diag reports
\* is left out).
fseek_diag(h, pos) ==
  /\ vf[h] # Free
  /\ vf' = [vf EXCEPT ![h].pos = pos, ![h].eof = FALSE]
  /\ Quiet /\ UNCHANGED <<sf, ram, card, mounted>>

-----------------------------------------------------------------------------
(* Reads.                                                                  *)

\* What the card hands over: up to the end of the file.
Left(f, pos) == IF pos < FileSize[f] THEN FileSize[f] - pos ELSE 0
ReadSize(f, pos, n) == IF n <= Left(f, pos) THEN n ELSE Left(f, pos)
sceIoPread(f, pos, m) == [i \in 1 .. m |-> <<f, pos + i - 1>>]

\* m bytes of the n asked for have come.
Served(h, n, m, bytes) ==
  /\ got' = bytes
  /\ vf' = [vf EXCEPT ![h].pos = @ + m, ![h].eof = @ \/ m < n]
  /\ UNCHANGED <<card, mounted>>

ReadIndex(h, n) ==
  LET a == sf[vf[h].sf]
  IN  /\ Serves(a.idx, vf[h].pos, n)
      /\ Served(h, n, n, ServedBytes(a.idx, vf[h].pos, n))
      /\ UNCHANGED <<ram, sf>>

KeyAt(h, n) == [file |-> sf[vf[h].sf].file, off |-> vf[h].pos, len |-> n]

ReadRam(h, n) ==
  /\ ~Serves(sf[vf[h].sf].idx, vf[h].pos, n)
  /\ n \in Band
  /\ \E i \in Slots :
       /\ find(KeyAt(h, n), i)
       /\ Get(i)
       /\ Served(h, n, n, Held(ent[i]))
  /\ UNCHANGED sf

NotHeld(h, n) ==
  /\ ~Serves(sf[vf[h].sf].idx, vf[h].pos, n)
  /\ n \in Band => Hits(KeyAt(h, n)) = {}

ReadCard(h, n) ==
  LET s == vf[h].sf
      m == ReadSize(sf[s].file, vf[h].pos, n)
      bytes == sceIoPread(sf[s].file, vf[h].pos, m)
  IN  /\ NotHeld(h, n)
      /\ Served(h, n, m, bytes)
      /\ sf' = [sf EXCEPT ![s].idx = obbidx_record(@, vf[h].pos, bytes)]
      /\ IF m = n /\ n \in Band THEN Put(KeyAt(h, n), bytes) ELSE UNCHANGED ram

ReadFails(h, n) ==
  /\ NotHeld(h, n)
  /\ vf' = [vf EXCEPT ![h].eof = TRUE]
  /\ Quiet /\ UNCHANGED <<sf, ram, card, mounted>>

\* fread_diag; fgetc_diag is a read of one byte, fgets_diag a row of those.
fread_diag(h, n) ==
  /\ vf[h] # Free
  /\ seq < MaxSeq
  /\ ReadIndex(h, n) \/ ReadRam(h, n) \/ ReadCard(h, n) \/ ReadFails(h, n)

-----------------------------------------------------------------------------
(* The end of the mount, and the next boot.                                *)

io_obb_mount_done ==
  /\ ~mounted
  /\ \E done \in [Open -> UNION {Finished(sf[s].idx, card[sf[s].file]) : s \in Open}] :
       /\ \A s \in Open : done[s] \in Finished(sf[s].idx, card[sf[s].file])
       /\ sf' = [s \in Archives |-> IF s \in Open THEN [sf[s] EXCEPT !.idx = done[s].ix] ELSE sf[s]]
       /\ card' = [f \in Files |-> IF Fresh(f) THEN card[f]
                                   ELSE done[CHOOSE s \in Open : SlotFor(f, s)].file]
  /\ mounted' = TRUE
  /\ Quiet /\ UNCHANGED <<vf, ram>>

Boot ==
  /\ ring' = [p \in Offsets |-> NoByte]
  /\ ent' = [i \in Slots |-> Unused]
  /\ head' = 0 /\ seq' = 0
  /\ sf' = [s \in Archives |-> NoArchive]
  /\ vf' = [h \in Handles |-> Free]
  /\ mounted' = FALSE
  /\ got' = <<>>

\* The power goes, also while the index of one archive is being written. A file
\* that idx_load will not take is as good as none.
PowerOff == Boot /\ UNCHANGED card
PowerOffWriting(s) ==
  /\ ~mounted
  /\ ~sf[s].idx.serving /\ sf[s].idx.rec # <<>>
  /\ card' \in {[card EXCEPT ![sf[s].file] = IF Loads(t, sf[s].file) THEN t ELSE NoFile] :
                 t \in Torn(sf[s].idx)}
  /\ Boot

Next ==
  \/ \E f \in Files, s \in Archives :
       \/ \E h \in Handles : fopen_shared(f, h, s)
       \/ fopen_outOfHandles(f, s)
  \/ \E h \in Handles :
       \/ fclose_diag(h)
       \/ \E pos \in Positions : fseek_diag(h, pos)
       \/ \E n \in Lens : fread_diag(h, n)
  \/ io_obb_mount_done
  \/ PowerOff
  \/ \E s \in Open : PowerOffWriting(s)

Spec == Init /\ [][Next]_vars

-----------------------------------------------------------------------------
\* An archive counts its readers exactly, so that it stays open while a handle reads
\* it, and is open once, whatever is opened (fopen_shared and fclose_diag,
\* dynlib.c:391-504).
SharedExact ==
  /\ \A s \in Open : sf[s].refs = Cardinality(Readers(s))
  /\ \A s, t \in Open : sf[s].file = sf[t].file => s = t

\* An archive nobody reads is closed by its last reader; only one that is opened
\* while every virtual handle is taken is left open (dynlib.c:421).
Idle(s) == s \in Open /\ sf[s].refs = 0
IdleOnlyWithoutHandles == [][\A s \in Archives : Idle(s)' => Idle(s) \/ InUse = Handles]_vars

\* Every handle reads its archive as if it had it alone: with the index, recorded or
\* replayed, torn or whole, with the ring, and with other handles at other places
\* (fread_diag, dynlib.c:562).
Stdio == INSTANCE StdioFiles WITH
  open <- [h \in Handles |->
             IF vf[h] = Free THEN [file |-> "closed"]
             ELSE [file |-> sf[vf[h].sf].file, pos |-> vf[h].pos, eof |-> vf[h].eof]]
ImplementsStdio == Stdio!Spec
=============================================================================
