---------------------------- MODULE AudioProofs -----------------------------
(***************************************************************************)
(* For any number of channels, retire slots, sounds, slots, plays and      *)
(* streams: no voice and no END is lost or doubled, an unlocked mix writes *)
(* back only to the voices it mixed, and a stream has one owner; and for a *)
(* track, a ring and a decoder of any size: the ring's window holds the    *)
(* track where the voices are, which end after its last frame.             *)
(*                                                                         *)
(* A live channel, one that plays or has an END to give, is in use, has a  *)
(* callback once its play returned, and serves a voice no other channel    *)
(* serves; what Sys_update holds while the callbacks run is on no channel. *)
(* From that follows where each END is.                                    *)
(***************************************************************************)
EXTENDS Audio, Numbers, FiniteSetTheorems, SequenceTheorems, TLAPS

ChannelUpTo(s, g) ==
  [used : BOOLEAN, playing : BOOLEAN, paused : BOOLEAN, snd : Sounds \cup {0},
   owner : Slots \cup {0}, cb : BOOLEAN, endPending : BOOLEAN,
   stamp : 0 .. s, gen : 0 .. g, voice : 0 .. s]
SlotUpTo(s) ==
  [inUse : BOOLEAN, looping : BOOLEAN, ended : BOOLEAN, chan : PlayChans \cup {0},
   snd : Sounds \cup {0}, voice : 0 .. s]
Task == [slot : Slots \cup {0}, snd : Sounds \cup {0}, paused : BOOLEAN, looping : BOOLEAN,
         chan : PlayChans \cup {0}, back : {"idle", "called"}]
Mixed == [chan : PlayChans, gen : 0 .. gen, st : Streams \cup {0}, voice : 0 .. stamp]

\* The game thread is in a call: from outside, or from a callback.
Within(back) == gpc \in {"play", "register"} /\ task.back = back

Typed ==
  /\ TypeOK /\ task \in Task /\ snaps \subseteq Mixed
  /\ gpc \in {"play", "register"} => task.slot \in Slots /\ task.snd \in Sounds
  /\ gpc = "play" => stamp < MaxPlays
  /\ gpc = "register" => task.chan \in PlayChans /\ chan[task.chan].voice # 0

\* What Sys_update holds, and where it is.
Holding ==
  /\ gpc = "idle" \/ Within("idle") => pend = <<>>
  /\ gpc = "deliver" => pend # <<>>
  /\ gpc = "called" \/ Within("called") => pend # <<>> /\ pend[1].voice \in Heard
  /\ \A i, j \in DOMAIN pend : i # j => /\ pend[i].chan # pend[j].chan
                                        /\ pend[i].voice # pend[j].voice
  /\ \A i \in DOMAIN pend : pend[i].chan \in RetireChans =>
       chan[pend[i].chan].used /\ ~chan[pend[i].chan].endPending

VoicesApart == \A c, d \in Chans : chan[c].voice = chan[d].voice /\ c # d => chan[c].voice = 0

Live(c) == chan[c].playing \/ chan[c].endPending
LiveChans ==
  \A c \in Chans :
    /\ chan[c].used => chan[c].voice # 0
    /\ Live(c) => chan[c].used /\ (chan[c].cb \/ (gpc = "register" /\ c = task.chan))
    /\ chan[c].playing => chan[c].voice \notin over

\* A slot that is in use and whose channel still calls it the owner knows its voice.
SlotsKnow ==
  \A o \in Slots : slot[o].inUse =>
    LET c == slot[o].chan IN
    /\ c \in PlayChans /\ slot[o].snd \in Sounds /\ slot[o].voice # 0 /\ chan[c].voice # 0
    /\ chan[c].used /\ chan[c].owner = o => slot[o].voice = chan[c].voice

SnapsKnow ==
  \A m \in snaps : chan[m.chan].gen = m.gen => chan[m.chan].voice = m.voice

\* What EndsAccounted says beside the types.
Owed ==
  /\ over \ (Heard \cup ended \cup lost) \subseteq {chan[c].voice : c \in Flagged} \cup Queued
  /\ \A c, d \in Flagged : chan[c].voice = chan[d].voice => c = d
  /\ \A c \in Flagged : chan[c].voice \in over /\ chan[c].voice \notin Heard \cup Queued
  /\ \A i \in DOMAIN pend : /\ pend[i].voice \in over
                            /\ pend[i].voice \in Heard => i = 1 /\ gpc # "deliver"

VoiceIInv ==
  /\ Typed /\ Holding /\ VoicesApart /\ LiveChans /\ SlotsKnow /\ SnapsKnow
  /\ Heard \subseteq over /\ Owed /\ NoVoiceVanishes

-----------------------------------------------------------------------------
(* What happens to a channel.                                              *)

LEMMA SeqGrows ==
  ASSUME NEW S, NEW T, S \subseteq T, NEW q \in Seq(S)
  PROVE  q \in Seq(T)
BY LenProperties, IsASeq

LEMMA ChannelGrows ==
  ASSUME NEW s \in Nat, NEW t \in Nat, NEW g \in Nat, NEW h \in Nat, s <= t, g <= h,
         NEW x \in ChannelUpTo(s, g)
  PROVE  x \in ChannelUpTo(t, h)
BY DEF ChannelUpTo

LEMMA KilledIs ==
  ASSUME NEW s \in Nat, NEW g \in Nat, NEW h \in Nat, g <= h,
         NEW x \in ChannelUpTo(s, g), NEW k \in 0 .. h
  PROVE  LET y == Killed(x, k) IN
         /\ y \in ChannelUpTo(s, h) /\ y.voice = x.voice /\ y.gen = k
         /\ ~y.used /\ ~y.playing /\ ~y.endPending
BY DEF ChannelUpTo, Killed

LEMMA FinishedIs ==
  ASSUME NEW s \in Nat, NEW g \in Nat, NEW x \in ChannelUpTo(s, g)
  PROVE  LET y == Finished(x) IN
         /\ y \in ChannelUpTo(s, g) /\ ~y.playing /\ y.endPending
         /\ y.voice = x.voice /\ y.gen = x.gen /\ y.used = x.used /\ y.cb = x.cb
         /\ y.owner = x.owner
BY DEF ChannelUpTo, Finished

LEMMA RetiredIs ==
  ASSUME NEW s \in Nat, NEW g \in Nat, NEW x \in ChannelUpTo(s, g)
  PROVE  LET y == Retired(x) IN
         /\ y \in ChannelUpTo(s, g) /\ ~y.playing /\ y.endPending /\ y.used /\ y.cb
         /\ y.voice = x.voice
<1>1. Blank \in ChannelUpTo(s, g) /\ ~Blank.playing
  BY DEF Blank, ChannelUpTo
<1> QED BY <1>1 DEF ChannelUpTo, Retired

LEMMA OwnedIs ==
  ASSUME NEW s, NEW g, NEW x \in ChannelUpTo(s, g), NEW o \in Slots
  PROVE  LET y == [x EXCEPT !.owner = o, !.cb = TRUE] IN
         /\ y \in ChannelUpTo(s, g) /\ y.used = x.used /\ y.playing = x.playing
         /\ y.endPending = x.endPending /\ y.voice = x.voice /\ y.gen = x.gen
         /\ y.owner = o /\ y.cb
BY DEF ChannelUpTo

LEMMA CollectedIs ==
  ASSUME NEW s, NEW g, NEW x \in ChannelUpTo(s, g)
  PROVE  LET y == [x EXCEPT !.endPending = FALSE] IN
         /\ y \in ChannelUpTo(s, g) /\ y.used = x.used /\ y.playing = x.playing
         /\ y.voice = x.voice /\ y.cb = x.cb /\ y.gen = x.gen
         /\ y.owner = x.owner /\ y.endPending = FALSE
BY DEF ChannelUpTo

Emptied(c) == [c EXCEPT !.used = FALSE, !.cb = FALSE]
LEMMA EmptiedIs ==
  ASSUME NEW s, NEW g, NEW x \in ChannelUpTo(s, g)
  PROVE  LET y == Emptied(x) IN
         /\ y \in ChannelUpTo(s, g) /\ ~y.used /\ y.playing = x.playing
         /\ y.endPending = x.endPending /\ y.voice = x.voice /\ y.gen = x.gen
BY DEF ChannelUpTo, Emptied

LEMMA MarkedIs ==
  ASSUME NEW s, NEW x \in SlotUpTo(s)
  PROVE  LET y == [x EXCEPT !.ended = TRUE] IN
         /\ y \in SlotUpTo(s) /\ y.inUse = x.inUse /\ y.chan = x.chan /\ y.snd = x.snd
         /\ y.voice = x.voice
BY DEF SlotUpTo

LEMMA TakenIs ==
  ASSUME Typed, gpc = "play", NEW c
  PROVE  LET y == Taken(c) IN
         /\ y \in ChannelUpTo(stamp + 1, gen + 1) /\ y.playing /\ y.used /\ ~y.endPending
         /\ y.voice = stamp + 1 /\ y.gen = gen + 1 /\ y.owner = 0
<1>1. stamp \in Nat /\ gen \in Nat /\ task.snd \in Sounds /\ task.paused \in BOOLEAN
  BY DEF Typed, TypeOK, Task
<1> QED BY <1>1 DEF ChannelUpTo, Taken

LEMMA PendTyped ==
  ASSUME Typed
  PROVE  /\ DOMAIN pend = 1 .. Len(pend) /\ Len(pend) \in Nat
         /\ \A i \in DOMAIN pend : pend[i].chan \in Chans /\ pend[i].voice \in 1 .. stamp
<1>1. pend \in Seq([chan : Chans, voice : 1 .. stamp])
  BY DEF Typed, TypeOK
<1>2. \A i \in 1 .. Len(pend) : pend[i] \in [chan : Chans, voice : 1 .. stamp]
  BY <1>1, ElementOfSeq
<1> QED BY <1>1, <1>2

LEMMA FreedIs ==
  ASSUME Typed, NEW c \in PlayChans \cup {0}
  PROVE  /\ slot \in [Slots -> SlotUpTo(stamp)]
         /\ [FreeSlot EXCEPT !.chan = c] \in SlotUpTo(stamp)
         /\ ~[FreeSlot EXCEPT !.chan = c].inUse
<1>1. slot \in [Slots -> SlotUpTo(stamp)]
  BY DEF Typed, TypeOK, SlotUpTo
<1>2. stamp \in Nat
  BY PoolAssumption DEF Typed, TypeOK
<1>3. FreeSlot \in SlotUpTo(stamp) /\ ~FreeSlot.inUse
  BY <1>2 DEF FreeSlot, SlotUpTo
<1>4. [FreeSlot EXCEPT !.chan = c] \in SlotUpTo(stamp) /\ ~[FreeSlot EXCEPT !.chan = c].inUse
  BY <1>3 DEF SlotUpTo
<1> QED BY <1>1, <1>4

LEMMA Sets ==
  /\ PlayChans \cap RetireChans = {} /\ Chans = PlayChans \cup RetireChans
  /\ Chans \subseteq Nat \ {0} /\ IsFiniteSet(Chans) /\ IsFiniteSet(PlayChans)
<1>1. IsFiniteSet(1 .. NPlay) /\ IsFiniteSet(1 .. NPlay + NRetire)
  BY FS_Interval, PoolAssumption
<1>2. Chans = 1 .. NPlay + NRetire
  BY PoolAssumption DEF Chans, PlayChans, RetireChans
<1>3. PlayChans \cap RetireChans = {}
  BY PoolAssumption DEF PlayChans, RetireChans
<1>4. PlayChans = 1 .. NPlay
  BY DEF PlayChans
<1>5. Chans = PlayChans \cup RetireChans
  BY DEF Chans
<1>6. Chans \subseteq Nat \ {0}
  BY <1>2, PoolAssumption
<1> QED BY <1>1, <1>2, <1>3, <1>4, <1>5, <1>6

LEMMA Facts ==
  ASSUME Typed
  PROVE  /\ chan \in [Chans -> ChannelUpTo(stamp, gen)] /\ gen \in Nat /\ stamp \in Nat
         /\ \A r \in RetireChans : ~chan[r].playing
<1>1. ChannelUpTo(stamp, gen) = Channel
  BY DEF ChannelUpTo, Channel
<1>2. stamp \in Nat
  BY PoolAssumption DEF Typed, TypeOK
<1> QED BY <1>1, <1>2 DEF Typed, TypeOK

-----------------------------------------------------------------------------
(* Channels that are stopped, released or reclaimed.                       *)

KilledOnly(K) ==
  /\ \A c \in Chans \ K : chan'[c] = chan[c]
  /\ \A c \in K : \E k \in gen + 1 .. gen' : chan'[c] = Killed(chan[c], k)
  /\ \A c \in K : Live(c) => chan[c].voice \in ended'
  /\ chan' = [c \in Chans |-> chan'[c]]
  /\ gen' \in Nat /\ gen <= gen' /\ ended \subseteq ended'
  /\ UNCHANGED <<stamp, over, told, lost, pend, snaps>>

LEMMA KillStep ==
  ASSUME VoiceIInv, gpc = "idle", NEW K \in SUBSET PlayChans, KilledOnly(K), gpc' # "deliver"
  PROVE  /\ chan' \in [Chans -> ChannelUpTo(stamp', gen')]
         /\ \A r \in RetireChans : ~chan'[r].playing
         /\ VoicesApart' /\ LiveChans' /\ SnapsKnow' /\ Owed' /\ NoVoiceVanishes'
<1> USE Facts, Sets DEF VoiceIInv
<1>1. ASSUME NEW c \in Chans
      PROVE  chan'[c] \in ChannelUpTo(stamp', gen') /\ chan'[c].voice = chan[c].voice
  <2>1. CASE c \in K
    <3>1. PICK k \in gen + 1 .. gen' : chan'[c] = Killed(chan[c], k)
      BY <2>1 DEF KilledOnly
    <3> QED BY <3>1, KilledIs DEF KilledOnly
  <2>2. CASE c \notin K
    BY <2>2, ChannelGrows DEF KilledOnly
  <2> QED BY <2>1, <2>2
<1>2. \A c \in K : ~chan'[c].used /\ ~chan'[c].playing /\ ~chan'[c].endPending
  BY KilledIs DEF KilledOnly
<1>3. \A c \in Chans : c \notin K => chan'[c] = chan[c]
  BY DEF KilledOnly
<1>4. chan' \in [Chans -> ChannelUpTo(stamp', gen')]
  BY <1>1 DEF KilledOnly
<1>5. \A r \in RetireChans : ~chan'[r].playing
  BY <1>3
<1>6. VoicesApart'
  BY <1>1 DEF VoicesApart
<1>7. LiveChans'
  BY <1>1, <1>2, <1>3 DEF LiveChans, Live, KilledOnly
<1>8. SnapsKnow'
  <2>1. ASSUME NEW m \in snaps, m.chan \in K PROVE chan'[m.chan].gen # m.gen
    <3>1. PICK k \in gen + 1 .. gen' : chan'[m.chan] = Killed(chan[m.chan], k)
      BY <2>1 DEF KilledOnly
    <3>2. chan'[m.chan].gen = k /\ m.gen \in 0 .. gen
      BY <2>1, <3>1, KilledIs DEF KilledOnly, Typed, Mixed
    <3> QED BY <3>1, <3>2
  <2>2. \A m \in snaps : m.chan \in Chans
    BY DEF Typed, Mixed
  <2> QED BY <1>1, <1>3, <2>1, <2>2 DEF SnapsKnow, KilledOnly
<1>9. Owed'
  BY <1>1, <1>2, <1>3 DEF Owed, Heard, Queued, Flagged, KilledOnly, Live
<1>10. NoVoiceVanishes'
  BY <1>1, <1>2, <1>3 DEF NoVoiceVanishes, KilledOnly, Live
<1> QED BY <1>4, <1>5, <1>6, <1>7, <1>8, <1>9, <1>10

LEMMA ReleaseStep ==
  ASSUME VoiceIInv, Snd_release
  PROVE  VoiceIInv'
<1> USE Facts, Sets DEF VoiceIInv
<1>1. PICK s \in Sounds :
        LET killed == ChansOf(s)
            st == snd[s].st
            Bump(c) == gen + Cardinality({d \in killed : d <= c}) IN
        /\ snd[s].used
        /\ chan' = [c \in Chans |-> IF c \in killed THEN Killed(chan[c], Bump(c)) ELSE chan[c]]
        /\ gen' = gen + Cardinality(killed)
        /\ ended' = ended \cup {chan[c].voice : c \in killed}
        /\ snd' = [snd EXCEPT ![s] = NoSound]
        /\ handed' = HandedOver(st) /\ closed' = closed \cup ClosedHere(st)
  BY DEF Snd_release
<1> DEFINE K == ChansOf(s)
           Upto(c) == {d \in K : d <= c}
<1>2. /\ gpc = "idle" /\ gpc' = gpc
      /\ UNCHANGED <<running, stamp, reader, slot, task, pend, apc, snaps, doomed, feeds,
                     owns, over, told, lost>>
  BY DEF Snd_release, game
<1>3. K \in SUBSET PlayChans /\ \A c \in K : chan[c].used
  BY DEF ChansOf
<1>4. IsFiniteSet(K) /\ Cardinality(K) \in Nat
  BY <1>3, FS_Subset, FS_CardinalityType
<1>5. ASSUME NEW c \in K PROVE gen + Cardinality(Upto(c)) \in gen + 1 .. gen'
  <2>1. Upto(c) \in SUBSET K /\ c \in Upto(c)
    BY <1>3
  <2>2. IsFiniteSet(Upto(c)) /\ Cardinality(Upto(c)) <= Cardinality(K) /\ Cardinality(Upto(c)) \in Nat
    BY <1>4, <2>1, FS_Subset, FS_CardinalityType
  <2>3. Cardinality(Upto(c)) # 0
    BY <2>1, <2>2, FS_EmptySet
  <2> QED BY <1>1, <1>4, <2>2, <2>3
<1>6. \A c \in K : chan[c].voice \in 1 .. stamp
  BY <1>3 DEF LiveChans, ChannelUpTo
<1>14. ended' = ended \cup {chan[c].voice : c \in K}
  BY <1>1
<1> HIDE DEF K
<1>7. KilledOnly(K)
  <2>1. \A c \in K : chan'[c] = Killed(chan[c], gen + Cardinality(Upto(c)))
    BY <1>1, <1>3 DEF K
  <2>2. \A c \in Chans \ K : chan'[c] = chan[c]
    BY <1>1 DEF K
  <2>3. chan' = [c \in Chans |-> chan'[c]]
    BY <1>1
  <2>4. gen' \in Nat /\ gen <= gen'
    BY <1>1, <1>4 DEF K
  <2> QED BY <1>2, <1>5, <1>14, <2>1, <2>2, <2>3, <2>4 DEF KilledOnly
<1>8. /\ chan' \in [Chans -> ChannelUpTo(stamp', gen')] /\ \A r \in RetireChans : ~chan'[r].playing
      /\ VoicesApart' /\ LiveChans' /\ SnapsKnow' /\ Owed' /\ NoVoiceVanishes'
  BY <1>2, <1>3, <1>7, KillStep
<1>9. Typed'
  <2>1. snd' \in [Sounds -> [used : BOOLEAN, st : Streams \cup {0}]]
    BY <1>1 DEF Typed, TypeOK, NoSound
  <2>2. handed' \in Seq(Streams) /\ closed' \subseteq Streams
    BY <1>1 DEF Typed, TypeOK, HandedOver, ClosedHere, Handing
  <2>3. ended' \subseteq 1 .. stamp'
    <3>1. ended \subseteq 1 .. stamp
      BY DEF Typed, TypeOK
    <3> QED BY <1>2, <1>6, <1>14, <3>1
  <2>4. gen' \in Nat /\ gen <= gen' /\ snaps' \subseteq Mixed'
    BY <1>2, <1>7 DEF KilledOnly, Typed, Mixed
  <2>5. chan' \in [Chans -> Channel']
    BY <1>8 DEF Channel, ChannelUpTo
  <2> QED BY <1>2, <1>8, <2>1, <2>2, <2>3, <2>4, <2>5 DEF Typed, TypeOK
<1>10. \A c \in Chans : chan'[c].voice = chan[c].voice
  BY <1>7, <1>3, KilledIs DEF KilledOnly
<1>11. Holding' /\ Heard' \subseteq over'
  BY <1>2 DEF Holding, Within, Heard
<1>12. SlotsKnow'
  <2>1. \A c \in K : ~chan'[c].used
    BY <1>3, <1>7, KilledIs DEF KilledOnly
  <2>2. \A c \in Chans \ K : chan'[c] = chan[c]
    BY <1>7 DEF KilledOnly
  <2> QED BY <1>2, <1>10, <2>1, <2>2 DEF SlotsKnow
<1> QED BY <1>8, <1>9, <1>11, <1>12

\* One channel that is killed, or none.
LEMMA OneKilled ==
  ASSUME VoiceIInv, NEW c \in PlayChans, gen' = gen + 1,
         chan' = [chan EXCEPT ![c] = Killed(chan[c], gen + 1)],
         ended \subseteq ended', Live(c) => chan[c].voice \in ended',
         UNCHANGED <<stamp, over, told, lost, pend, snaps>>
  PROVE  KilledOnly({c}) /\ ~chan'[c].used /\ \A d \in Chans : chan'[d].voice = chan[d].voice
<1> USE Facts, Sets DEF VoiceIInv
<1>1. chan'[c] = Killed(chan[c], gen + 1)
  BY DEF VoiceIInv
<1>2. \A d \in Chans \ {c} : chan'[d] = chan[d]
  OBVIOUS
<1>3. chan' = [d \in Chans |-> chan'[d]]
  OBVIOUS
<1>4. gen + 1 \in gen + 1 .. gen'
  OBVIOUS
<1>5. KilledOnly({c})
  BY <1>1, <1>2, <1>3, <1>4 DEF KilledOnly
<1>6. ~chan'[c].used /\ chan'[c].voice = chan[c].voice
  BY <1>1, KilledIs
<1> QED BY <1>2, <1>5, <1>6

LEMMA StopStep ==
  ASSUME VoiceIInv, StopChannel
  PROVE  VoiceIInv'
<1> USE Facts, Sets DEF VoiceIInv
<1>1. PICK o \in Slots, c \in PlayChans \cup {0} :
        /\ c = slot[o].chan /\ Held(o)
        /\ IF Foreign(chan[c], o)
           THEN UNCHANGED <<chan, gen>>
           ELSE chan' = [chan EXCEPT ![c] = Killed(@, gen + 1)] /\ gen' = gen + 1
        /\ ended' = ended \cup {slot[o].voice}
        /\ slot' = [slot EXCEPT ![o] = [FreeSlot EXCEPT !.chan = c]]
  BY DEF StopChannel, Typed, TypeOK
<1>2. /\ gpc = "idle" /\ gpc' = gpc
      /\ UNCHANGED <<running, stamp, snd, reader, handed, task, pend, apc, snaps, doomed, feeds,
                     closed, owns, over, told, lost>>
  BY DEF StopChannel, audio
<1> DEFINE K == IF Foreign(chan[c], o) THEN {} ELSE {c}
<1>3. c \in PlayChans /\ c = slot[o].chan /\ slot[o].inUse /\ slot[o].voice \in 1 .. stamp
  BY <1>1 DEF Held, SlotsKnow, Typed, TypeOK
<1>4. /\ KilledOnly(K) /\ \A d \in Chans : chan'[d].voice = chan[d].voice
      /\ \A d \in K : ~chan'[d].used
  <2>1. CASE Foreign(chan[c], o)
    BY <1>1, <1>2, <2>1 DEF KilledOnly
  <2>2. CASE ~Foreign(chan[c], o)
    <3>1. Live(c) => chan[c].voice = slot[o].voice
      BY <1>3, <2>2 DEF Foreign, SlotsKnow, LiveChans
    <3>2. /\ gen' = gen + 1 /\ ended \subseteq ended' /\ (Live(c) => chan[c].voice \in ended')
          /\ chan' = [chan EXCEPT ![c] = Killed(chan[c], gen + 1)]
      BY <1>1, <2>2, <3>1
    <3>3. K = {c}
      BY <2>2
    <3>4. KilledOnly({c}) /\ ~chan'[c].used /\ \A d \in Chans : chan'[d].voice = chan[d].voice
      BY <1>2, <1>3, <3>2, OneKilled
    <3> QED BY <3>3, <3>4
  <2> QED BY <2>1, <2>2
<1>5. K \in SUBSET PlayChans
  BY <1>3
<1>6. ended' = ended \cup {slot[o].voice}
  BY <1>1
<1>7. slot' = [slot EXCEPT ![o] = [FreeSlot EXCEPT !.chan = c]]
  BY <1>1
<1> HIDE DEF K
<1>8. /\ chan' \in [Chans -> ChannelUpTo(stamp', gen')] /\ \A r \in RetireChans : ~chan'[r].playing
      /\ VoicesApart' /\ LiveChans' /\ SnapsKnow' /\ Owed' /\ NoVoiceVanishes'
  BY <1>2, <1>4, <1>5, KillStep
<1>9. Typed'
  <2>1. slot' \in [Slots -> SlotUpTo(stamp')]
    BY <1>2, <1>3, <1>7, FreedIs
  <2>2. ended' \subseteq 1 .. stamp'
    <3>1. ended \subseteq 1 .. stamp
      BY DEF Typed, TypeOK
    <3> QED BY <1>2, <1>3, <1>6, <3>1
  <2>3. gen' \in Nat /\ gen <= gen' /\ snaps' \subseteq Mixed'
    BY <1>2, <1>4 DEF KilledOnly, Typed, Mixed
  <2>4. chan' \in [Chans -> Channel']
    BY <1>8 DEF Channel, ChannelUpTo
  <2> QED BY <1>2, <1>8, <2>1, <2>2, <2>3, <2>4 DEF Typed, TypeOK, SlotUpTo
<1>10. Holding' /\ Heard' \subseteq over'
  BY <1>2 DEF Holding, Within, Heard
<1>11. SlotsKnow'
  <2>1. \A d \in Chans \ K : chan'[d] = chan[d]
    BY <1>4 DEF KilledOnly
  <2>2. ~slot'[o].inUse /\ \A p \in Slots \ {o} : slot'[p] = slot[p]
    BY <1>3, <1>7, FreedIs
  <2> QED BY <1>2, <1>4, <2>1, <2>2 DEF SlotsKnow
<1> QED BY <1>8, <1>9, <1>10, <1>11

LEMMA SlotPicked ==
  ASSUME NEW t, PickSlot(t)
  PROVE  \/ gpc' = "idle" /\ task' = NoTask
         \/ gpc' = "play" /\ \E o \in Slots : task' = [t EXCEPT !.slot = o]
<1> DEFINE free == {o \in Slots : ~slot'[o].inUse}
<1>1. CASE free = {}
  BY <1>1 DEF PickSlot
<1>2. CASE free # {}
  <2>1. free \in SUBSET Nat
    BY DEF Slots
  <2>2. (CHOOSE o \in free : \A p \in free : o <= p) \in Slots
    <3>1. \E o \in free : \A p \in free : o <= p
      BY <1>2, <2>1, LeastExists
    <3>2. (CHOOSE o \in free : \A p \in free : o <= p) \in free
      BY <3>1
    <3> QED BY <3>2
  <2> QED BY <1>2, <2>2 DEF PickSlot
<1> QED BY <1>1, <1>2

LEMMA EnsureFreeStep ==
  ASSUME VoiceIInv, EnsureFree
  PROVE  VoiceIInv'
<1> USE Facts, Sets DEF VoiceIInv
<1>1. PICK s \in Sounds, paused \in BOOLEAN, looping \in {FALSE, Restarts} :
        PickSlot([NoTask EXCEPT !.snd = s, !.paused = paused, !.looping = looping])
  BY DEF EnsureFree
<1>2. /\ gpc = "idle" /\ stamp < MaxPlays
      /\ UNCHANGED <<running, stamp, snd, reader, handed, pend, apc, snaps, doomed, feeds,
                     closed, owns, over, told, lost>>
  BY DEF EnsureFree, audio, voices
<1>3. \/ gpc' = "idle" /\ task' = NoTask
      \/ gpc' = "play" /\ task' \in Task /\ task'.slot \in Slots /\ task'.snd \in Sounds
                      /\ task'.back = "idle"
  <2>1. NoTask \in Task /\ NoTask.back = "idle"
    BY DEF NoTask, Task
  <2> DEFINE t == [NoTask EXCEPT !.snd = s, !.paused = paused, !.looping = looping]
  <2>2. t \in Task /\ t.back = "idle" /\ t.snd = s
    BY <2>1, PoolAssumption DEF Task
  <2> HIDE DEF t
  <2>3. ASSUME NEW o \in Slots, task' = [t EXCEPT !.slot = o]
        PROVE  task' \in Task /\ task'.slot \in Slots /\ task'.snd \in Sounds /\ task'.back = "idle"
    BY <2>2, <2>3 DEF Task
  <2>4. PickSlot(t)
    BY <1>1 DEF t
  <2> QED BY <2>3, <2>4, SlotPicked
<1>4. task' \in Task /\ gpc' \in {"idle", "play"} /\ task'.back = "idle"
  <2>1. NoTask \in Task /\ NoTask.back = "idle"
    BY DEF NoTask, Task
  <2> QED BY <1>3, <2>1
<1>5. PICK K \in SUBSET PlayChans :
        /\ KilledOnly(K) /\ \A d \in Chans : chan'[d].voice = chan[d].voice
        /\ \A d \in K : ~chan'[d].used
        /\ ended' \subseteq 1 .. stamp
        /\ \/ slot' = slot
           \/ \E o \in Slots, c \in PlayChans : slot' = [slot EXCEPT ![o] = [FreeSlot EXCEPT !.chan = c]]
  <2>1. ended \subseteq 1 .. stamp
    BY DEF Typed, TypeOK
  <2>2. CASE UNCHANGED <<chan, gen, ended>> /\ slot' = slot
    <3>1. KilledOnly({})
      BY <1>2, <2>2 DEF KilledOnly
    <3> QED BY <2>1, <2>2, <3>1
  <2>3. ASSUME NEW o \in Reclaimed, NEW c, c = slot[o].chan,
               slot' = [slot EXCEPT ![o] = [FreeSlot EXCEPT !.chan = c]],
               IF Rank(o) > 0
               THEN /\ chan' = [chan EXCEPT ![c] = Killed(@, gen + 1)]
                    /\ gen' = gen + 1
                    /\ ended' = ended \cup {chan[c].voice}
               ELSE UNCHANGED <<chan, gen, ended>>
        PROVE  \E K \in SUBSET PlayChans :
                 /\ KilledOnly(K) /\ \A d \in Chans : chan'[d].voice = chan[d].voice
                 /\ \A d \in K : ~chan'[d].used
                 /\ ended' \subseteq 1 .. stamp
                 /\ \/ slot' = slot
                    \/ \E p \in Slots, d \in PlayChans :
                         slot' = [slot EXCEPT ![p] = [FreeSlot EXCEPT !.chan = d]]
    <3>1. o \in Slots /\ c \in PlayChans /\ chan[c].voice \in 1 .. stamp
      <4>1. o \in Slots /\ slot[o].inUse
        BY DEF Reclaimed
      <4> QED BY <2>3, <4>1 DEF SlotsKnow, ChannelUpTo
    <3>2. CASE Rank(o) > 0
      <4>1. KilledOnly({c}) /\ ~chan'[c].used /\ \A d \in Chans : chan'[d].voice = chan[d].voice
        <5>1. /\ chan' = [chan EXCEPT ![c] = Killed(chan[c], gen + 1)] /\ gen' = gen + 1
              /\ ended \subseteq ended' /\ chan[c].voice \in ended'
          BY <2>3, <3>2
        <5> QED BY <1>2, <3>1, <5>1, OneKilled
      <4>2. ended' \subseteq 1 .. stamp
        BY <2>1, <2>3, <3>1, <3>2
      <4>3. {c} \in SUBSET PlayChans /\ \A d \in {c} : ~chan'[d].used
        BY <3>1, <4>1
      <4> QED BY <2>3, <3>1, <4>1, <4>2, <4>3
    <3>3. CASE ~(Rank(o) > 0)
      <4>1. KilledOnly({})
        BY <1>2, <2>3, <3>3 DEF KilledOnly
      <4> QED BY <2>1, <2>3, <3>1, <3>3, <4>1
    <3> QED BY <3>2, <3>3
  <2> QED BY <2>2, <2>3 DEF EnsureFree, voices
<1>6. /\ chan' \in [Chans -> ChannelUpTo(stamp', gen')] /\ \A r \in RetireChans : ~chan'[r].playing
      /\ VoicesApart' /\ LiveChans' /\ SnapsKnow' /\ Owed' /\ NoVoiceVanishes'
  BY <1>2, <1>4, <1>5, KillStep
<1>7. slot' \in [Slots -> SlotUpTo(stamp')]
  <2>1. slot \in [Slots -> SlotUpTo(stamp)]
    BY FreedIs
  <2>2. ASSUME NEW o \in Slots, NEW c \in PlayChans,
               slot' = [slot EXCEPT ![o] = [FreeSlot EXCEPT !.chan = c]]
        PROVE  slot' \in [Slots -> SlotUpTo(stamp)]
    BY <2>1, <2>2, FreedIs
  <2> QED BY <1>2, <1>5, <2>1, <2>2
<1>8. Typed'
  <2>1. gen' \in Nat /\ gen <= gen' /\ snaps' \subseteq Mixed'
    BY <1>2, <1>5 DEF KilledOnly, Typed, Mixed
  <2>2. chan' \in [Chans -> Channel']
    BY <1>6 DEF Channel, ChannelUpTo
  <2> QED BY <1>2, <1>3, <1>4, <1>5, <1>6, <1>7, <2>1, <2>2 DEF Typed, TypeOK, SlotUpTo
<1>9. Holding' /\ Heard' \subseteq over'
  BY <1>2, <1>4 DEF Holding, Within, Heard
<1>10. SlotsKnow'
  <2>1. \A d \in Chans \ K : chan'[d] = chan[d]
    BY <1>5 DEF KilledOnly
  <2>2. \A p \in Slots : slot'[p].inUse => slot'[p] = slot[p]
    BY <1>5, FreedIs
  <2> QED BY <1>2, <1>5, <2>1, <2>2 DEF SlotsKnow
<1> QED BY <1>6, <1>8, <1>9, <1>10

-----------------------------------------------------------------------------
(* The game thread's other steps.                                          *)

LEMMA CreateStep ==
  ASSUME VoiceIInv, Sys_createSound
  PROVE  VoiceIInv'
<1> USE Facts, Sets DEF VoiceIInv
<1>1. UNCHANGED <<running, chan, stamp, gen, reader, handed, slot, gpc, task, pend, apc, snaps,
                  doomed, feeds, closed, owns, over, told, ended, lost>>
  BY DEF Sys_createSound, voices, game, audio, history
<1>2. snd' \in [Sounds -> [used : BOOLEAN, st : Streams \cup {0}]]
  BY DEF Sys_createSound, Typed, TypeOK
<1>3. Typed'
  BY <1>1, <1>2 DEF Typed, TypeOK, Mixed, Channel
<1>4. Holding' /\ VoicesApart' /\ LiveChans'
  BY <1>1 DEF Holding, Within, Heard, VoicesApart, LiveChans, Live
<1>5. SlotsKnow' /\ SnapsKnow' /\ Heard' \subseteq over'
  BY <1>1 DEF SlotsKnow, SnapsKnow, Heard
<1>6. Owed' /\ NoVoiceVanishes'
  BY <1>1 DEF Owed, Heard, Flagged, Queued, NoVoiceVanishes
<1> QED BY <1>3, <1>4, <1>5, <1>6

\* Pausing and seeking leave a channel's voice and its END alone.
LEMMA SetStep ==
  ASSUME VoiceIInv, Ch_setPaused \/ Ch_setPosition
  PROVE  VoiceIInv'
<1> USE Facts, Sets DEF VoiceIInv
<1>1. /\ UNCHANGED <<running, stamp, snd, reader, handed, slot, gpc, task, pend, apc, snaps,
                     doomed, feeds, closed, owns, over, told, ended, lost>>
      /\ gen' \in Nat /\ gen <= gen'
  BY DEF Ch_setPaused, Ch_setPosition, voices, game, audio, history
<1>2. PICK c \in PlayChans :
        \/ \E paused \in BOOLEAN : chan' = [chan EXCEPT ![c].paused = paused] /\ gen' = gen
        \/ chan' = [chan EXCEPT ![c].gen = gen + 1] /\ gen' = gen + 1
  BY DEF Ch_setPaused, Ch_setPosition, Held, SlotsKnow
<1>3. /\ chan' \in [Chans -> ChannelUpTo(stamp', gen')]
      /\ \A d \in Chans :
           /\ chan'[d].used = chan[d].used /\ chan'[d].playing = chan[d].playing
           /\ chan'[d].endPending = chan[d].endPending /\ chan'[d].voice = chan[d].voice
           /\ chan'[d].cb = chan[d].cb /\ chan'[d].owner = chan[d].owner
           /\ chan'[d].gen = chan[d].gen \/ chan'[d].gen = gen + 1
  <2>1. ASSUME NEW paused \in BOOLEAN, chan' = [chan EXCEPT ![c].paused = paused], gen' = gen
        PROVE  <1>3!:
    BY <1>1, <2>1 DEF ChannelUpTo
  <2>2. ASSUME chan' = [chan EXCEPT ![c].gen = gen + 1], gen' = gen + 1
        PROVE  <1>3!:
    <3>1. \A d \in Chans : chan[d] \in ChannelUpTo(stamp', gen')
      BY <1>1, <2>2, ChannelGrows
    <3>2. \A d \in Chans : chan'[d] = IF d = c THEN [chan[d] EXCEPT !.gen = gen + 1] ELSE chan[d]
      BY <2>2
    <3>3. \A d \in Chans : chan'[d] \in ChannelUpTo(stamp', gen')
      BY <1>1, <2>2, <3>1, <3>2 DEF ChannelUpTo
    <3> QED BY <2>2, <3>1, <3>2, <3>3 DEF ChannelUpTo
  <2> QED BY <1>2, <2>1, <2>2
<1>4. Typed'
  <2>1. snaps' \subseteq Mixed' /\ \A r \in RetireChans : ~chan'[r].playing
    BY <1>1, <1>3 DEF Typed, Mixed
  <2>2. chan' \in [Chans -> Channel']
    BY <1>3 DEF Channel, ChannelUpTo
  <2> QED BY <1>1, <1>3, <2>1, <2>2 DEF Typed, TypeOK
<1>5. \A i \in DOMAIN pend : pend[i].chan \in Chans
  BY PendTyped
<1>6. Holding' /\ VoicesApart' /\ LiveChans'
  BY <1>1, <1>3, <1>5 DEF Holding, Within, Heard, VoicesApart, LiveChans, Live
<1>7. SlotsKnow' /\ Heard' \subseteq over'
  BY <1>1, <1>3 DEF SlotsKnow, Heard
<1>8. SnapsKnow'
  BY <1>1, <1>3 DEF SnapsKnow, Typed, Mixed
<1>9. Owed' /\ NoVoiceVanishes'
  BY <1>1, <1>3 DEF Owed, Heard, Flagged, Queued, NoVoiceVanishes
<1> QED BY <1>4, <1>6, <1>7, <1>8, <1>9

\* setCallback makes the new voice's END one that will be delivered.
LEMMA RegisterStep ==
  ASSUME VoiceIInv, Register
  PROVE  VoiceIInv'
<1> USE Facts, Sets DEF VoiceIInv
<1>1. /\ gpc = "register"
      /\ UNCHANGED <<running, stamp, gen, snd, reader, handed, pend, apc, snaps, doomed, feeds,
                     closed, over, told, ended, lost>>
      /\ task' = NoTask /\ gpc' = task.back
  BY DEF Register, audio
<1> DEFINE c == task.chan
           o == task.slot
<1>2. c \in PlayChans /\ o \in Slots /\ chan[c].voice \in 1 .. stamp /\ task.back \in {"idle", "called"}
      /\ task.snd \in Sounds /\ task.looping \in BOOLEAN
  BY <1>1 DEF Typed, Task, ChannelUpTo
<1>3. /\ chan' = [chan EXCEPT ![c] = [chan[c] EXCEPT !.owner = o, !.cb = TRUE]]
      /\ slot' = [slot EXCEPT ![o] = [inUse |-> TRUE, looping |-> task.looping, ended |-> FALSE,
                                      chan |-> c, snd |-> task.snd, voice |-> chan[c].voice]]
      /\ owns' = [owns EXCEPT ![chan[c].voice] = o]
  <2>1. chan' = [chan EXCEPT ![c].owner = o, ![c].cb = TRUE]
    BY DEF Register
  <2>2. [chan EXCEPT ![c].owner = o, ![c].cb = TRUE]
          = [chan EXCEPT ![c] = [chan[c] EXCEPT !.owner = o, !.cb = TRUE]]
    BY <1>2
  <2> QED BY <2>1, <2>2 DEF Register
<1> HIDE DEF c, o
<1>4. \A d \in Chans :
        chan'[d] = IF d = c THEN [chan[c] EXCEPT !.owner = o, !.cb = TRUE] ELSE chan[d]
  BY <1>3
<1>5. /\ chan' \in [Chans -> ChannelUpTo(stamp, gen)]
      /\ \A d \in Chans :
           /\ chan'[d].used = chan[d].used /\ chan'[d].playing = chan[d].playing
           /\ chan'[d].endPending = chan[d].endPending /\ chan'[d].voice = chan[d].voice
           /\ chan'[d].gen = chan[d].gen
           /\ d # c => chan'[d] = chan[d]
      /\ chan'[c].cb /\ chan'[c].owner = o
  <2> DEFINE y == [chan[c] EXCEPT !.owner = o, !.cb = TRUE]
  <2>1. /\ y \in ChannelUpTo(stamp, gen) /\ y.used = chan[c].used /\ y.playing = chan[c].playing
        /\ y.endPending = chan[c].endPending /\ y.voice = chan[c].voice /\ y.gen = chan[c].gen
        /\ y.owner = o /\ y.cb
    BY <1>2, OwnedIs
  <2> HIDE DEF y
  <2>2. chan' = [chan EXCEPT ![c] = y]
    BY <1>3 DEF y
  <2> QED BY <1>2, <2>1, <2>2
<1>6. slot' \in [Slots -> SlotUpTo(stamp)]
  <2>1. [inUse |-> TRUE, looping |-> task.looping, ended |-> FALSE, chan |-> c, snd |-> task.snd,
         voice |-> chan[c].voice] \in SlotUpTo(stamp)
    BY <1>2 DEF SlotUpTo
  <2> QED BY <1>2, <1>3, <2>1, FreedIs
<1>7. Typed'
  <2>1. snaps' \subseteq Mixed' /\ \A r \in RetireChans : ~chan'[r].playing
    BY <1>1, <1>5 DEF Typed, Mixed
  <2>2. chan' \in [Chans -> Channel']
    BY <1>1, <1>5 DEF Channel, ChannelUpTo
  <2>3. task' \in Task
    BY <1>1 DEF NoTask, Task
  <2>4. owns' \in [Voices -> Slots \cup {0}]
    BY <1>2, <1>3 DEF Typed, TypeOK
  <2> QED BY <1>1, <1>2, <1>6, <2>1, <2>2, <2>3, <2>4 DEF Typed, TypeOK, SlotUpTo
<1>8. \A i \in DOMAIN pend : pend[i].chan \in Chans
  BY PendTyped
<1>9. Holding'
  BY <1>1, <1>2, <1>5, <1>8 DEF Holding, Within, Heard
<1>10. VoicesApart' /\ Heard' \subseteq over'
  BY <1>1, <1>5 DEF VoicesApart, Heard
<1>11. LiveChans'
  BY <1>1, <1>5 DEF LiveChans, Live, c
<1>12. SlotsKnow'
  <2>1. ASSUME NEW p \in Slots \ {o} PROVE slot'[p] = slot[p]
    BY <1>3
  <2>2. slot'[o].chan = c /\ slot'[o].snd \in Sounds /\ slot'[o].voice = chan[c].voice
    BY <1>2, <1>3, FreedIs
  <2> QED BY <1>2, <1>5, <2>1, <2>2 DEF SlotsKnow
<1>13. SnapsKnow'
  BY <1>1, <1>5 DEF SnapsKnow, Typed, Mixed
<1>14. Owed' /\ NoVoiceVanishes'
  BY <1>1, <1>2, <1>5 DEF Owed, Heard, Flagged, Queued, NoVoiceVanishes
<1> QED BY <1>7, <1>9, <1>10, <1>11, <1>12, <1>13, <1>14

\* A voice that is stolen goes to `lost' if it still played; its END, if it has one, goes
\* to a free retire slot, or to `lost' when there is none.
LEMMA RetiringIs ==
  ASSUME NEW c
  PROVE  /\ Retiring(c) \subseteq FreeRetire
         /\ \A r, q \in Retiring(c) : r = q
         /\ Retiring(c) # {} => Owes(chan[c])
         /\ Owes(chan[c]) /\ FreeRetire # {} => Retiring(c) # {}
<1>1. FreeRetire \in SUBSET Nat
  BY Sets DEF FreeRetire
<1>2. CASE Owes(chan[c]) /\ FreeRetire # {}
  <2>1. \E r \in FreeRetire : \A q \in FreeRetire : r <= q
    BY <1>1, <1>2, LeastExists
  <2>2. (CHOOSE r \in FreeRetire : \A q \in FreeRetire : r <= q) \in FreeRetire
    BY <2>1
  <2> QED BY <1>2, <2>2 DEF Retiring
<1>3. CASE ~(Owes(chan[c]) /\ FreeRetire # {})
  BY <1>3 DEF Retiring
<1> QED BY <1>2, <1>3

LEMMA AllocatedIs ==
  Allocated \subseteq PlayChans
<1> DEFINE free == {c \in PlayChans : ~chan[c].used}
<1>1. CASE free # {}
  <2>1. free \in SUBSET Nat
    BY Sets
  <2>2. \E c \in free : \A d \in free : c <= d
    BY <1>1, <2>1, LeastExists
  <2>3. (CHOOSE c \in free : \A d \in free : c <= d) \in free
    BY <2>2
  <2> QED BY <1>1, <2>3 DEF Allocated
<1>2. CASE free = {}
  BY <1>2 DEF Allocated, Oldest
<1> QED BY <1>1, <1>2

LEMMA PlayStep ==
  ASSUME VoiceIInv, Sys_playSound
  PROVE  VoiceIInv'
<1> USE Facts, Sets DEF VoiceIInv
<1>1. /\ gpc = "play" /\ gpc' = "register" /\ stamp' = stamp + 1 /\ gen' = gen + 1
      /\ UNCHANGED <<running, snd, handed, slot, pend, apc, snaps, doomed, feeds, closed, owns,
                     over, told, ended>>
  BY DEF Sys_playSound, audio
<1>2. PICK c \in PlayChans :
        /\ chan' = [d \in Chans |-> IF d = c THEN Taken(c)
                                    ELSE IF d \in Retiring(c) THEN Retired(chan[c]) ELSE chan[d]]
        /\ lost' = (IF (Owes(chan[c]) /\ FreeRetire = {}) \/ (chan[c].used /\ chan[c].playing)
                    THEN lost \cup {chan[c].voice} ELSE lost)
        /\ reader' = (IF snd[task.snd].st # 0 THEN [reader EXCEPT ![snd[task.snd].st] = c] ELSE reader)
        /\ task' = [task EXCEPT !.chan = c]
  BY AllocatedIs DEF Sys_playSound
<1> DEFINE R == Retiring(c)
<1>3. /\ \A r \in R : r \in RetireChans /\ ~chan[r].used /\ ~Live(r)
      /\ \A r, q \in R : r = q
      /\ R # {} => Owes(chan[c])
      /\ Owes(chan[c]) => R # {} \/ FreeRetire = {}
  BY RetiringIs DEF FreeRetire, LiveChans
<1> HIDE DEF R
<1>4. /\ c \in Chans /\ c \notin R /\ R \subseteq Chans
      /\ chan[c].used => chan[c].voice \in 1 .. stamp
      /\ Live(c) => chan[c].used
      /\ chan[c].endPending => Owes(chan[c])
  BY <1>1, <1>3 DEF LiveChans, Live, ChannelUpTo, Owes
<1>5. /\ chan'[c] \in ChannelUpTo(stamp', gen') /\ chan'[c].playing /\ chan'[c].used
      /\ ~chan'[c].endPending /\ chan'[c].voice = stamp + 1 /\ chan'[c].gen = gen + 1
      /\ chan'[c].owner = 0
  BY <1>1, <1>2, TakenIs
<1>6. \A r \in R : /\ chan'[r] \in ChannelUpTo(stamp', gen') /\ ~chan'[r].playing
                   /\ chan'[r].endPending /\ chan'[r].used /\ chan'[r].cb
                   /\ chan'[r].voice = chan[c].voice
  <2>1. \A r \in R : chan'[r] = Retired(chan[c])
    BY <1>2, <1>4 DEF R
  <2>2. Retired(chan[c]) \in ChannelUpTo(stamp', gen')
    BY <1>1, RetiredIs, ChannelGrows
  <2> QED BY <2>1, <2>2, RetiredIs
<1>7. \A d \in Chans : d # c /\ d \notin R =>
        chan'[d] = chan[d] /\ chan'[d] \in ChannelUpTo(stamp', gen')
  <2>1. \A d \in Chans : d # c /\ d \notin R => chan'[d] = chan[d]
    BY <1>2 DEF R
  <2>2. \A d \in Chans : chan[d] \in ChannelUpTo(stamp', gen')
    BY <1>1, ChannelGrows
  <2> QED BY <2>1, <2>2
<1>8. chan' \in [Chans -> ChannelUpTo(stamp', gen')]
  BY <1>2, <1>5, <1>6, <1>7
<1>9. lost \subseteq lost' /\ lost' \subseteq 1 .. stamp
  BY <1>2, <1>4 DEF Typed, TypeOK, Owes
<1>10. \A d \in Chans : chan[d].voice \in 0 .. stamp
  BY DEF ChannelUpTo
<1>11. Typed'
  <2>1. snaps' \subseteq Mixed' /\ \A r \in RetireChans : ~chan'[r].playing
    BY <1>1, <1>4, <1>6, <1>7 DEF Typed, Mixed
  <2>2. chan' \in [Chans -> Channel']
    BY <1>8 DEF Channel, ChannelUpTo
  <2>3. task' \in Task /\ task'.chan = c /\ task'.slot = task.slot /\ task'.snd = task.snd
    BY <1>2 DEF Typed, Task
  <2>4. reader' \in [Streams -> PlayChans \cup {0}]
    BY <1>2 DEF Typed, TypeOK
  <2>5. stamp' \in 0 .. MaxPlays /\ stamp \in 0 .. stamp' /\ gen' \in Nat
    BY <1>1, PoolAssumption DEF Typed
  <2>6. slot' \in [Slots -> SlotUpTo(stamp')]
    <3>1. SlotUpTo(stamp) \subseteq SlotUpTo(stamp + 1)
      BY DEF SlotUpTo
    <3> QED BY <1>1, <3>1, FreedIs
  <2>7. pend' \in Seq([chan : Chans, voice : 1 .. stamp'])
    <3> DEFINE P(s) == [chan : Chans, voice : 1 .. s]
    <3>1. 1 .. stamp \subseteq 1 .. stamp'
      BY <1>1
    <3>2. P(stamp) \subseteq P(stamp')
      BY <3>1, Zenon
    <3>3. pend \in Seq(P(stamp))
      BY DEF Typed, TypeOK
    <3> HIDE DEF P
    <3>4. pend \in Seq(P(stamp'))
      BY <3>2, <3>3, SeqGrows
    <3> QED BY <1>1, <3>4 DEF P
  <2>8. over' \subseteq 1 .. stamp' /\ ended' \subseteq 1 .. stamp' /\ lost' \subseteq 1 .. stamp'
    BY <1>1, <1>9 DEF Typed, TypeOK
  <2>9. task'.slot \in Slots /\ task'.snd \in Sounds /\ chan'[task'.chan].voice # 0
    BY <1>1, <1>5, <2>3 DEF Typed
  <2> QED BY <1>1, <2>1, <2>2, <2>3, <2>4, <2>5, <2>6, <2>7, <2>8, <2>9
          DEF Typed, TypeOK, SlotUpTo
<1>12. Holding'
  <2>1. task'.back = task.back
    BY <1>2 DEF Typed, Task
  <2>2. \A i \in DOMAIN pend : pend[i].chan \in RetireChans => chan'[pend[i].chan] = chan[pend[i].chan]
    BY <1>3, <1>7 DEF Holding
  <2> QED BY <1>1, <2>1, <2>2 DEF Holding, Within, Heard
<1>13. VoicesApart'
  BY <1>4, <1>5, <1>6, <1>7, <1>3, <1>10 DEF VoicesApart
<1>14. LiveChans'
  <2>1. over' \subseteq 1 .. stamp
    BY <1>1 DEF Typed, TypeOK
  <2>2. task'.chan = c
    BY <1>2 DEF Typed, Task
  <2>3. \A r \in R : chan'[r].voice # 0
    BY <1>3, <1>4, <1>6 DEF Owes
  <2> QED BY <1>1, <1>5, <1>6, <1>7, <2>1, <2>2, <2>3 DEF LiveChans, Live
<1>15. SlotsKnow'
  BY <1>1, <1>3, <1>5, <1>7 DEF SlotsKnow, Slots
<1>16. SnapsKnow'
  BY <1>1, <1>3, <1>5, <1>7 DEF SnapsKnow, Typed, Mixed
<1>17. Heard' \subseteq over' /\ Heard' = Heard /\ Queued' = Queued
  BY <1>1 DEF Heard, Queued
<1>18. Owed'
  <2>1. Flagged' = (Flagged \ {c}) \cup R
    BY <1>3, <1>4, <1>5, <1>6, <1>7 DEF Flagged, Live
  <2>2. \A d \in Flagged \ {c} : chan'[d] = chan[d]
    BY <1>3, <1>7 DEF Flagged, Live
  <2>3. R # {} => c \in Flagged
    BY <1>3, <1>4 DEF Flagged, Owes
  <2>4. \A v \in over' \ (Heard' \cup ended' \cup lost') : v \in {chan'[d].voice : d \in Flagged'} \cup Queued'
    <3> SUFFICES ASSUME NEW v \in over \ (Heard \cup ended \cup lost'), v \notin Queued
                 PROVE  \E d \in Flagged' : v = chan'[d].voice
      BY <1>1, <1>17
    <3>1. PICK d \in Flagged : v = chan[d].voice
      BY <1>9 DEF Owed
    <3>2. CASE d = c
      <4>1. Owes(chan[c]) /\ R # {}
        BY <1>2, <1>3, <1>4, <3>1, <3>2 DEF Flagged
      <4> QED BY <1>6, <2>1, <3>1, <3>2, <4>1
    <3>3. CASE d # c
      BY <2>1, <2>2, <3>1, <3>3
    <3> QED BY <3>2, <3>3
  <2>5. \A d \in Flagged' : chan'[d].voice \in over' /\ chan'[d].voice \notin Heard' \cup Queued'
    BY <1>1, <1>6, <1>17, <2>1, <2>2, <2>3 DEF Owed
  <2>6. \A d, e \in Flagged' : chan'[d].voice = chan'[e].voice => d = e
    <3>1. \A d \in Flagged' : d \in Chans /\ chan'[d].voice # 0
      BY <1>14 DEF LiveChans, Live, Flagged
    <3> QED BY <1>13, <3>1 DEF VoicesApart
  <2>7. \A i \in DOMAIN pend' : /\ pend'[i].voice \in over'
                                /\ pend'[i].voice \in Heard' => i = 1 /\ gpc' # "deliver"
    BY <1>1, <1>17 DEF Owed
  <2> QED BY <2>4, <2>5, <2>6, <2>7 DEF Owed
<1>19. NoVoiceVanishes'
  <2> SUFFICES ASSUME NEW v \in 1 .. stamp', v \notin over \cup ended \cup lost'
               PROVE  \E d \in PlayChans : chan'[d].voice = v /\ chan'[d].playing
    BY <1>1 DEF NoVoiceVanishes
  <2>1. CASE v = stamp + 1
    BY <1>5, <2>1
  <2>2. CASE v # stamp + 1
    <3>1. PICK d \in PlayChans : chan[d].voice = v /\ chan[d].playing
      BY <1>1, <1>9, <2>2 DEF NoVoiceVanishes
    <3>2. d # c
      BY <1>2, <1>4, <3>1 DEF Live
    <3> QED BY <1>3, <1>7, <3>1, <3>2
  <2> QED BY <2>1, <2>2
<1> QED BY <1>11, <1>12, <1>13, <1>14, <1>15, <1>16, <1>17, <1>18, <1>19

-----------------------------------------------------------------------------
(* System::update: completions are collected, then called back.            *)

LEMMA InOrderIs ==
  ASSUME NEW S \in SUBSET Chans, NEW q \in InOrder(S)
  PROVE  /\ Cardinality(S) \in Nat /\ q \in [1 .. Cardinality(S) -> S]
         /\ \A i, j \in 1 .. Cardinality(S) : q[i] = q[j] => i = j
         /\ \A c \in S : \E i \in 1 .. Cardinality(S) : q[i] = c
<1> DEFINE n == Cardinality(S)
<1>1. IsFiniteSet(S) /\ n \in Nat
  BY Sets, FS_Subset, FS_CardinalityType
<1>2. q \in [1 .. n -> S] /\ \A i, j \in 1 .. n : i < j => q[i] < q[j]
  BY DEF InOrder
<1>3. \A i, j \in 1 .. n : q[i] = q[j] => i = j
  <2> SUFFICES ASSUME NEW i \in 1 .. n, NEW j \in 1 .. n, q[i] = q[j], i < j PROVE FALSE
    BY <1>1
  <2>1. q[i] \in Nat /\ q[i] < q[j]
    BY <1>2, Sets
  <2> QED BY <2>1
<1>4. q \in Injection(1 .. n, S)
  BY <1>2, <1>3 DEF Injection, IsInjective
<1>5. Cardinality(1 .. n) = Cardinality(S)
  BY <1>1, FS_Interval
<1>6. q \in Surjection(1 .. n, S)
  BY <1>1, <1>4, <1>5, FS_Injection
<1> QED BY <1>1, <1>2, <1>3, <1>6 DEF Surjection

LEMMA UpdateStep ==
  ASSUME VoiceIInv, Sys_update
  PROVE  VoiceIInv'
<1> USE Facts, Sets DEF VoiceIInv
<1>1. /\ gpc = "idle" /\ pend = <<>>
      /\ UNCHANGED <<running, stamp, gen, snd, reader, handed, slot, task, apc, snaps, doomed,
                     feeds, closed, owns, over, told, ended, lost>>
      /\ chan' = [c \in Chans |-> IF c \in Collected THEN [chan[c] EXCEPT !.endPending = FALSE]
                                  ELSE chan[c]]
      /\ gpc' = (IF Collected = {} THEN "idle" ELSE "deliver")
  BY DEF Sys_update, audio, history, Holding
<1> DEFINE S == Collected
           n == Cardinality(S)
<1>2. PICK q \in InOrder(S) : pend' = [i \in 1 .. n |-> [chan |-> q[i], voice |-> chan[q[i]].voice]]
  BY DEF Sys_update
<1>3. S \in SUBSET Chans /\ \A c \in S : c \in Flagged /\ chan[c].cb
  BY DEF Collected, Flagged
<1> HIDE DEF S
<1>4. /\ n \in Nat /\ q \in [1 .. n -> S]
      /\ \A i, j \in 1 .. n : q[i] = q[j] => i = j
      /\ \A c \in S : \E i \in 1 .. n : q[i] = c
  BY <1>3, InOrderIs
<1>5. \A c \in S : chan[c].used /\ chan[c].voice \in 1 .. stamp
  BY <1>3 DEF LiveChans, Live, Flagged, ChannelUpTo
<1>6. /\ chan' \in [Chans -> ChannelUpTo(stamp, gen)]
      /\ \A c \in Chans :
           /\ chan'[c].used = chan[c].used /\ chan'[c].playing = chan[c].playing
           /\ chan'[c].voice = chan[c].voice /\ chan'[c].cb = chan[c].cb
           /\ chan'[c].gen = chan[c].gen /\ chan'[c].owner = chan[c].owner
           /\ chan'[c].endPending <=> chan[c].endPending /\ c \notin S
  <2> DEFINE Y(c) == [chan[c] EXCEPT !.endPending = FALSE]
  <2>1. chan' = [c \in Chans |-> IF c \in S THEN Y(c) ELSE chan[c]]
    BY <1>1 DEF S
  <2>2. \A c \in Chans :
          /\ Y(c) \in ChannelUpTo(stamp, gen) /\ Y(c).used = chan[c].used
          /\ Y(c).playing = chan[c].playing /\ Y(c).voice = chan[c].voice
          /\ Y(c).cb = chan[c].cb /\ Y(c).gen = chan[c].gen
          /\ Y(c).owner = chan[c].owner /\ Y(c).endPending = FALSE
    BY CollectedIs
  <2> HIDE DEF Y
  <2>3. chan' \in [Chans -> ChannelUpTo(stamp, gen)]
    BY <2>1, <2>2
  <2>4. \A c \in Chans : c \in S => chan'[c] = Y(c)
    BY <2>1
  <2>5. \A c \in Chans : c \notin S => chan'[c] = chan[c]
    BY <2>1
  <2>6. ASSUME NEW c \in Chans PROVE <1>6!2!(c)
    <3>1. CASE c \in S
      BY <2>2, <2>4, <3>1
    <3>2. CASE c \notin S
      BY <2>5, <3>2
    <3> QED BY <3>1, <3>2
  <2> QED BY <2>3, <2>6
<1>7. /\ DOMAIN pend' = 1 .. n
      /\ \A i \in 1 .. n : pend'[i] = [chan |-> q[i], voice |-> chan[q[i]].voice]
  BY <1>2
<1>8. Typed'
  <2>1. snaps' \subseteq Mixed' /\ \A r \in RetireChans : ~chan'[r].playing
    BY <1>1, <1>6 DEF Typed, Mixed
  <2>2. chan' \in [Chans -> Channel']
    BY <1>1, <1>6 DEF Channel, ChannelUpTo
  <2>3. pend' \in Seq([chan : Chans, voice : 1 .. stamp'])
    <3>1. \A i \in 1 .. n : q[i] \in Chans /\ chan[q[i]].voice \in 1 .. stamp'
      BY <1>1, <1>3, <1>4, <1>5
    <3>2. \A i \in 1 .. n : [chan |-> q[i], voice |-> chan[q[i]].voice] \in [chan : Chans, voice : 1 .. stamp']
      BY <3>1
    <3> DEFINE P == [chan : Chans, voice : 1 .. stamp']
               E(i) == [chan |-> q[i], voice |-> chan[q[i]].voice]
    <3>3. pend' = [i \in 1 .. n |-> E(i)] /\ \A i \in 1 .. n : E(i) \in P
      BY <1>2, <3>2
    <3> HIDE DEF P, E
    <3>4. pend' \in Seq(P)
      BY <1>4, <3>3, IsASeq
    <3> QED BY <3>4 DEF P
  <2> QED BY <1>1, <2>1, <2>2, <2>3 DEF Typed, TypeOK
<1>9. Queued' = {chan[c].voice : c \in S}
  <2>1. ASSUME NEW v \in Queued' PROVE \E c \in S : v = chan[c].voice
    <3>1. PICK i \in 1 .. n : v = pend'[i].voice
      BY <1>7 DEF Queued
    <3> QED BY <1>4, <1>7, <3>1
  <2>2. ASSUME NEW c \in S PROVE chan[c].voice \in Queued'
    <3>1. PICK i \in 1 .. n : q[i] = c
      BY <1>4
    <3>2. pend'[i].voice = chan[c].voice /\ i \in DOMAIN pend'
      BY <1>7, <3>1
    <3> QED BY <3>2 DEF Queued
  <2> QED BY <2>1, <2>2
<1>10. Flagged' = Flagged \ S
  BY <1>6 DEF Flagged
<1>11. Heard' = Heard /\ Queued = {}
  BY <1>1 DEF Heard, Queued
<1>12. \A c, d \in S : chan[c].voice = chan[d].voice => c = d
  BY <1>3 DEF Owed
<1>13. Holding'
  <2>1. \A i, j \in 1 .. n : i # j => /\ pend'[i].chan # pend'[j].chan
                                      /\ pend'[i].voice # pend'[j].voice
    BY <1>4, <1>7, <1>12
  <2>2. ASSUME NEW i \in 1 .. n
        PROVE  chan'[pend'[i].chan].used /\ ~chan'[pend'[i].chan].endPending
    <3>1. q[i] \in S /\ q[i] \in Chans
      BY <1>3, <1>4
    <3>2. pend'[i].chan = q[i]
      BY <1>7
    <3> QED BY <1>5, <1>6, <3>1, <3>2
  <2>3. S = {} <=> pend' = <<>>
    <3>1. Len(pend') = n /\ (pend' = <<>> <=> n = 0)
      <4>1. pend' \in Seq([chan : Chans, voice : 1 .. stamp'])
        BY <1>8 DEF Typed, TypeOK
      <4>2. Len(pend') = n
        BY <1>4, <1>7, <4>1, LenProperties
      <4> QED BY <4>1, <4>2, EmptySeq
    <3>2. S = {} <=> n = 0
      BY <1>3, Sets, FS_Subset, FS_EmptySet
    <3> QED BY <3>1, <3>2
  <2> QED BY <1>1, <1>7, <2>1, <2>2, <2>3 DEF Holding, Within, S
<1>14. VoicesApart' /\ LiveChans'
  BY <1>1, <1>6 DEF VoicesApart, LiveChans, Live
<1>15. SlotsKnow' /\ SnapsKnow'
  BY <1>1, <1>6 DEF SlotsKnow, SnapsKnow, Typed, Mixed
<1>16. Owed'
  <2>1. \A v \in over' \ (Heard' \cup ended' \cup lost') : v \in {chan'[d].voice : d \in Flagged'} \cup Queued'
    <3> SUFFICES ASSUME NEW v \in over \ (Heard \cup ended \cup lost), v \notin Queued'
                 PROVE  \E d \in Flagged' : v = chan'[d].voice
      BY <1>1, <1>11
    <3>1. PICK d \in Flagged : v = chan[d].voice
      BY <1>11 DEF Owed
    <3>2. d \notin S
      BY <1>9, <3>1
    <3>3. d \in Flagged' /\ chan'[d].voice = v
      BY <1>6, <1>10, <3>1, <3>2 DEF Flagged
    <3> QED BY <3>3
  <2>2. \A d, e \in Flagged' : chan'[d].voice = chan'[e].voice => d = e
    BY <1>6, <1>10 DEF Owed, Flagged
  <2>3. \A d \in Flagged' : chan'[d].voice \in over' /\ chan'[d].voice \notin Heard' \cup Queued'
    <3> TAKE d \in Flagged'
    <3>1. d \in Flagged /\ d \notin S /\ chan'[d].voice = chan[d].voice
      BY <1>6, <1>10 DEF Flagged
    <3>2. \A c \in S : chan[c].voice # chan[d].voice
      BY <1>3, <3>1 DEF Owed
    <3>3. chan[d].voice \in over /\ chan[d].voice \notin Heard
      BY <3>1 DEF Owed
    <3>4. chan[d].voice \notin Queued'
      BY <1>9, <3>2
    <3> QED BY <1>1, <1>11, <3>1, <3>3, <3>4
  <2>4. \A i \in DOMAIN pend' : /\ pend'[i].voice \in over'
                                /\ pend'[i].voice \in Heard' => i = 1 /\ gpc' # "deliver"
    BY <1>1, <1>3, <1>4, <1>7, <1>11 DEF Owed
  <2> QED BY <2>1, <2>2, <2>3, <2>4 DEF Owed
<1>17. NoVoiceVanishes' /\ Heard' \subseteq over'
  BY <1>1, <1>6, <1>11 DEF NoVoiceVanishes
<1> QED BY <1>8, <1>13, <1>14, <1>15, <1>16, <1>17

\* An END is told to the owner of its channel while it is still the first of `pend'.
LEMMA CallbackStep ==
  ASSUME VoiceIInv, Callback
  PROVE  VoiceIInv'
<1>1. /\ gpc = "deliver" /\ pend # <<>>
      /\ UNCHANGED <<running, chan, stamp, gen, snd, reader, handed, pend, apc, snaps, doomed,
                     feeds, closed, owns, over, ended, lost>>
  <2>1. /\ gpc = "deliver" /\ pend # <<>>
        /\ UNCHANGED <<running, voices, snd, reader, handed, pend, audio, owns, over, ended, lost>>
    BY DEF Callback
  <2> QED BY <2>1 DEF voices, audio
<1> USE Facts, Sets DEF VoiceIInv
<1>2. 1 \in DOMAIN pend /\ Head(pend) = pend[1] /\ pend[1].chan \in Chans
  <2>1. pend \in Seq([chan : Chans, voice : 1 .. stamp])
    BY DEF Typed, TypeOK
  <2>2. Len(pend) \in Nat \ {0}
    BY <1>1, <2>1, EmptySeq
  <2> QED BY <2>1, <2>2, PendTyped
<1>3. PICK o \in Slots \cup {0} :
        /\ told' = told \cup {[voice |-> pend[1].voice, owner |-> o, chan |-> pend[1].chan]}
        /\ \/ /\ gpc' = "play" /\ slot' = slot /\ o # 0 /\ slot[o].inUse /\ stamp < MaxPlays
              /\ task' = [slot |-> o, snd |-> slot[o].snd, paused |-> FALSE,
                          looping |-> TRUE, chan |-> 0, back |-> "called"]
           \/ /\ gpc' = "called" /\ task' = task
              /\ slot' = (IF o = 0 THEN slot ELSE [slot EXCEPT ![o].ended = TRUE])
  <2>1. chan[pend[1].chan].owner \in Slots \cup {0}
    BY <1>2 DEF ChannelUpTo
  <2> QED BY <1>2, <2>1 DEF Callback
<1>4. /\ slot' \in [Slots -> SlotUpTo(stamp)]
      /\ \A p \in Slots : /\ slot'[p].inUse = slot[p].inUse /\ slot'[p].chan = slot[p].chan
                          /\ slot'[p].snd = slot[p].snd /\ slot'[p].voice = slot[p].voice
  <2> DEFINE Y(p) == [slot[p] EXCEPT !.ended = TRUE]
  <2>1. slot \in [Slots -> SlotUpTo(stamp)]
    BY FreedIs
  <2>2. \A p \in Slots : /\ Y(p) \in SlotUpTo(stamp) /\ Y(p).inUse = slot[p].inUse
                         /\ Y(p).chan = slot[p].chan /\ Y(p).snd = slot[p].snd
                         /\ Y(p).voice = slot[p].voice
    BY <2>1, MarkedIs
  <2>3. slot' = slot \/ (o \in Slots /\ slot' = [slot EXCEPT ![o] = Y(o)])
    BY <1>3
  <2> HIDE DEF Y
  <2> QED BY <2>1, <2>2, <2>3
<1>5. task' \in Task /\ gpc' \in {"play", "called"}
      /\ (gpc' = "play" => /\ task'.slot \in Slots /\ task'.snd \in Sounds
                           /\ task'.back = "called" /\ stamp < MaxPlays)
  <2>1. CASE gpc' = "play"
    <3>1. o \in Slots /\ slot[o].snd \in Sounds
      BY <1>3, <2>1 DEF SlotsKnow
    <3> DEFINE t == [slot |-> o, snd |-> slot[o].snd, paused |-> FALSE, looping |-> TRUE,
                     chan |-> 0, back |-> "called"]
    <3>2. t \in Task /\ t.slot = o /\ t.snd = slot[o].snd /\ t.back = "called"
      BY <3>1 DEF Task
    <3>3. task' = t /\ stamp < MaxPlays
      BY <1>3, <2>1
    <3> HIDE DEF t
    <3> QED BY <2>1, <3>1, <3>2, <3>3
  <2>2. CASE gpc' = "called"
    BY <1>3, <2>2 DEF Typed
  <2> QED BY <1>3, <2>1, <2>2
<1>6. Typed'
  <2>1. snaps' \subseteq Mixed' /\ chan' \in [Chans -> Channel']
    BY <1>1 DEF Typed, TypeOK, Mixed, Channel
  <2> QED BY <1>1, <1>4, <1>5, <2>1 DEF Typed, TypeOK, SlotUpTo
<1>7. Heard' = Heard \cup {pend[1].voice} /\ Queued' = Queued /\ pend[1].voice \in Queued
  <2> DEFINE r == [voice |-> pend[1].voice, owner |-> o, chan |-> pend[1].chan]
  <2>1. told' = told \cup {r} /\ r.voice = pend[1].voice
    BY <1>3
  <2> HIDE DEF r
  <2>2. Heard' = Heard \cup {pend[1].voice}
    BY <2>1 DEF Heard
  <2> QED BY <1>1, <1>2, <2>2 DEF Queued
<1>8. Holding'
  <2>1. \A i \in DOMAIN pend : pend[i].chan \in Chans
    BY PendTyped
  <2> QED BY <1>1, <1>5, <1>7, <2>1 DEF Holding, Within
<1>9. VoicesApart' /\ SnapsKnow'
  BY <1>1 DEF VoicesApart, SnapsKnow
<1>10. LiveChans'
  BY <1>1, <1>5 DEF LiveChans, Live
<1>11. SlotsKnow'
  BY <1>1, <1>4 DEF SlotsKnow
<1>12. Heard' \subseteq over'
  BY <1>1, <1>2, <1>7 DEF Owed
<1>13. Owed'
  <2>1. \A i \in DOMAIN pend : pend[i].voice \in Heard' => i = 1
    BY <1>1, <1>2, <1>7 DEF Owed, Holding
  <2> QED BY <1>1, <1>5, <1>7, <2>1 DEF Owed, Flagged
<1>14. NoVoiceVanishes'
  BY <1>1 DEF NoVoiceVanishes
<1> QED BY <1>6, <1>8, <1>9, <1>10, <1>11, <1>12, <1>13, <1>14

\* A retire slot is free once its END was told.
LEMMA DeliveredStep ==
  ASSUME VoiceIInv, Delivered
  PROVE  VoiceIInv'
<1> USE Facts, Sets DEF VoiceIInv
<1>1. /\ gpc = "called"
      /\ UNCHANGED <<running, stamp, gen, snd, reader, handed, slot, task, apc, snaps, doomed,
                     feeds, closed, owns, over, told, ended, lost>>
      /\ pend' = Tail(pend) /\ gpc' = (IF pend' = <<>> THEN "idle" ELSE "deliver")
  BY DEF Delivered, audio, history
<1>2. /\ pend # <<>> /\ pend[1].voice \in Heard
      /\ pend \in Seq([chan : Chans, voice : 1 .. stamp])
  BY <1>1 DEF Holding, Typed, TypeOK
<1>3. /\ Head(pend) = pend[1] /\ 1 \in DOMAIN pend /\ DOMAIN pend = 1 .. Len(pend)
      /\ pend' \in Seq([chan : Chans, voice : 1 .. stamp])
      /\ DOMAIN pend' = 1 .. Len(pend) - 1
      /\ \A i \in DOMAIN pend' : i + 1 \in DOMAIN pend /\ pend'[i] = pend[i + 1] /\ i + 1 # 1
      /\ \A i \in DOMAIN pend : i # 1 => i - 1 \in DOMAIN pend' /\ pend'[i - 1] = pend[i]
  <2>1. Len(pend) \in Nat \ {0}
    BY <1>2, EmptySeq
  <2>2. /\ Tail(pend) \in Seq([chan : Chans, voice : 1 .. stamp])
        /\ Len(Tail(pend)) = Len(pend) - 1
        /\ \A i \in 1 .. Len(Tail(pend)) : Tail(pend)[i] = pend[i + 1]
    BY <1>2, HeadTailProperties
  <2>3. Head(pend) = pend[1] /\ DOMAIN pend = 1 .. Len(pend) /\ DOMAIN Tail(pend) = 1 .. Len(Tail(pend))
    BY <1>2, <2>2, LenProperties
  <2>4. \A i \in DOMAIN pend' : i + 1 \in DOMAIN pend /\ pend'[i] = pend[i + 1] /\ i + 1 # 1
    BY ONLY <1>1, <2>1, <2>2, <2>3
  <2>5. \A i \in DOMAIN pend : i # 1 => i - 1 \in DOMAIN pend' /\ pend'[i - 1] = pend[i]
    BY ONLY <1>1, <2>1, <2>2, <2>3
  <2> QED BY ONLY <1>1, <2>1, <2>2, <2>3, <2>4, <2>5
<1> DEFINE c == pend[1].chan
<1>4. c \in Chans
  BY <1>3, PendTyped
<1> DEFINE F == {c} \cap RetireChans
<1>5. chan' = [d \in Chans |-> IF d \in F THEN Emptied(chan[d]) ELSE chan[d]]
  <2>1. CASE c \in RetireChans
    <3>1. chan' = [chan EXCEPT ![c].used = FALSE, ![c].cb = FALSE]
      BY <1>3, <2>1 DEF Delivered
    <3>2. chan' = [chan EXCEPT ![c] = Emptied(chan[c])]
      BY <1>4, <3>1 DEF Emptied
    <3>3. \A d \in Chans : d \in F <=> d = c
      BY <2>1
    <3> HIDE DEF F
    <3> QED BY <1>4, <3>2, <3>3
  <2>2. CASE c \notin RetireChans
    <3>1. chan' = chan /\ F = {}
      BY <1>3, <2>2 DEF Delivered
    <3> HIDE DEF F
    <3> QED BY <3>1
  <2> HIDE DEF F
  <2> QED BY <2>1, <2>2
<1>6. \A d \in F : d \in RetireChans /\ ~Live(d) /\ d = c
  <2>1. ASSUME c \in RetireChans PROVE ~Live(c)
    BY <1>3, <2>1 DEF Holding, Live
  <2> QED BY <2>1
<1> HIDE DEF F
<1>7. /\ chan' \in [Chans -> ChannelUpTo(stamp, gen)]
      /\ \A d \in Chans :
           /\ chan'[d].playing = chan[d].playing /\ chan'[d].endPending = chan[d].endPending
           /\ chan'[d].voice = chan[d].voice /\ chan'[d].gen = chan[d].gen
           /\ d \notin F => chan'[d] = chan[d]
           /\ d \in F => ~chan'[d].used
  BY <1>5, EmptiedIs
<1> HIDE DEF c
<1>8. Typed'
  <2>1. snaps' \subseteq Mixed' /\ \A r \in RetireChans : ~chan'[r].playing
    BY <1>1, <1>7 DEF Typed, Mixed
  <2>2. chan' \in [Chans -> Channel']
    BY <1>1, <1>7 DEF Channel, ChannelUpTo
  <2> QED BY <1>1, <1>3, <2>1, <2>2 DEF Typed, TypeOK
<1>9. Heard' = Heard /\ Queued' \subseteq Queued /\ Queued \subseteq Queued' \cup Heard
  <2>1. Queued' \subseteq Queued
    BY <1>3 DEF Queued
  <2>2. ASSUME NEW v \in Queued, v \notin Queued' PROVE v \in Heard
    <3>1. PICK i \in DOMAIN pend : v = pend[i].voice
      BY DEF Queued
    <3>2. i = 1
      BY <1>3, <2>2, <3>1 DEF Queued
    <3> QED BY <1>2, <3>1, <3>2
  <2> QED BY <1>1, <2>1, <2>2 DEF Heard
<1>10. Holding'
  <2>1. gpc' \in {"idle", "deliver"} /\ (gpc' = "idle" <=> pend' = <<>>)
    BY <1>1
  <2>2. \A i, j \in DOMAIN pend' : i # j => /\ pend'[i].chan # pend'[j].chan
                                            /\ pend'[i].voice # pend'[j].voice
    <3> TAKE i, j \in DOMAIN pend'
    <3> HAVE i # j
    <3>1. i + 1 # j + 1 /\ i + 1 \in DOMAIN pend /\ j + 1 \in DOMAIN pend
      BY <1>3
    <3> QED BY <1>3, <3>1 DEF Holding
  <2>3. ASSUME NEW i \in DOMAIN pend', pend'[i].chan \in RetireChans
        PROVE  chan'[pend'[i].chan].used /\ ~chan'[pend'[i].chan].endPending
    <3> DEFINE d == pend[i + 1].chan
    <3>1. i + 1 \in DOMAIN pend /\ pend'[i].chan = d /\ d # pend[1].chan
      BY <1>3 DEF Holding
    <3>2. d \in Chans /\ d \notin F /\ chan[d].used /\ ~chan[d].endPending
      BY <1>6, <2>3, <3>1 DEF Holding, c
    <3> QED BY <1>7, <3>1, <3>2
  <2> QED BY <2>1, <2>2, <2>3 DEF Holding, Within
<1>11. VoicesApart' /\ SnapsKnow'
  BY <1>1, <1>7 DEF VoicesApart, SnapsKnow, Typed, Mixed
<1>12. LiveChans'
  <2>1. ASSUME NEW d \in Chans, d \in F PROVE ~chan'[d].used /\ ~Live(d)'
    BY <1>6, <1>7, <2>1 DEF Live
  <2>2. ASSUME NEW d \in Chans, d \notin F PROVE chan'[d] = chan[d]
    BY <1>7, <2>2
  <2> QED BY <1>1, <2>1, <2>2 DEF LiveChans, Live
<1>13. SlotsKnow'
  <2>1. \A d \in PlayChans : chan'[d] = chan[d]
    BY <1>6, <1>7
  <2> QED BY <1>1, <2>1 DEF SlotsKnow
<1>14. Owed'
  <2>1. Flagged' = Flagged /\ \A d \in Chans : chan'[d].voice = chan[d].voice
    BY <1>7 DEF Flagged
  <2>2. \A i \in DOMAIN pend' : pend'[i].voice \in over' /\ pend'[i].voice \notin Heard'
    BY <1>1, <1>3, <1>9 DEF Owed
  <2> QED BY <1>1, <1>9, <2>1, <2>2 DEF Owed, Flagged
<1>15. NoVoiceVanishes' /\ Heard' \subseteq over'
  BY <1>1, <1>7, <1>9 DEF NoVoiceVanishes
<1> QED BY <1>8, <1>10, <1>11, <1>12, <1>13, <1>14, <1>15

-----------------------------------------------------------------------------
(* The audio thread: voices that finish.                                   *)

FinishedOnly(F) ==
  /\ chan' = [c \in Chans |-> IF c \in F THEN Finished(chan[c]) ELSE chan[c]]
  /\ over' = over \cup {chan[c].voice : c \in F}
  /\ UNCHANGED <<running, stamp, gen, snd, reader, slot, gpc, task, pend, owns, told, ended, lost>>
StreamsTyped ==
  /\ handed \in Seq(Streams) /\ apc \in {"idle", "close", "mix"}
  /\ doomed \subseteq Streams /\ feeds \subseteq Streams /\ closed \subseteq Streams
SnapsOf(S) ==
  \A m \in S : m \in Mixed /\ (chan[m.chan].gen = m.gen => chan[m.chan].voice = m.voice)

LEMMA FinishStep ==
  ASSUME VoiceIInv, NEW F \in SUBSET PlayChans, \A c \in F : chan[c].playing,
         FinishedOnly(F), StreamsTyped', SnapsOf(snaps')
  PROVE  VoiceIInv'
<1> USE Facts, Sets DEF VoiceIInv
<1>0. UNCHANGED <<running, stamp, gen, snd, reader, slot, gpc, task, pend, owns, told, ended, lost>>
  BY DEF FinishedOnly
<1>1. /\ chan' \in [Chans -> ChannelUpTo(stamp, gen)]
      /\ \A c \in Chans :
           /\ chan'[c].voice = chan[c].voice /\ chan'[c].gen = chan[c].gen
           /\ chan'[c].used = chan[c].used /\ chan'[c].cb = chan[c].cb
           /\ chan'[c].owner = chan[c].owner
           /\ c \in F => ~chan'[c].playing /\ chan'[c].endPending
           /\ c \notin F => chan'[c] = chan[c]
  BY FinishedIs DEF FinishedOnly
<1>2. \A c \in F : /\ c \in Chans /\ chan[c].used /\ chan[c].voice \in 1 .. stamp
                   /\ chan[c].voice \notin over
                   /\ chan[c].cb \/ (gpc = "register" /\ c = task.chan)
  BY DEF LiveChans, Live, ChannelUpTo
<1>3. /\ over \subseteq over' /\ over \subseteq 1 .. stamp
      /\ over' \subseteq 1 .. stamp /\ \A c \in F : chan[c].voice \in over'
  <2>1. over \subseteq 1 .. stamp
    BY DEF Typed, TypeOK
  <2>2. over' = over \cup {chan[c].voice : c \in F}
    BY DEF FinishedOnly
  <2> QED BY <1>2, <2>1, <2>2
<1>4. Typed'
  <2>1. snaps' \subseteq Mixed' /\ \A r \in RetireChans : ~chan'[r].playing
    BY <1>0, <1>1 DEF Typed, Mixed, SnapsOf
  <2>2. chan' \in [Chans -> Channel']
    BY <1>0, <1>1 DEF Channel, ChannelUpTo
  <2> QED BY <1>0, <1>1, <1>3, <2>1, <2>2 DEF Typed, TypeOK, StreamsTyped
<1>5. Heard' = Heard /\ Queued' = Queued /\ Queued \subseteq over
  BY <1>0 DEF Heard, Queued, Owed
<1>6. Holding'
  <2>1. ASSUME NEW i \in DOMAIN pend, pend[i].chan \in RetireChans
        PROVE  chan'[pend[i].chan].used /\ ~chan'[pend[i].chan].endPending
    <3>1. chan[pend[i].chan].used /\ ~chan[pend[i].chan].endPending /\ pend[i].chan \notin F
      BY <2>1 DEF Holding
    <3> QED BY <1>1, <2>1, <3>1
  <2> QED BY <1>0, <1>5, <2>1 DEF Holding, Within
<1>7. VoicesApart' /\ SlotsKnow'
  <2>1. VoicesApart'
    BY <1>1 DEF VoicesApart
  <2>2. SlotsKnow'
    BY <1>0, <1>1 DEF SlotsKnow
  <2> QED BY <2>1, <2>2
<1>8. SnapsKnow'
  <2>1. \A m \in snaps' : m.chan \in Chans
    BY DEF SnapsOf, Mixed
  <2> QED BY <1>1, <2>1 DEF SnapsKnow, SnapsOf
<1>9. LiveChans'
  <2>1. ASSUME NEW c \in Chans PROVE chan'[c].used => chan'[c].voice # 0
    BY <1>1 DEF LiveChans
  <2>2. ASSUME NEW c \in Chans, Live(c)'
        PROVE  chan'[c].used /\ (chan'[c].cb \/ (gpc' = "register" /\ c = task'.chan))
    BY <1>0, <1>1, <1>2, <2>2 DEF LiveChans, Live
  <2>3. ASSUME NEW c \in Chans, chan'[c].playing PROVE chan'[c].voice \notin over'
    <3>1. c \notin F /\ chan[c].playing /\ chan[c].voice # 0 /\ chan[c].voice \notin over
      BY <1>1, <2>3 DEF LiveChans, Live
    <3>2. \A d \in F : chan[d].voice # chan[c].voice
      BY <1>2, <3>1 DEF VoicesApart
    <3> QED BY <1>1, <3>1, <3>2 DEF FinishedOnly
  <2> QED BY <2>1, <2>2, <2>3 DEF LiveChans
<1>10. Owed'
  <2>1. Flagged' = Flagged \cup F
    BY <1>1, <1>2 DEF Flagged
  <2>2. \A c \in Chans : chan'[c].voice = chan[c].voice
    BY <1>1
  <2>3. over' \ (Heard' \cup ended' \cup lost') \subseteq {chan'[c].voice : c \in Flagged'} \cup Queued'
    <3> SUFFICES ASSUME NEW v \in over', v \notin Heard \cup ended \cup lost \cup Queued
                 PROVE  \E c \in Flagged' : v = chan'[c].voice
      BY <1>0, <1>5
    <3>1. CASE v \in over
      <4>1. PICK c \in Flagged : v = chan[c].voice
        BY <3>1 DEF Owed
      <4> QED BY <2>1, <2>2, <4>1 DEF Flagged
    <3>2. CASE v \notin over
      <4>1. PICK c \in F : v = chan[c].voice
        BY <3>2 DEF FinishedOnly
      <4> QED BY <1>2, <2>1, <2>2, <4>1
    <3> QED BY <3>1, <3>2
  <2>4. \A c \in Flagged' : chan'[c].voice \in over' /\ chan'[c].voice \notin Heard' \cup Queued'
    <3> TAKE c \in Flagged'
    <3>1. CASE c \in Flagged
      BY <1>3, <1>5, <2>2, <3>1 DEF Owed, Flagged
    <3>2. CASE c \in F
      BY <1>2, <1>3, <1>5, <2>2, <3>2
    <3> QED BY <2>1, <3>1, <3>2
  <2>5. \A c, d \in Flagged' : chan'[c].voice = chan'[d].voice => c = d
    <3>1. \A c \in Flagged' : c \in Chans /\ chan'[c].voice # 0
      BY <1>9 DEF LiveChans, Live, Flagged
    <3> QED BY <1>7, <3>1 DEF VoicesApart
  <2>6. \A i \in DOMAIN pend' : /\ pend'[i].voice \in over'
                                /\ pend'[i].voice \in Heard' => i = 1 /\ gpc' # "deliver"
    BY <1>0, <1>3, <1>5 DEF Owed
  <2> QED BY <2>3, <2>4, <2>5, <2>6 DEF Owed
<1>11. NoVoiceVanishes'
  <2> SUFFICES ASSUME NEW v \in 1 .. stamp, v \notin over' \cup ended \cup lost
               PROVE  \E c \in PlayChans : chan'[c].voice = v /\ chan'[c].playing
    BY <1>0 DEF NoVoiceVanishes
  <2>1. PICK c \in PlayChans : chan[c].voice = v /\ chan[c].playing
    BY <1>3 DEF NoVoiceVanishes
  <2>2. c \notin F
    BY <1>3, <2>1
  <2> QED BY <1>1, <2>1, <2>2
<1>12. Heard' \subseteq over'
  BY <1>3, <1>5
<1> QED BY <1>4, <1>6, <1>7, <1>8, <1>9, <1>10, <1>11, <1>12

LEMMA SnapshotStep ==
  ASSUME VoiceIInv, Snapshot
  PROVE  VoiceIInv'
<1> USE Facts, Sets DEF VoiceIInv
<1> DEFINE F == {c \in PlayChans : Deposed(c)}
<1>1. /\ doomed' = Doomed /\ handed' = <<>> /\ apc' = "close"
      /\ feeds' = {snd[s].st : s \in {s \in Sounds : snd[s].used}} \ {0}
      /\ snaps' = {[chan |-> c, gen |-> chan[c].gen, st |-> StreamOf(c), voice |-> chan[c].voice]
                     : c \in {c \in PlayChans : Mixable(c) /\ ~Deposed(c)}}
      /\ chan' = [c \in Chans |-> IF c \in F THEN Finished(chan[c]) ELSE chan[c]]
      /\ over' = over \cup {chan[c].voice : c \in F}
      /\ UNCHANGED <<running, stamp, gen, snd, reader, slot, gpc, task, pend, closed, owns,
                     told, ended, lost>>
  BY DEF Snapshot, game
<1>2. F \in SUBSET PlayChans /\ \A c \in F : chan[c].playing
  BY DEF Deposed, Mixable
<1> HIDE DEF F
<1>3. \A s \in Sounds : snd[s].st \in Streams \cup {0}
  BY DEF Typed, TypeOK
<1>4. doomed' \subseteq Streams /\ handed' \in Seq(Streams) /\ feeds' \subseteq Streams
      /\ closed' \subseteq Streams
  <2>1. \A i \in DOMAIN handed : handed[i] \in Streams
    BY ElementOfSeq, LenProperties DEF Typed, TypeOK
  <2> QED BY <1>1, <1>3, <2>1 DEF Doomed, Typed, TypeOK
<1>5. ASSUME NEW m \in snaps'
      PROVE  m \in Mixed /\ chan[m.chan].voice = m.voice
  <2>1. PICK c \in PlayChans :
          /\ Mixable(c)
          /\ m = [chan |-> c, gen |-> chan[c].gen, st |-> StreamOf(c), voice |-> chan[c].voice]
    BY <1>1
  <2>2. StreamOf(c) \in Streams \cup {0}
    BY <1>3, <2>1 DEF StreamOf, Mixable, ChannelUpTo
  <2>3. chan[c].gen \in 0 .. gen /\ chan[c].voice \in 0 .. stamp
    BY DEF ChannelUpTo
  <2> QED BY <2>1, <2>2, <2>3 DEF Mixed
<1>6. FinishedOnly(F) /\ StreamsTyped' /\ SnapsOf(snaps')
  BY <1>1, <1>4, <1>5 DEF FinishedOnly, StreamsTyped, SnapsOf
<1> QED BY <1>2, <1>6, FinishStep

\* A snapshot that is still current is of a channel that plays.
LEMMA ReconcileStep ==
  ASSUME VoiceIInv, Reconcile
  PROVE  VoiceIInv'
<1> USE Facts, Sets DEF VoiceIInv
<1>1. PICK finished \in SUBSET {m \in snaps : Current(m)} :
        /\ chan' = [c \in Chans |-> IF c \in {m.chan : m \in finished} THEN Finished(chan[c])
                                    ELSE chan[c]]
        /\ over' = over \cup {chan[m.chan].voice : m \in finished}
  BY DEF Reconcile
<1> DEFINE F == {m.chan : m \in finished}
<1>2. /\ apc' = "idle" /\ snaps' = {} /\ feeds' = {}
      /\ UNCHANGED <<running, stamp, gen, snd, reader, handed, slot, gpc, task, pend, doomed,
                     closed, owns, told, ended, lost>>
  BY DEF Reconcile, game
<1>3. F \in SUBSET PlayChans /\ \A c \in F : chan[c].playing
  BY DEF Current, Typed, Mixed
<1>4. over' = over \cup {chan[c].voice : c \in F}
  BY <1>1
<1>5. chan' = [c \in Chans |-> IF c \in F THEN Finished(chan[c]) ELSE chan[c]]
  BY <1>1
<1> HIDE DEF F
<1>6. /\ handed' \in Seq(Streams) /\ doomed' \subseteq Streams /\ feeds' \subseteq Streams
      /\ closed' \subseteq Streams
  BY <1>2 DEF Typed, TypeOK
<1>7. FinishedOnly(F) /\ StreamsTyped' /\ SnapsOf(snaps')
  BY <1>2, <1>4, <1>5, <1>6 DEF FinishedOnly, StreamsTyped, SnapsOf
<1> QED BY <1>3, <1>7, FinishStep

LEMMA CloseStep ==
  ASSUME VoiceIInv, CloseAndFeed
  PROVE  VoiceIInv'
<1> USE Facts, Sets DEF VoiceIInv
<1>1. /\ closed' = closed \cup doomed /\ doomed' = {} /\ apc' = "mix"
      /\ UNCHANGED <<running, chan, stamp, gen, snd, reader, handed, slot, gpc, task, pend,
                     snaps, feeds, owns, over, told, ended, lost>>
  BY DEF CloseAndFeed, voices, game, history
<1>2. Typed'
  BY <1>1 DEF Typed, TypeOK, Mixed, Channel
<1>3. Holding' /\ VoicesApart' /\ LiveChans'
  BY <1>1 DEF Holding, Within, Heard, VoicesApart, LiveChans, Live
<1>4. SlotsKnow' /\ SnapsKnow' /\ Heard' \subseteq over'
  BY <1>1 DEF SlotsKnow, SnapsKnow, Heard
<1>5. Owed' /\ NoVoiceVanishes'
  BY <1>1 DEF Owed, Heard, Flagged, Queued, NoVoiceVanishes
<1> QED BY <1>2, <1>3, <1>4, <1>5

LEMMA StandStill ==
  ASSUME VoiceIInv, UNCHANGED vars
  PROVE  VoiceIInv'
<1> USE DEF VoiceIInv
<1>1. UNCHANGED <<running, chan, stamp, gen, snd, reader, handed, slot, gpc, task, pend, apc,
                  snaps, doomed, feeds, closed, owns, over, told, ended, lost>>
  BY DEF vars, voices, game, audio, history
<1>2. Typed'
  BY <1>1 DEF Typed, TypeOK, Mixed, Channel
<1>3. Holding' /\ VoicesApart' /\ LiveChans'
  BY <1>1 DEF Holding, Within, Heard, VoicesApart, LiveChans, Live
<1>4. SlotsKnow' /\ SnapsKnow' /\ Heard' \subseteq over'
  BY <1>1 DEF SlotsKnow, SnapsKnow, Heard
<1>5. Owed' /\ NoVoiceVanishes'
  BY <1>1 DEF Owed, Heard, Flagged, Queued, NoVoiceVanishes
<1> QED BY <1>2, <1>3, <1>4, <1>5

LEMMA VoicesStart ==
  ASSUME Init
  PROVE  VoiceIInv
<1> USE PoolAssumption, Sets DEF Init
<1>1. /\ Blank \in Channel /\ ~Blank.used /\ ~Blank.playing /\ ~Blank.endPending
      /\ Blank.voice = 0
  BY DEF Blank, Channel
<1>2. NoSound \in [used : BOOLEAN, st : Streams \cup {0}]
  BY DEF NoSound
<1>3. FreeSlot \in SlotUpTo(stamp) /\ ~FreeSlot.inUse
  BY DEF FreeSlot, SlotUpTo
<1>4. NoTask \in Task
  BY DEF NoTask, Task
<1>5. Len(pend) = 0 /\ DOMAIN pend = {} /\ pend \in Seq([chan : Chans, voice : 1 .. stamp])
      /\ handed \in Seq(Streams)
  OBVIOUS
<1>6. Typed
  BY <1>1, <1>2, <1>3, <1>4, <1>5 DEF Typed, TypeOK, SlotUpTo
<1>7. Holding
  BY <1>5 DEF Holding, Within
<1>8. VoicesApart /\ LiveChans
  BY <1>1 DEF VoicesApart, LiveChans, Live
<1>9. SlotsKnow /\ SnapsKnow /\ Heard \subseteq over
  BY <1>3 DEF SlotsKnow, SnapsKnow, Heard
<1>10. Owed /\ NoVoiceVanishes
  BY <1>1, <1>5 DEF Owed, NoVoiceVanishes, Flagged, Queued, Heard
<1> QED BY <1>6, <1>7, <1>8, <1>9, <1>10 DEF VoiceIInv

-----------------------------------------------------------------------------
(* The theorems of the voices.                                             *)

\* What is true of every state of the voices, between any two locked regions of
\* audio_patch.c: where each voice is, what each channel serves, what is owed.
THEOREM VoiceInvariant ==
  Spec => []VoiceIInv
<1>1. Init => VoiceIInv
  BY VoicesStart
<1>2. VoiceIInv /\ [Next]_vars => VoiceIInv'
  <2> SUFFICES ASSUME VoiceIInv, [Next]_vars PROVE VoiceIInv'
    OBVIOUS
  <2>1. CASE UNCHANGED vars
    BY <2>1, StandStill
  <2>2. CASE Game
    BY <2>2, CreateStep, ReleaseStep, EnsureFreeStep, PlayStep, RegisterStep, StopStep, SetStep,
       UpdateStep, CallbackStep, DeliveredStep DEF Game
  <2>3. CASE Audio
    BY <2>3, SnapshotStep, CloseStep, ReconcileStep DEF Audio
  <2> QED BY <2>1, <2>2, <2>3 DEF Next
<1> QED BY <1>1, <1>2, PTL DEF Spec

\* However voices are played, stolen, stopped, released, replayed and mixed, none falls
\* silent without a reason and every END is owed once and in one place, for any number of
\* channels, retire slots, sounds and slots (audio_patch.c:1219-1236, 1312-1347, 2015-2045).
THEOREM NoVoiceOrEndIsLost ==
  Spec => []VoicesAccounted
<1>1. VoiceIInv => VoicesAccounted
  <2>1. Typed => TypeOK
    BY DEF Typed
  <2> QED BY <2>1 DEF VoiceIInv, VoicesAccounted, EndsAccounted, Owed
<1> QED BY <1>1, VoiceInvariant, PTL

\* What the audio thread learnt while it mixed without the lock is written back only to
\* voices it mixed: a channel stopped and played again meanwhile has another generation
\* (audio_patch.c:1219-1236).
THEOREM MixWritesBackToMixed ==
  Spec => MixedVoicesOnly
<1> DEFINE A == apc = "mix" /\ apc' = "idle" => over' \ over \subseteq {m.voice : m \in snaps}
<1>1. VoiceIInv /\ [Next]_vars => [A]_vars
  <2> SUFFICES ASSUME VoiceIInv, Next, apc = "mix", apc' = "idle"
               PROVE  over' \ over \subseteq {m.voice : m \in snaps}
    OBVIOUS
  <2>1. Reconcile
    BY DEF Next, Game, Audio, Sys_createSound, Snd_release, EnsureFree, Sys_playSound, Register,
           StopChannel, Ch_setPaused, Ch_setPosition, Sys_update, Callback, Delivered,
           Snapshot, CloseAndFeed, audio
  <2>2. PICK finished \in SUBSET {m \in snaps : Current(m)} :
          over' = over \cup {chan[m.chan].voice : m \in finished}
    BY <2>1 DEF Reconcile
  <2>3. \A m \in finished : m \in snaps /\ chan[m.chan].voice = m.voice
    BY DEF Current, VoiceIInv, SnapsKnow
  <2> QED BY <2>2, <2>3
<1> QED BY <1>1, VoiceInvariant, PTL DEF Spec, MixedVoicesOnly

-----------------------------------------------------------------------------
(* Streams.  One changes hands in one step: from its sound to the list, from  *)
(* the list to the audio thread, from the audio thread to the closed ones.    *)

Given == {handed[i] : i \in DOMAIN handed}
HeldStreams == {snd[s].st : s \in Sounds} \ {0}

StreamIInv ==
  /\ StreamsHeldOnce
  /\ feeds \cap doomed = {} /\ \A m \in snaps : m.st \notin doomed
  /\ ~running => apc = "idle"
  /\ apc = "idle" => feeds = {} /\ snaps = {}

StreamsStill == UNCHANGED <<running, snd, handed, apc, snaps, doomed, feeds, closed>>

LEMMA StreamsTypes ==
  ASSUME Typed
  PROVE  /\ \A s \in Sounds : snd[s].st \in Streams \cup {0}
         /\ handed \in Seq(Streams) /\ Len(handed) \in Nat /\ DOMAIN handed = 1 .. Len(handed)
         /\ Given \subseteq Streams /\ 0 \notin Streams
         /\ doomed \subseteq Streams /\ closed \subseteq Streams
<1>1. handed \in Seq(Streams)
  BY DEF Typed, TypeOK
<1>2. \A i \in DOMAIN handed : handed[i] \in Streams
  BY <1>1, ElementOfSeq, LenProperties
<1> QED BY <1>1, <1>2, LenProperties DEF Typed, TypeOK, Given, Streams

LEMMA StreamsMove ==
  ASSUME Typed, Next
  PROVE  \/ StreamsStill
         \/ Sys_createSound \/ Snd_release \/ Snapshot \/ CloseAndFeed \/ Reconcile
<1>1. EnsureFree \/ Sys_playSound \/ Register => StreamsStill
  <2>1. EnsureFree => UNCHANGED <<running, snd, handed, audio>>
    BY DEF EnsureFree
  <2>2. Sys_playSound => UNCHANGED <<running, snd, handed, audio>>
    BY DEF Sys_playSound
  <2>3. Register => UNCHANGED <<running, snd, handed, audio>>
    BY DEF Register
  <2> QED BY <2>1, <2>2, <2>3 DEF audio, StreamsStill
<1>2. StopChannel \/ Ch_setPaused \/ Ch_setPosition => StreamsStill
  BY DEF StopChannel, Ch_setPaused, Ch_setPosition, audio, StreamsStill
<1>3. Sys_update \/ Delivered => StreamsStill
  BY DEF Sys_update, Delivered, audio, StreamsStill
<1>4. Callback => StreamsStill
  <2>1. Callback => UNCHANGED <<running, snd, handed, audio>>
    BY DEF Callback
  <2> QED BY <2>1 DEF audio, StreamsStill
<1> QED BY <1>1, <1>2, <1>3, <1>4 DEF Next, Game, Audio

\* A new sound has no stream, or one that nothing holds and that was never closed.
LEMMA CreateStreams ==
  ASSUME Typed, StreamIInv, Sys_createSound
  PROVE  StreamIInv'
<1> USE StreamsTypes
<1>1. UNCHANGED <<running, handed, apc, snaps, doomed, feeds, closed>>
  BY DEF Sys_createSound, audio
<1>2. PICK s \in Sounds, st \in {0} \cup (Streams \ Opened) :
        snd' = [snd EXCEPT ![s] = [used |-> TRUE, st |-> st]]
  BY DEF Sys_createSound
<1>3. /\ \A r \in Sounds : snd'[r].st = IF r = s THEN st ELSE snd[r].st
      /\ st # 0 => /\ st \notin Given \cup doomed \cup closed
                   /\ \A r \in Sounds : snd[r].st # st
  BY <1>2 DEF Opened, Given, Typed, TypeOK
<1> QED BY <1>1, <1>3 DEF StreamIInv, StreamsHeldOnce, Given

\* The stream of a released sound is handed over or closed, and its sound lets it go.
LEMMA ReleaseStreams ==
  ASSUME Typed, StreamIInv, Snd_release
  PROVE  /\ StreamIInv'
         /\ (running => Len(handed) < NSounds) => (closed' = closed \/ ~running)
<1> USE StreamsTypes
<1>1. UNCHANGED <<running, apc, snaps, doomed, feeds>>
  BY DEF Snd_release
<1>2. PICK s \in Sounds :
        /\ snd' = [snd EXCEPT ![s] = NoSound]
        /\ handed' = HandedOver(snd[s].st) /\ closed' = closed \cup ClosedHere(snd[s].st)
  BY DEF Snd_release
<1> DEFINE st == snd[s].st
<1>3. \A r \in Sounds : snd'[r].st = IF r = s THEN 0 ELSE snd[r].st
  BY <1>2 DEF NoSound, Typed, TypeOK
<1>4. st # 0 => /\ st \in Streams /\ st \notin Given \cup doomed \cup closed
                /\ \A r \in Sounds : r # s => snd[r].st # st
  BY DEF StreamIInv, StreamsHeldOnce, Given
<1>5. CASE Handing(st)
  <2>1. handed' = Append(handed, st) /\ closed' = closed /\ st # 0
    BY <1>2, <1>5 DEF HandedOver, ClosedHere, Handing
  <2>2. /\ DOMAIN handed' = 1 .. Len(handed) + 1 /\ handed'[Len(handed) + 1] = st
        /\ \A i \in 1 .. Len(handed) : handed'[i] = handed[i]
    BY <1>4, <2>1, AppendProperties, LenProperties
  <2>3. Given' = Given \cup {st} /\ \A i \in 1 .. Len(handed) : handed[i] # st
    BY <1>4, <2>1, <2>2 DEF Given
  <2>4. \A i, j \in DOMAIN handed' : handed'[i] = handed'[j] => i = j
    BY <2>2, <2>3 DEF StreamIInv, StreamsHeldOnce
  <2> HIDE DEF st
  <2>5. \A r \in Sounds : snd'[r].st = 0 \/ (snd'[r].st = snd[r].st /\ snd[r].st # st)
    BY <1>3, <1>4, <2>1
  <2>6. HeldStreams' \cap (Given' \cup doomed' \cup closed') = {}
        /\ Given' \cap (doomed' \cup closed') = {} /\ doomed' \cap closed' = {}
    BY <1>1, <1>4, <2>1, <2>3, <2>5 DEF HeldStreams, StreamIInv, StreamsHeldOnce, Given
  <2>7. \A r, q \in Sounds : snd'[r].st = snd'[q].st /\ r # q => snd'[r].st = 0
    BY <2>5 DEF StreamIInv, StreamsHeldOnce
  <2> QED BY <1>1, <2>1, <2>4, <2>6, <2>7 DEF StreamIInv, StreamsHeldOnce, HeldStreams, Given
<1>6. CASE ~Handing(st)
  <2>1. handed' = handed /\ closed' = closed \cup ({st} \ {0})
    BY <1>2, <1>6 DEF HandedOver, ClosedHere
  <2>2. (running => Len(handed) < NSounds) => (closed' = closed \/ ~running)
    BY <1>6, <2>1 DEF Handing
  <2> HIDE DEF st
  <2>3. \A r \in Sounds : snd'[r].st = 0 \/ (snd'[r].st = snd[r].st /\ (st # 0 => snd[r].st # st))
    BY <1>3, <1>4
  <2>4. HeldStreams' \cap (Given' \cup doomed' \cup closed') = {}
        /\ Given' \cap (doomed' \cup closed') = {} /\ doomed' \cap closed' = {}
    BY <1>1, <1>4, <2>1, <2>3 DEF HeldStreams, StreamIInv, StreamsHeldOnce, Given
  <2>5. \A r, q \in Sounds : snd'[r].st = snd'[q].st /\ r # q => snd'[r].st = 0
    BY <2>3 DEF StreamIInv, StreamsHeldOnce
  <2> QED BY <1>1, <2>1, <2>2, <2>4, <2>5 DEF StreamIInv, StreamsHeldOnce, HeldStreams, Given
<1> QED BY <1>5, <1>6

LEMMA AudioStreams ==
  ASSUME Typed, StreamIInv, Snapshot \/ CloseAndFeed \/ Reconcile
  PROVE  /\ StreamIInv'
         /\ Snapshot => /\ closed' = closed /\ feeds' \cap closed = {}
                        /\ \A m \in snaps' : m.st \notin closed
         /\ CloseAndFeed => closed' = closed \cup doomed /\ feeds' = feeds /\ snaps' = snaps
         /\ Reconcile => feeds' = {} /\ snaps' = {}
<1> USE StreamsTypes
<1>1. CASE Snapshot
  <2>1. /\ UNCHANGED <<running, snd, closed>> /\ running
        /\ doomed' = Given /\ handed' = <<>> /\ apc' = "close"
        /\ feeds' \subseteq HeldStreams
    BY <1>1 DEF Snapshot, Doomed, Given, HeldStreams
  <2>2. ASSUME NEW m \in snaps' PROVE m.st = 0 \/ m.st \in HeldStreams
    <3>1. PICK c \in PlayChans :
            /\ Mixable(c)
            /\ m = [chan |-> c, gen |-> chan[c].gen, st |-> StreamOf(c), voice |-> chan[c].voice]
      BY <1>1 DEF Snapshot
    <3>2. chan[c].snd \in Sounds
      BY <3>1, Facts, Sets DEF Mixable, ChannelUpTo
    <3> QED BY <3>1, <3>2 DEF HeldStreams, StreamOf
  <2>3. HeldStreams \cap (Given \cup closed) = {} /\ Given \cap closed = {}
    BY DEF StreamIInv, StreamsHeldOnce, HeldStreams, Given
  <2>4. DOMAIN handed' = {} /\ Given' = {} /\ HeldStreams' = HeldStreams
    BY <2>1 DEF Given, HeldStreams
  <2>5. \A m \in snaps' : m.st \notin Given \cup closed
    BY <2>2, <2>3
  <2> QED BY <1>1, <2>1, <2>3, <2>4, <2>5
          DEF StreamIInv, StreamsHeldOnce, HeldStreams, Given, CloseAndFeed, Reconcile
<1>2. CASE CloseAndFeed
  <2>1. /\ UNCHANGED <<running, snd, handed, feeds, snaps>> /\ apc = "close" /\ apc' = "mix"
        /\ closed' = closed \cup doomed /\ doomed' = {}
    BY <1>2 DEF CloseAndFeed
  <2> QED BY <1>2, <2>1 DEF StreamIInv, StreamsHeldOnce, Snapshot, Reconcile
<1>3. CASE Reconcile
  <2>1. /\ UNCHANGED <<running, snd, handed, doomed, closed>> /\ apc = "mix" /\ apc' = "idle"
        /\ feeds' = {} /\ snaps' = {}
    BY <1>3 DEF Reconcile
  <2> QED BY <1>3, <2>1 DEF StreamIInv, StreamsHeldOnce, Snapshot, CloseAndFeed
<1> QED BY <1>1, <1>2, <1>3

LEMMA StreamInvariance ==
  Spec => []StreamIInv
<1>1. Init => StreamIInv
  BY DEF Init, StreamIInv, StreamsHeldOnce, NoSound
<1>2. VoiceIInv /\ StreamIInv /\ [Next]_vars => StreamIInv'
  <2> SUFFICES ASSUME Typed, StreamIInv, [Next]_vars PROVE StreamIInv'
    BY DEF VoiceIInv
  <2>1. CASE UNCHANGED vars \/ StreamsStill
    <3>1. StreamsStill
      BY <2>1 DEF vars, audio, StreamsStill
    <3> QED BY <3>1 DEF StreamsStill, StreamIInv, StreamsHeldOnce
  <2> QED BY <2>1, StreamsMove, CreateStreams, ReleaseStreams, AudioStreams
<1> QED BY <1>1, <1>2, VoiceInvariant, PTL DEF Spec

\* A stream belongs to its sound, to the hand-over list, to the audio thread about to close
\* it or to nobody any more, never to two, and no two sounds have the same
\* (audio_patch.c:806, 1971-1990).
THEOREM OneOwnerPerStream ==
  Spec => []StreamsHeldOnce
<1>1. StreamIInv => StreamsHeldOnce
  BY DEF StreamIInv
<1> QED BY <1>1, StreamInvariance, PTL

\* As long as the hand-over list does not fill up between two grains, no stream is closed
\* while the audio thread decodes it or mixes from it.  When it does, Snd_release closes
\* the stream itself, whatever the audio thread is doing (audio_patch.c:1979-1990).
THEOREM NoStreamClosedInTheMix ==
  Spec /\ [](Len(handed) < NSounds) => []StreamsOwned
<1> DEFINE Room == Len(handed) < NSounds
<1>1. Init => MixedStreamsOpen
  BY DEF Init, MixedStreamsOpen
<1>2. VoiceIInv /\ StreamIInv /\ Room /\ MixedStreamsOpen /\ [Next]_vars => MixedStreamsOpen'
  <2> SUFFICES ASSUME Typed, StreamIInv, Room, MixedStreamsOpen, [Next]_vars
               PROVE  MixedStreamsOpen'
    BY DEF VoiceIInv
  <2>1. CASE UNCHANGED vars \/ StreamsStill
    <3>1. StreamsStill
      BY <2>1 DEF vars, audio, StreamsStill
    <3> QED BY <3>1 DEF StreamsStill, MixedStreamsOpen
  <2>2. CASE Sys_createSound
    BY <2>2 DEF Sys_createSound, audio, MixedStreamsOpen
  <2>3. CASE Snd_release
    <3>1. feeds' = feeds /\ snaps' = snaps /\ running' = running
      BY <2>3 DEF Snd_release
    <3>2. closed' = closed \/ ~running
      BY <2>3, ReleaseStreams
    <3> QED BY <3>1, <3>2 DEF MixedStreamsOpen, StreamIInv
  <2>4. CASE Snapshot
    BY <2>4, AudioStreams DEF MixedStreamsOpen
  <2>5. CASE CloseAndFeed
    BY <2>5, AudioStreams DEF MixedStreamsOpen, StreamIInv
  <2>6. CASE Reconcile
    BY <2>6, AudioStreams DEF MixedStreamsOpen
  <2> QED BY <2>1, <2>2, <2>3, <2>4, <2>5, <2>6, StreamsMove
<1>3. StreamIInv /\ MixedStreamsOpen => StreamsOwned
  BY DEF StreamIInv, StreamsOwned
<1> QED BY <1>1, <1>2, <1>3, VoiceInvariant, StreamInvariance, PTL DEF Spec

-----------------------------------------------------------------------------
(* One stream: its ring, its decoder and the voices it is played by.       *)

Filling == {"done", "loaded"}
Edge == base + fill + got

Flags ==
  /\ loop \in BOOLEAN /\ done \in BOOLEAN /\ deos \in BOOLEAN /\ eos \in BOOLEAN
  /\ restart \in BOOLEAN /\ final \in BOOLEAN /\ finish \in BOOLEAN
FeedTyped ==
  /\ loaded \in HeadFrames .. Length /\ lpc \in {"read", "end", "idle"} /\ dpos \in 0 .. Length
RingTyped == base \in Nat /\ fill \in 0 .. Cap /\ buf \in [0 .. Cap - 1 -> -1 .. Length - 1]
VoicesTyped ==
  /\ feeder \in Stream!Chans \cup {0} /\ turn \in 0 .. MaxTurns
  /\ players \in [Stream!Chans -> [playing : BOOLEAN, paused : BOOLEAN, pos : Nat,
                                  gen : 0 .. turn, moved : BOOLEAN]]
SnapTyped ==
  /\ snap \in [chan : Stream!Chans \cup {0}, pos : Nat, gen : 0 .. turn]
  /\ mixer = "snapshot" => snap.chan = 0
  /\ at \in [have : BOOLEAN, pos : Nat]
LocalsTyped ==
  /\ mixer \in {"snapshot", "restart", "clear", "retire", "feed", "done", "loaded", "mix", "reconcile"}
  /\ left \in 0 .. Budget /\ w \in 0 .. Cap - 1 /\ chunk \in 0 .. Cap /\ got \in 0 .. chunk
  /\ mixer \in Filling => w + chunk <= Cap /\ fill + chunk <= Cap
StreamTyped == Flags /\ FeedTyped /\ RingTyped /\ VoicesTyped /\ SnapTyped /\ LocalsTyped

\* The loader is done when it says so, and the decoder is told so later.
Loading ==
  /\ done <=> lpc = "idle"
  /\ final => done
  /\ dpos <= loaded
  /\ deos => done /\ dpos = loaded
  /\ eos => deos /\ ~loop

\* The callback is filling the cells after the window.
Chunks ==
  /\ chunk <= left
  /\ IF mixer \in Filling THEN w = (base + fill) % Cap ELSE got = 0 /\ chunk = 0
  /\ mixer = "loaded" => got < chunk

\* The decoder is at the frame that follows the window, which holds those before it.
Frame(f) == IF loop /\ done THEN f % loaded ELSE f
Decoded ==
  /\ IF loop /\ done THEN Edge % loaded = (IF dpos = loaded THEN 0 ELSE dpos) ELSE dpos = Edge
  /\ \A f \in base .. Edge - 1 : buf[f % Cap] = Frame(f)

\* A voice played from the top and fed since: where it is.
Followed(c) == c = feeder /\ players[c].playing /\ ~players[c].moved /\ ~restart
Following ==
  /\ mixer = "clear" => base = 0 /\ fill = 0
  /\ \A c \in Stream!Chans : Followed(c) =>
       /\ base <= players[c].pos
       /\ mixer \in {"restart", "retire"} /\ at.have =>
            at.pos <= players[c].pos \/ (mixer = "retire" /\ base = 0 /\ fill = 0)

\* What is mixed is where its voice is, or one frame on, unless the voice was handed on.
Grain ==
  /\ snap.chan # 0 /\ players[snap.chan].gen = snap.gen =>
       snap.pos = players[snap.chan].pos \/ (mixer = "reconcile" /\ snap.pos = players[snap.chan].pos + 1)
  /\ finish => mixer = "reconcile" /\ done /\ snap.pos + 1 >= loaded

PlayIInv == StreamTyped /\ Loading /\ Chunks /\ Decoded /\ Following /\ Grain

Params == /\ Length \in Nat \ {0} /\ MaxEs \in Nat \ {0} /\ Cap \in Nat \ {0, 1}
          /\ Budget \in Nat \ {0} /\ HeadFrames \in 1 .. Length
          /\ NChans \in Nat \ {0} /\ MaxTurns \in Nat /\ MaxPos \in Nat
          /\ MaxPos >= Length

LEMMA ModNext ==
  ASSUME NEW n \in Nat \ {0}, NEW a \in Nat
  PROVE  (a + 1) % n = IF (a % n) + 1 = n THEN 0 ELSE (a % n) + 1
<1>1. a \div n \in Nat /\ a % n \in 0 .. n - 1 /\ a = n * (a \div n) + (a % n)
  BY DivMod
<1> DEFINE q == a \div n
           r == a % n
<1>2. CASE r + 1 = n
  <2>1. a + 1 = n * (q + 1) + 0
    BY <1>1, <1>2
  <2>2. q + 1 \in Nat /\ 0 \in 0 .. n - 1
    BY <1>1
  <2>3. (n * (q + 1) + 0) % n = 0
    BY ONLY <2>2, n \in Nat \ {0}, ModUnique
  <2> QED BY <1>2, <2>1, <2>3
<1>3. CASE r + 1 # n
  <2>1. a + 1 = n * q + (r + 1)
    BY <1>1
  <2>2. q \in Nat /\ r + 1 \in 0 .. n - 1
    BY <1>1, <1>3
  <2>3. (n * q + (r + 1)) % n = r + 1
    BY ONLY <2>2, n \in Nat \ {0}, ModUnique
  <2> QED BY <1>3, <2>1, <2>3
<1> QED BY <1>2, <1>3

LEMMA ZeroMod == \A n \in Nat \ {0} : 0 % n = 0
BY ModSmall

LEMMA ParamsHold == Params
BY AudioAssumption DEF Stream!StreamAssumption, Params

-----------------------------------------------------------------------------

LEMMA StreamInit == Stream!Init => PlayIInv
<1> USE ParamsHold DEF Params
<1>0. SUFFICES ASSUME Stream!Init PROVE PlayIInv
  OBVIOUS
<1>1. Flags
  <2>1. loop \in BOOLEAN /\ done = FALSE /\ deos = FALSE /\ eos = FALSE /\ restart = FALSE
        /\ final = FALSE /\ finish = FALSE
    BY ONLY <1>0 DEF Stream!Init
  <2> QED BY ONLY <2>1 DEF Flags
<1>2. FeedTyped /\ RingTyped /\ LocalsTyped
  BY <1>0 DEF Stream!Init, FeedTyped, RingTyped, LocalsTyped, Filling
<1>3. VoicesTyped
  <2>1. turn = 0 /\ feeder = 0 /\ players = [c \in Stream!Chans |-> Stream!Silent]
    BY ONLY <1>0 DEF Stream!Init
  <2>2. 0 \in 0 .. turn /\ 0 \in Nat /\ 0 \in 0 .. MaxTurns
    BY <2>1
  <2>3. Stream!Silent \in [playing : BOOLEAN, paused : BOOLEAN, pos : Nat, gen : 0 .. turn, moved : BOOLEAN]
    BY ONLY <2>2, Zenon DEF Stream!Silent
  <2> QED BY ONLY <2>1, <2>2, <2>3 DEF VoicesTyped
<1>4. SnapTyped
  BY <1>0 DEF Stream!Init, Stream!NoSnap, Stream!NoPos, SnapTyped
<1>5. Loading /\ Chunks /\ Following /\ Grain
  BY <1>0 DEF Stream!Init, Loading, Chunks, Following, Grain, Filling, Followed, Stream!Chans, Stream!Silent, Stream!NoSnap, Stream!NoPos
<1>6. Decoded
  BY <1>0 DEF Stream!Init, Decoded, Edge
<1> QED BY <1>1, <1>2, <1>3, <1>4, <1>5, <1>6 DEF PlayIInv, StreamTyped

LEMMA TypesAreThere == PlayIInv => Stream!TypeOK
BY DEF PlayIInv, StreamTyped, Flags, FeedTyped, RingTyped, VoicesTyped, SnapTyped, LocalsTyped, Stream!TypeOK, Filling

-----------------------------------------------------------------------------
(* The loader and the game.                                                *)

\* Whatever the loader does, the others' state stays.
AudioStays == UNCHANGED <<loop, dpos, deos, base, fill, eos, buf, feeder, restart, players, turn,
                          mixer, at, snap, left, w, chunk, got, final, finish>>

LEMMA AudioStaysKeeps ==
  ASSUME PlayIInv, AudioStays
  PROVE  RingTyped' /\ VoicesTyped' /\ SnapTyped' /\ LocalsTyped' /\ Chunks' /\ Following'
<1> USE DEF PlayIInv, StreamTyped, AudioStays
<1>1. RingTyped'
  BY DEF RingTyped
<1>2. VoicesTyped'
  BY DEF VoicesTyped, Stream!Chans
<1>3. SnapTyped'
  BY DEF SnapTyped, Stream!Chans
<1>4. LocalsTyped'
  BY DEF LocalsTyped, Filling
<1>5. Chunks'
  BY DEF Chunks, Filling
<1>6. Following'
  BY DEF Following, Followed, Stream!Chans
<1> QED BY <1>1, <1>2, <1>3, <1>4, <1>5, <1>6

LEMMA LoadChunkKeeps ==
  ASSUME PlayIInv, Stream!LoadChunk
  PROVE  PlayIInv'
<1> USE ParamsHold DEF Params
<1>0. Flags /\ FeedTyped /\ RingTyped /\ LocalsTyped /\ SnapTyped /\ VoicesTyped /\ Loading /\ Decoded /\ Grain
  BY DEF PlayIInv, StreamTyped
<1>1. AudioStays
  BY ONLY Stream!LoadChunk
  DEF AudioStays, Stream!LoadChunk, Stream!decoder, Stream!ring, Stream!voice, Stream!locals
<1>2. /\ lpc = "read" /\ loaded < Length /\ ~done /\ done' = done
      /\ (loaded' = loaded /\ lpc' = "end") \/ (loaded' = loaded + 1 /\ lpc' = "read")
  BY <1>0 DEF Stream!LoadChunk, Loading
<1>3. Flags'
  BY ONLY <1>0, <1>1, <1>2 DEF Flags, AudioStays
<1>4. FeedTyped'
  BY <1>0, <1>1, <1>2 DEF FeedTyped, AudioStays
<1>5. Loading'
  BY <1>0, <1>1, <1>2 DEF FeedTyped, Loading, AudioStays
<1>6. Decoded'
  BY <1>0, <1>1, <1>2 DEF Decoded, Edge, Frame, AudioStays
<1>7. Grain'
  BY <1>0, <1>1, <1>2 DEF Grain, AudioStays
<1> QED BY <1>3, <1>4, <1>5, <1>6, <1>7, <1>1, AudioStaysKeeps DEF PlayIInv, StreamTyped

LEMMA LoadDoneKeeps ==
  ASSUME PlayIInv, Stream!LoadDone
  PROVE  PlayIInv'
<1> USE ParamsHold DEF Params
<1>0. Flags /\ FeedTyped /\ RingTyped /\ LocalsTyped /\ SnapTyped /\ VoicesTyped /\ Loading /\ Decoded /\ Grain
  BY DEF PlayIInv, StreamTyped
<1>1. AudioStays
  BY ONLY Stream!LoadDone
  DEF AudioStays, Stream!LoadDone, Stream!decoder, Stream!ring, Stream!voice, Stream!locals
<1>2. /\ ~done /\ done' = TRUE /\ loaded' = loaded /\ lpc' = "idle"
  BY <1>0 DEF Stream!LoadDone, Loading
<1>3. Flags'
  BY ONLY <1>0, <1>1, <1>2 DEF Flags, AudioStays
<1>4. FeedTyped'
  BY <1>0, <1>1, <1>2 DEF FeedTyped, AudioStays
<1>5. Loading'
  BY <1>0, <1>1, <1>2 DEF FeedTyped, Loading, AudioStays
<1>6. Decoded'
  <2>1. /\ loaded \in Nat \ {0} /\ base \in Nat /\ Edge \in Nat /\ dpos \in Nat /\ dpos <= loaded
        /\ dpos = Edge
    BY <1>0, <1>2 DEF Decoded, Edge, FeedTyped, RingTyped, LocalsTyped, Loading
  <2>2. Edge % loaded = IF dpos = loaded THEN 0 ELSE dpos
    <3>1. CASE dpos = loaded
      BY <2>1, <3>1
    <3>2. CASE dpos # loaded
      BY <2>1, <3>2, ModSmall
    <3> QED BY <3>1, <3>2
  <2>3. \A f \in base .. Edge - 1 : f % loaded = f
    BY <2>1, ModSmall
  <2>4. \A f \in base .. Edge - 1 : buf[f % Cap] = f
    BY <1>0, <1>2 DEF Decoded, Frame
  <2>5. Edge' = Edge /\ UNCHANGED <<loop, base, buf, dpos, loaded>>
    BY <1>1, <1>2 DEF Edge, AudioStays
  <2>6. \A f \in base .. Edge - 1 : f % loaded = f /\ buf[f % Cap] = f
    BY ONLY <2>3, <2>4
  <2> QED BY ONLY <1>2, <2>1, <2>2, <2>5, <2>6 DEF Decoded, Frame
<1>7. Grain'
  BY <1>0, <1>1, <1>2 DEF Grain, AudioStays
<1> QED BY <1>3, <1>4, <1>5, <1>6, <1>7, <1>1, AudioStaysKeeps DEF PlayIInv, StreamTyped

\* What the game does to voices touches neither the decoder nor the ring.
RingStays == UNCHANGED <<loop, loaded, done, lpc, dpos, deos, base, fill, eos, buf, mixer, at, snap,
                         left, w, chunk, got, final, finish>>

LEMMA RingStaysKeeps ==
  ASSUME PlayIInv, RingStays
  PROVE  Loading' /\ Chunks' /\ Decoded'
BY DEF PlayIInv, RingStays, Loading, Chunks, Decoded, Edge, Frame

LEMMA GameKeeps ==
  ASSUME PlayIInv, Stream!Game
  PROVE  PlayIInv'
<1> USE ParamsHold DEF Params, PlayIInv
<1>0. RingStays /\ turn < MaxTurns /\ turn' = turn + 1 /\ turn \in Nat
  <2>1. RingStays
    BY ONLY Stream!Game
    DEF RingStays, Stream!Game, Stream!Sys_playSound, Stream!Ch_setPosition, Stream!Ch_stop,
        Stream!Ch_setPaused, Stream!feed, Stream!decoder, Stream!ring, Stream!locals
  <2>2. turn < MaxTurns /\ turn' = turn + 1
    BY ONLY Stream!Game
    DEF Stream!Game, Stream!Sys_playSound, Stream!Ch_setPosition, Stream!Ch_stop, Stream!Ch_setPaused
  <2>3. turn \in Nat
    BY DEF StreamTyped, VoicesTyped
  <2> QED BY <2>1, <2>2, <2>3
<1> DEFINE V == [playing : BOOLEAN, paused : BOOLEAN, pos : Nat, gen : 0 .. turn, moved : BOOLEAN]
           W == [playing : BOOLEAN, paused : BOOLEAN, pos : Nat, gen : 0 .. turn + 1, moved : BOOLEAN]
<1>1. PICK c \in Stream!Chans, v \in W :
        /\ players' = [players EXCEPT ![c] = v]
        /\ v.gen = turn + 1 \/ (v.gen = players[c].gen /\ v.pos = players[c].pos)
        /\ \/ feeder' = c /\ restart' = TRUE
           \/ feeder' = feeder /\ restart' = restart
              /\ (v.moved \/ ~v.playing \/ (/\ v.pos = players[c].pos
                                            /\ (v.moved <=> players[c].moved)
                                            /\ (v.playing <=> players[c].playing)))
  <2>0. players \in [Stream!Chans -> V]
    BY DEF StreamTyped, VoicesTyped
  <2>1. CASE Stream!Sys_playSound
    <3>1. PICK c \in Stream!Chans, p \in BOOLEAN :
            /\ players' = [players EXCEPT ![c] = [playing |-> TRUE, paused |-> p, pos |-> 0,
                                                  gen |-> turn + 1, moved |-> FALSE]]
            /\ feeder' = c /\ restart' = TRUE
      BY <2>1 DEF Stream!Sys_playSound
    <3>2. [playing |-> TRUE, paused |-> p, pos |-> 0, gen |-> turn + 1, moved |-> FALSE] \in W
      <4>1. turn + 1 \in 0 .. turn + 1 /\ 0 \in Nat
        BY <1>0
      <4> QED BY ONLY <3>1, <4>1, Zenon
    <3> HIDE DEF W
    <3> QED BY ONLY <3>1, <3>2
  <2>2. CASE Stream!Ch_setPosition
    <3>1. PICK c \in Stream!Chans, p \in 0 .. Length :
            players' = [players EXCEPT ![c] = [@ EXCEPT !.pos = p, !.gen = turn + 1, !.moved = TRUE]]
      BY <2>2 DEF Stream!Ch_setPosition
    <3> DEFINE v == [players[c] EXCEPT !.pos = p, !.gen = turn + 1, !.moved = TRUE]
    <3>2. v \in W /\ v.gen = turn + 1 /\ v.moved
      <4>1. players[c] \in W /\ p \in Nat /\ turn + 1 \in 0 .. turn + 1
        BY <1>0, <2>0
      <4>2. v \in W
        BY ONLY <4>1, Zenon
      <4> QED BY <2>0, <4>2
    <3>3. feeder' = feeder /\ restart' = restart /\ players' = [players EXCEPT ![c] = v]
      BY <2>2, <3>1 DEF Stream!Ch_setPosition
    <3> HIDE DEF v
    <3> QED BY <3>2, <3>3
  <2>3. CASE Stream!Ch_stop
    <3>1. PICK c \in Stream!Chans :
            players' = [players EXCEPT ![c] = [@ EXCEPT !.playing = FALSE, !.gen = turn + 1]]
      BY <2>3 DEF Stream!Ch_stop
    <3> DEFINE v == [players[c] EXCEPT !.playing = FALSE, !.gen = turn + 1]
    <3>2. v \in W /\ v.gen = turn + 1 /\ ~v.playing
      <4>1. players[c] \in W /\ turn + 1 \in 0 .. turn + 1
        BY <1>0, <2>0
      <4>2. v \in W
        BY ONLY <4>1, Zenon
      <4> QED BY <2>0, <4>2
    <3>3. feeder' = feeder /\ restart' = restart /\ players' = [players EXCEPT ![c] = v]
      BY <2>3, <3>1 DEF Stream!Ch_stop
    <3> HIDE DEF v
    <3> QED BY <3>2, <3>3
  <2>4. CASE Stream!Ch_setPaused
    <3>1. PICK c \in Stream!Chans, p \in BOOLEAN : players' = [players EXCEPT ![c].paused = p]
      BY <2>4 DEF Stream!Ch_setPaused
    <3> DEFINE v == [players[c] EXCEPT !.paused = p]
    <3>2. /\ v \in W /\ v.gen = players[c].gen /\ v.pos = players[c].pos
          /\ (v.moved <=> players[c].moved) /\ (v.playing <=> players[c].playing)
      BY <1>0, <2>0
    <3>3. feeder' = feeder /\ restart' = restart /\ players' = [players EXCEPT ![c] = v]
      BY <2>4, <3>1 DEF Stream!Ch_setPaused
    <3> HIDE DEF v
    <3> QED BY <3>2, <3>3
  <2> QED BY <2>1, <2>2, <2>3, <2>4 DEF Stream!Game
<1>2. /\ players \in [Stream!Chans -> V] /\ players' \in [Stream!Chans -> W]
      /\ players'[c] = v /\ \A d \in Stream!Chans : d # c => players'[d] = players[d]
  <2>1. players \in [Stream!Chans -> V]
    BY DEF StreamTyped, VoicesTyped
  <2>2. \A d \in Stream!Chans : players[d] \in W
    BY <1>0, <2>1
  <2> QED BY ONLY <1>1, <2>1, <2>2
<1> HIDE DEF V, W
<1>3. VoicesTyped'
  <2>1. feeder' \in Stream!Chans \cup {0}
    BY <1>1 DEF StreamTyped, VoicesTyped
  <2>2. players' \in [Stream!Chans -> [playing : BOOLEAN, paused : BOOLEAN, pos : Nat,
                                       gen : 0 .. turn', moved : BOOLEAN]]
    BY ONLY <1>0, <1>2 DEF W
  <2>3. turn' \in 0 .. MaxTurns
    BY <1>0
  <2> QED BY ONLY <2>1, <2>2, <2>3 DEF VoicesTyped, Stream!Chans
<1>4. SnapTyped'
  <2>1. snap.chan \in Stream!Chans \cup {0} /\ snap.gen \in 0 .. turn'
    BY <1>0 DEF StreamTyped, SnapTyped
  <2>2. snap' \in [chan : Stream!Chans \cup {0}, pos : Nat, gen : 0 .. turn']
    BY <1>0, <2>1 DEF StreamTyped, SnapTyped, RingStays
  <2> QED BY <1>0, <2>2 DEF StreamTyped, SnapTyped, RingStays, Stream!Chans
<1>5. Flags'
  <2>1. restart' \in BOOLEAN
    BY <1>1 DEF StreamTyped, Flags
  <2>2. Flags /\ RingStays
    BY <1>0 DEF StreamTyped
  <2> QED BY ONLY <2>1, <2>2 DEF Flags, RingStays
<1>6. FeedTyped' /\ RingTyped' /\ LocalsTyped'
  BY <1>0 DEF StreamTyped, FeedTyped, RingTyped, LocalsTyped, RingStays, Filling
<1>7. Following'
  <2>1. ASSUME NEW d \in Stream!Chans, Followed(d)' PROVE d # c => Followed(d)
    BY <1>1, <1>2, <2>1 DEF Followed
  <2>2. ASSUME Followed(c)' PROVE Followed(c) /\ v.pos = players[c].pos
    BY <1>1, <1>2, <2>2 DEF Followed
  <2>3. ASSUME NEW d \in Stream!Chans, Followed(d)' PROVE Followed(d) /\ players'[d].pos = players[d].pos
    BY <1>2, <2>1, <2>2, <2>3
  <2> QED BY <1>0, <2>3 DEF Following, RingStays, Stream!Chans
<1>8. Grain'
  <2>1. snap.chan # 0 => snap.chan \in Stream!Chans /\ snap.gen # turn + 1
    BY <1>0 DEF StreamTyped, SnapTyped
  <2>2. snap.chan # 0 /\ players'[snap.chan].gen = snap.gen =>
          players[snap.chan].gen = snap.gen /\ players'[snap.chan].pos = players[snap.chan].pos
    BY <1>1, <1>2, <2>1
  <2> QED BY <1>0, <2>2 DEF Grain, RingStays
<1> QED BY <1>0, <1>3, <1>4, <1>5, <1>6, <1>7, <1>8, RingStaysKeeps DEF StreamTyped

-----------------------------------------------------------------------------
(* The audio thread's decoding: it leaves the voices and the grain alone.  *)

GrainStays == UNCHANGED <<loop, loaded, done, lpc, feeder, players, turn, snap, finish>>

LEMMA GrainStaysKeeps ==
  ASSUME PlayIInv, GrainStays, at' \in [have : BOOLEAN, pos : Nat],
         mixer # "reconcile", mixer' \notin {"reconcile", "snapshot"}
  PROVE  VoicesTyped' /\ SnapTyped' /\ Grain'
<1> USE DEF PlayIInv, StreamTyped, GrainStays
<1>1. VoicesTyped'
  BY DEF VoicesTyped, Stream!Chans
<1>2. SnapTyped'
  BY DEF SnapTyped, Stream!Chans
<1>3. Grain'
  BY DEF Grain
<1> QED BY <1>1, <1>2, <1>3

\* While the ring is filled nobody follows closer.
LEMMA FillingFollows ==
  ASSUME PlayIInv, GrainStays, UNCHANGED <<base, restart>>,
         mixer' \notin {"clear", "restart", "retire"}
  PROVE  Following'
BY DEF PlayIInv, GrainStays, Following, Followed, Stream!Chans

Parts == /\ Flags /\ FeedTyped /\ RingTyped /\ LocalsTyped /\ SnapTyped /\ VoicesTyped
         /\ Loading /\ Chunks /\ Decoded /\ Following /\ Grain
LEMMA PartsAre == PlayIInv <=> Parts
BY DEF PlayIInv, StreamTyped, Parts

LEMMA RestartCheckKeeps ==
  ASSUME PlayIInv, Stream!RestartCheck
  PROVE  PlayIInv'
<1> USE ParamsHold DEF Params
<1>0. Parts
  BY PartsAre
<1>1. /\ mixer = "restart" /\ GrainStays
      /\ UNCHANGED <<buf, restart, at, left, w, chunk, got, final>>
      /\ \/ restart /\ dpos' = 0 /\ deos' = FALSE /\ base' = 0 /\ fill' = 0 /\ eos' = FALSE /\ mixer' = "clear"
         \/ ~restart /\ mixer' = "retire" /\ UNCHANGED <<dpos, deos, base, fill, eos>>
  BY ONLY Stream!RestartCheck
  DEF Stream!RestartCheck, Stream!feed, Stream!decoder, Stream!ring, Stream!voice, Stream!locals, GrainStays
<1>2. VoicesTyped' /\ SnapTyped' /\ Grain'
  BY <1>0, <1>1, GrainStaysKeeps DEF Parts, SnapTyped
<1>3. Flags'
  BY ONLY <1>0, <1>1 DEF Parts, Flags, GrainStays
<1>4. FeedTyped' /\ RingTyped' /\ LocalsTyped'
  BY <1>0, <1>1 DEF Parts, FeedTyped, RingTyped, LocalsTyped, Filling, GrainStays
<1>5. Loading'
  BY <1>0, <1>1 DEF Parts, Loading, GrainStays, FeedTyped
<1>6. Chunks'
  BY <1>0, <1>1 DEF Parts, Chunks, Filling, GrainStays
<1>7. Decoded'
  <2>1. CASE restart
    <3>1. base' = 0 /\ Edge' = 0 /\ dpos' = 0 /\ loaded' \in Nat \ {0}
      BY <1>0, <1>1, <2>1 DEF Parts, Edge, Chunks, Filling, GrainStays, FeedTyped
    <3>2. Edge' % loaded' = 0
      BY ONLY <3>1, ZeroMod
    <3>3. \A f \in base' .. Edge' - 1 : FALSE
      BY ONLY <3>1
    <3>4. dpos' = Edge' /\ (IF dpos' = loaded' THEN 0 ELSE dpos') = 0
      BY ONLY <3>1
    <3> QED BY ONLY <3>2, <3>3, <3>4 DEF Decoded
  <2>2. CASE ~restart
    BY <1>0, <1>1, <2>2 DEF Parts, Decoded, Edge, Frame, GrainStays
  <2> QED BY <2>1, <2>2
<1>8. Following'
  BY <1>0, <1>1 DEF Parts, Following, Followed, GrainStays, Stream!Chans
<1> QED BY <1>2, <1>3, <1>4, <1>5, <1>6, <1>7, <1>8 DEF PlayIInv, StreamTyped

LEMMA RestartClearKeeps ==
  ASSUME PlayIInv, Stream!RestartClear
  PROVE  PlayIInv'
<1> USE ParamsHold DEF Params
<1>0. Parts
  BY PartsAre
<1>1. /\ mixer = "clear" /\ mixer' = "retire" /\ restart' = FALSE /\ GrainStays
      /\ UNCHANGED <<dpos, deos, base, fill, eos, buf, at, left, w, chunk, got, final>>
  BY ONLY Stream!RestartClear
  DEF Stream!RestartClear, Stream!feed, Stream!decoder, Stream!ring, Stream!voice, Stream!locals, GrainStays
<1>2. VoicesTyped' /\ SnapTyped' /\ Grain'
  BY <1>0, <1>1, GrainStaysKeeps DEF Parts, SnapTyped
<1>3. Flags'
  BY ONLY <1>0, <1>1 DEF Parts, Flags, GrainStays
<1>4. FeedTyped' /\ RingTyped' /\ LocalsTyped'
  BY <1>0, <1>1 DEF Parts, FeedTyped, RingTyped, LocalsTyped, Filling, GrainStays
<1>5. Loading'
  BY <1>0, <1>1 DEF Parts, Loading, GrainStays, FeedTyped
<1>6. Chunks'
  BY <1>0, <1>1 DEF Parts, Chunks, Filling, GrainStays
<1>7. Decoded'
  BY <1>0, <1>1 DEF Parts, Decoded, Edge, Frame, GrainStays
<1>8. Following'
  <2>1. base' = 0 /\ fill' = 0 /\ mixer' = "retire"
    BY <1>0, <1>1 DEF Parts, Following
  <2>2. \A c \in Stream!Chans : players'[c].pos \in Nat
    BY <1>2 DEF VoicesTyped
  <2> QED BY <2>1, <2>2 DEF Following, Stream!Chans
<1> QED BY <1>2, <1>3, <1>4, <1>5, <1>6, <1>7, <1>8 DEF PlayIInv, StreamTyped

LEMMA RetireKeeps ==
  ASSUME PlayIInv, Stream!Retire
  PROVE  PlayIInv'
<1> USE ParamsHold DEF Params
<1>0. Parts
  BY PartsAre
<1> DEFINE drop == IF at.have THEN Stream!Dropped(at.pos) ELSE 0
<1>1. /\ mixer = "retire" /\ mixer' = "feed" /\ GrainStays /\ at' = Stream!NoPos /\ left' = Budget
      /\ UNCHANGED <<dpos, deos, eos, buf, restart, w, chunk, got, final>>
  BY ONLY Stream!Retire
  DEF Stream!Retire, Stream!feed, Stream!decoder, Stream!ring, Stream!voice, Stream!locals, GrainStays
<1>d. base' = base + drop /\ fill' = IF drop > fill THEN 0 ELSE fill - drop
  BY ONLY Stream!Retire DEF Stream!Retire
<1>t. base \in Nat /\ fill \in Nat /\ at.pos \in Nat /\ fill <= Cap
  BY <1>0 DEF Parts, RingTyped, SnapTyped
<1>e. /\ drop \in 0 .. fill /\ base' = base + drop /\ fill' = fill - drop
      /\ at.have => base' <= base \/ base' <= at.pos
      /\ ~at.have \/ fill = 0 => base' = base
  BY <1>d, <1>t DEF Stream!Dropped
<1> HIDE DEF drop
<1>2. VoicesTyped' /\ SnapTyped' /\ Grain'
  <2>1. at' \in [have : BOOLEAN, pos : Nat]
    BY <1>1 DEF Stream!NoPos
  <2> QED BY <1>1, <2>1, GrainStaysKeeps
<1>3. Flags'
  BY ONLY <1>0, <1>1 DEF Parts, Flags, GrainStays
<1>4. FeedTyped' /\ RingTyped' /\ LocalsTyped'
  BY <1>0, <1>1, <1>e DEF Parts, FeedTyped, RingTyped, LocalsTyped, Filling, GrainStays
<1>5. Loading'
  BY <1>0, <1>1 DEF Parts, Loading, GrainStays, FeedTyped
<1>6. Chunks'
  BY <1>0, <1>1 DEF Parts, Chunks, Filling, GrainStays
<1>7. Decoded'
  <2>1. Edge' = Edge /\ base' >= base /\ base' \in Nat /\ Edge \in Nat
    BY <1>0, <1>1, <1>e, <1>t DEF Edge, Parts, LocalsTyped
  <2> QED BY <1>0, <1>1, <1>t, <2>1 DEF Parts, Decoded, Frame, GrainStays
<1>8. Following'
  <2>1. ASSUME NEW c \in Stream!Chans, Followed(c) PROVE base' <= players[c].pos
    <3>1. players[c].pos \in Nat
      BY <1>0 DEF Parts, VoicesTyped
    <3>2. base <= players[c].pos /\ (at.have => at.pos <= players[c].pos \/ (base = 0 /\ fill = 0))
      BY <1>0, <1>1, <2>1 DEF Parts, Following
    <3> QED BY <1>e, <1>t, <3>1, <3>2
  <2>2. \A c : Followed(c)' <=> Followed(c)
    BY <1>1 DEF Followed, GrainStays
  <2> QED BY <1>1, <2>1, <2>2 DEF Following, GrainStays, Stream!Chans
<1> QED BY <1>2, <1>3, <1>4, <1>5, <1>6, <1>7, <1>8 DEF PlayIInv, StreamTyped

LEMMA ChunkIs ==
  ASSUME PlayIInv, fill < Cap, left > 0
  PROVE  /\ Stream!Start = (base + fill) % Cap /\ Stream!Start \in 0 .. Cap - 1
         /\ Stream!Chunk \in Nat /\ Stream!Chunk <= left
         /\ Stream!Chunk <= Cap - fill /\ Stream!Chunk <= Cap - Stream!Start
<1> USE ParamsHold DEF Params
<1>1. base \in Nat /\ fill \in Nat /\ left \in Nat
  BY DEF PlayIInv, StreamTyped, RingTyped, LocalsTyped
<1>2. Stream!Start = (base + fill) % Cap /\ Stream!Start \in 0 .. Cap - 1
  BY <1>1, DivMod DEF Stream!Start
<1> DEFINE S == {Cap - fill, Cap - Stream!Start, left}
<1>3. S \in SUBSET Nat /\ S # {}
  BY <1>1, <1>2
<1>4. \E x \in S : \A y \in S : x <= y
  <2> HIDE DEF S
  <2> QED BY ONLY <1>3, LeastExists
<1>5. Stream!Chunk \in S /\ \A y \in S : Stream!Chunk <= y
  BY ONLY <1>4 DEF Stream!Chunk, Stream!Least
<1> QED BY <1>2, <1>3, <1>5

LEMMA FeedKeeps ==
  ASSUME PlayIInv, Stream!Feed
  PROVE  PlayIInv'
<1> USE ParamsHold DEF Params
<1>0. Parts
  BY PartsAre
<1>1. /\ mixer = "feed" /\ GrainStays
      /\ UNCHANGED <<dpos, deos, base, fill, eos, buf, restart, at, got, final>>
      /\ \/ /\ fill < Cap /\ left > 0 /\ w' = Stream!Start /\ chunk' = Stream!Chunk
            /\ mixer' = "done" /\ left' = left
         \/ left' = 0 /\ mixer' = "mix" /\ UNCHANGED <<w, chunk>>
  BY ONLY Stream!Feed
  DEF Stream!Feed, Stream!feed, Stream!decoder, Stream!ring, Stream!voice, GrainStays
<1>2. VoicesTyped' /\ SnapTyped' /\ Grain' /\ Following'
  BY <1>0, <1>1, GrainStaysKeeps, FillingFollows DEF Parts, SnapTyped
<1>3. Flags'
  BY ONLY <1>0, <1>1 DEF Parts, Flags, GrainStays
<1>4. FeedTyped' /\ RingTyped' /\ Loading'
  BY <1>0, <1>1 DEF Parts, FeedTyped, RingTyped, Loading, GrainStays
<1>5. got = 0 /\ chunk = 0 /\ fill \in 0 .. Cap /\ left \in 0 .. Budget
  BY <1>0, <1>1 DEF Parts, Chunks, Filling, RingTyped, LocalsTyped
<1>6. LocalsTyped' /\ Chunks'
  <2>1. CASE mixer' = "done"
    <3>1. w' = Stream!Start /\ chunk' = Stream!Chunk /\ left' = left /\ fill < Cap /\ left > 0
      BY <1>1, <2>1
    <3>2. /\ w' = (base' + fill') % Cap /\ w' \in 0 .. Cap - 1 /\ chunk' \in Nat /\ chunk' <= left'
          /\ chunk' <= Cap - fill' /\ chunk' <= Cap - w' /\ got' = 0 /\ fill' = fill /\ left' = left
      BY ONLY <1>1, <1>5, <3>1, ChunkIs, PlayIInv
    <3>3. Chunks'
      BY ONLY <1>5, <2>1, <3>2 DEF Chunks, Filling
    <3>4. /\ w' \in 0 .. Cap - 1 /\ chunk' \in 0 .. Cap /\ got' \in 0 .. chunk' /\ left' \in 0 .. Budget
          /\ w' + chunk' <= Cap /\ fill' + chunk' <= Cap
      <4>1. /\ Stream!Start \in 0 .. Cap - 1 /\ Stream!Chunk \in Nat
            /\ Stream!Chunk <= Cap - fill /\ Stream!Chunk <= Cap - Stream!Start
        BY ONLY <3>1, ChunkIs, PlayIInv
      <4>2. Cap \in Nat /\ Budget \in Nat
        BY ONLY ParamsHold DEF Params
      <4>3. /\ Stream!Chunk \in 0 .. Cap /\ 0 \in 0 .. Stream!Chunk
            /\ Stream!Start + Stream!Chunk <= Cap /\ fill + Stream!Chunk <= Cap
        BY ONLY <1>5, <4>1, <4>2
      <4> QED BY ONLY <1>1, <1>5, <3>1, <4>1, <4>3
    <3>5. LocalsTyped'
      BY ONLY <2>1, <3>4 DEF LocalsTyped, Filling
    <3> QED BY <3>3, <3>5
  <2>2. CASE mixer' = "mix"
    BY <1>0, <1>1, <1>5, <2>2 DEF Parts, LocalsTyped, Chunks, Filling
  <2> QED BY <1>1, <2>1, <2>2
<1>7. Decoded'
  BY <1>0, <1>1 DEF Parts, Decoded, Edge, Frame, GrainStays
<1> QED BY <1>2, <1>3, <1>4, <1>6, <1>7 DEF PlayIInv, StreamTyped

\* The frames a callback wrote join the window.
Absorbed(isEnd) ==
  /\ GrainStays /\ UNCHANGED <<dpos, base, buf, restart, at>>
  /\ fill' = fill + got /\ w' = 0 /\ chunk' = 0 /\ got' = 0 /\ final' = FALSE
  /\ \/ mixer' = "mix" /\ left' = 0
     \/ mixer' = "feed" /\ left' = left - got
  /\ IF isEnd THEN eos' = TRUE ELSE eos' = eos

LEMMA AbsorbedKeeps ==
  ASSUME PlayIInv, NEW isEnd \in BOOLEAN, Absorbed(isEnd), mixer \in Filling, deos' \in BOOLEAN,
         deos => deos', deos' => done /\ dpos = loaded, isEnd => deos' /\ ~loop
  PROVE  PlayIInv'
<1> USE ParamsHold DEF Params
<1>0. Parts
  BY PartsAre
<1>1. GrainStays /\ UNCHANGED <<dpos, base, buf, restart, at>>
  BY DEF Absorbed
<1>2. VoicesTyped' /\ SnapTyped' /\ Grain'
  <2>1. at' \in [have : BOOLEAN, pos : Nat]
    BY <1>0, <1>1 DEF Parts, SnapTyped
  <2>2. mixer # "reconcile" /\ mixer' \notin {"reconcile", "snapshot"}
    BY DEF Absorbed, Filling
  <2> QED BY <1>1, <2>1, <2>2, GrainStaysKeeps
<1>2a. Following'
  BY <1>1, FillingFollows DEF Absorbed
<1>3. Flags'
  <2>1. eos' \in BOOLEAN /\ final' \in BOOLEAN
    BY <1>0 DEF Parts, Flags, Absorbed
  <2> QED BY ONLY <1>0, <1>1, <2>1, deos' \in BOOLEAN DEF Parts, Flags, GrainStays
<1>4. /\ got \in 0 .. chunk /\ chunk \in 0 .. Cap /\ fill + chunk <= Cap /\ chunk <= left
      /\ base \in Nat /\ fill \in 0 .. Cap /\ left \in 0 .. Budget
  BY <1>0 DEF Parts, LocalsTyped, RingTyped, Chunks
<1>5. FeedTyped' /\ RingTyped' /\ LocalsTyped' /\ Chunks'
  <2>1. FeedTyped'
    BY <1>0, <1>1 DEF Parts, FeedTyped, GrainStays
  <2>2. RingTyped'
    BY <1>0, <1>1, <1>4 DEF Parts, RingTyped, Absorbed
  <2>3. LocalsTyped' /\ Chunks'
    BY <1>4 DEF LocalsTyped, Chunks, Absorbed, Filling
  <2> QED BY <2>1, <2>2, <2>3
<1>6. Loading'
  <2>1. eos' => deos' /\ ~loop
    BY <1>0 DEF Parts, Loading, Absorbed
  <2>2. final' = FALSE
    BY DEF Absorbed
  <2> QED BY <1>0, <1>1, <2>1, <2>2 DEF Parts, Loading, GrainStays
<1>7. Decoded'
  <2>1. Edge' = Edge
    BY <1>1, <1>4 DEF Edge, Absorbed
  <2> QED BY <1>0, <1>1, <2>1 DEF Parts, Decoded, Frame, GrainStays
<1> QED BY <1>2, <1>2a, <1>3, <1>5, <1>6, <1>7 DEF PlayIInv, StreamTyped

LEMMA AbsorbIs ==
  ASSUME PlayIInv, NEW isEnd \in BOOLEAN, Stream!Absorb(got, isEnd), GrainStays,
         UNCHANGED <<dpos, base, buf, restart, at>>
  PROVE  Absorbed(isEnd)
<1>1. /\ fill' = fill + got /\ w' = 0 /\ chunk' = 0 /\ got' = 0 /\ final' = FALSE
      /\ (mixer' = "mix" /\ left' = 0) \/ (mixer' = "feed" /\ left' = left - got)
  BY DEF Stream!Absorb
<1>2. IF isEnd THEN eos' = TRUE ELSE eos' = eos
  <2>1. eos' = (eos \/ isEnd)
    BY DEF Stream!Absorb
  <2>2. eos \in BOOLEAN
    BY DEF PlayIInv, StreamTyped, Flags
  <2> QED BY ONLY <2>1, <2>2, isEnd \in BOOLEAN
<1> QED BY <1>1, <1>2 DEF Absorbed

LEMMA ReadDoneKeeps ==
  ASSUME PlayIInv, Stream!ReadDone
  PROVE  PlayIInv'
<1> USE ParamsHold DEF Params
<1>0. Parts
  BY PartsAre
<1>1. /\ mixer = "done" /\ GrainStays /\ UNCHANGED <<dpos, deos, base, buf, restart, at>>
      /\ \/ /\ got < chunk /\ final' = done /\ mixer' = "loaded"
            /\ UNCHANGED <<fill, left, eos, w, chunk, got>>
         \/ Stream!Absorb(got, FALSE)
  BY ONLY Stream!ReadDone
  DEF Stream!ReadDone, Stream!feed, Stream!decoder, Stream!voice, GrainStays
<1>2. CASE Stream!Absorb(got, FALSE)
  <2>1. deos' \in BOOLEAN /\ (deos => deos') /\ (deos' => done /\ dpos = loaded)
    BY <1>0, <1>1 DEF Parts, Flags, Loading
  <2>2. Absorbed(FALSE)
    BY <1>1, <1>2, AbsorbIs
  <2>3. mixer \in Filling
    BY <1>1 DEF Filling
  <2> QED BY ONLY <2>1, <2>2, <2>3, PlayIInv, AbsorbedKeeps, FALSE \in BOOLEAN
<1>3. CASE /\ got < chunk /\ final' = done /\ mixer' = "loaded"
           /\ UNCHANGED <<fill, left, eos, w, chunk, got>>
  <2>2. VoicesTyped' /\ SnapTyped' /\ Grain' /\ Following'
    BY <1>0, <1>1, <1>3, GrainStaysKeeps, FillingFollows DEF Parts, SnapTyped
  <2>3. Flags'
    BY ONLY <1>0, <1>1, <1>3 DEF Parts, Flags, GrainStays
  <2>4. FeedTyped' /\ RingTyped' /\ LocalsTyped'
    BY <1>0, <1>1, <1>3 DEF Parts, FeedTyped, RingTyped, LocalsTyped, Filling, GrainStays
  <2>5. Loading' /\ Chunks'
    BY <1>0, <1>1, <1>3 DEF Parts, Loading, Chunks, Filling, GrainStays
  <2>6. Decoded'
    BY <1>0, <1>1, <1>3 DEF Parts, Decoded, Edge, Frame, GrainStays
  <2> QED BY <2>2, <2>3, <2>4, <2>5, <2>6 DEF PlayIInv, StreamTyped
<1> QED BY <1>1, <1>2, <1>3

LEMMA StarveKeeps ==
  ASSUME PlayIInv, Stream!Starve
  PROVE  PlayIInv'
<1>0. Parts
  BY PartsAre
<1>1. /\ mixer = "loaded" /\ GrainStays /\ UNCHANGED <<dpos, deos, base, buf, restart, at>>
      /\ Stream!Absorb(got, FALSE)
  BY ONLY Stream!Starve DEF Stream!Starve, Stream!feed, Stream!decoder, Stream!voice, GrainStays
<1>2. deos' \in BOOLEAN /\ (deos => deos') /\ (deos' => done /\ dpos = loaded)
  BY <1>0, <1>1 DEF Parts, Flags, Loading
<1>3. Absorbed(FALSE)
  BY <1>1, AbsorbIs
<1>4. mixer \in Filling
  BY <1>1 DEF Filling
<1> QED BY ONLY <1>2, <1>3, <1>4, PlayIInv, AbsorbedKeeps, FALSE \in BOOLEAN

\* At the end of the track the load is done and all of it is decoded.
LEMMA AtEndIs ==
  ASSUME PlayIInv, Stream!AtEnd
  PROVE  done /\ dpos = loaded /\ loaded \in Nat \ {0}
<1> USE ParamsHold DEF Params
<1>1. dpos \in Nat /\ loaded \in Nat \ {0} /\ dpos <= loaded
  BY DEF PlayIInv, StreamTyped, FeedTyped, Loading
<1>2. CASE deos
  BY <1>1, <1>2 DEF PlayIInv, Loading
<1>3. CASE final /\ Stream!Avail = 0
  BY <1>1, <1>3 DEF PlayIInv, Loading, Stream!Avail
<1> QED BY <1>2, <1>3 DEF Stream!AtEnd

LEMMA EndKeeps ==
  ASSUME PlayIInv, Stream!End
  PROVE  PlayIInv'
<1> USE ParamsHold DEF Params
<1>0. Parts
  BY PartsAre
<1>a. done /\ dpos = loaded /\ loaded \in Nat \ {0}
  BY AtEndIs DEF Stream!End
<1>1. /\ mixer = "loaded" /\ GrainStays /\ UNCHANGED <<base, buf, restart, at>>
      /\ \/ /\ got = 0 /\ loop /\ dpos' = 0 /\ deos' = FALSE /\ mixer' = "done"
            /\ UNCHANGED <<fill, left, eos, w, chunk, got, final>>
         \/ /\ ~(got = 0 /\ loop /\ loaded > 0) /\ deos' = TRUE /\ dpos' = dpos
            /\ Stream!Absorb(got, got = 0)
  BY ONLY Stream!End
  DEF Stream!End, Stream!feed, Stream!decoder, Stream!voice, GrainStays
<1>2. CASE /\ ~(got = 0 /\ loop /\ loaded > 0) /\ deos' = TRUE /\ dpos' = dpos
           /\ Stream!Absorb(got, got = 0)
  <2>1. deos' \in BOOLEAN /\ (deos => deos') /\ (deos' => done /\ dpos = loaded)
    BY ONLY <1>2, <1>a
  <2>2. Absorbed(got = 0)
    <3>1. (got = 0) \in BOOLEAN
      OBVIOUS
    <3> QED BY ONLY <1>1, <1>2, <3>1, PlayIInv, AbsorbIs
  <2>3. mixer \in Filling
    BY <1>1 DEF Filling
  <2>4. (got = 0) \in BOOLEAN /\ (got = 0 => deos' /\ ~loop)
    BY <1>a, <1>2
  <2> QED BY ONLY <2>1, <2>2, <2>3, <2>4, PlayIInv, AbsorbedKeeps
<1>3. CASE /\ got = 0 /\ loop /\ dpos' = 0 /\ deos' = FALSE /\ mixer' = "done"
           /\ UNCHANGED <<fill, left, eos, w, chunk, got, final>>
  <2>2. VoicesTyped' /\ SnapTyped' /\ Grain' /\ Following'
    BY <1>0, <1>1, <1>3, GrainStaysKeeps, FillingFollows DEF Parts, SnapTyped
  <2>3. Flags'
    BY ONLY <1>0, <1>1, <1>3 DEF Parts, Flags, GrainStays
  <2>4. FeedTyped' /\ RingTyped' /\ LocalsTyped'
    BY <1>0, <1>1, <1>3 DEF Parts, FeedTyped, RingTyped, LocalsTyped, Filling, GrainStays
  <2>5. Loading' /\ Chunks'
    <3>1. ~eos
      BY <1>0, <1>3 DEF Parts, Loading
    <3> QED BY <1>0, <1>1, <1>3, <1>a, <3>1 DEF Parts, Loading, Chunks, Filling, GrainStays
  <2>6. Decoded'
    <3>1. Edge % loaded = 0
      BY <1>0, <1>3, <1>a DEF Parts, Decoded
    <3>2. Edge' = Edge /\ dpos' # loaded' /\ loaded' = loaded /\ loop' /\ done' /\ dpos' = 0
      BY <1>1, <1>3, <1>a DEF Edge, GrainStays
    <3>3. \A f \in base .. Edge - 1 : buf[f % Cap] = Frame(f)
      BY <1>0 DEF Parts, Decoded
    <3> QED BY <1>1, <1>3, <1>a, <3>1, <3>2, <3>3 DEF Decoded, Frame, GrainStays
  <2> QED BY <2>2, <2>3, <2>4, <2>5, <2>6 DEF PlayIInv, StreamTyped
<1> QED BY <1>1, <1>2, <1>3

LEMMA DecodeFrameKeeps ==
  ASSUME PlayIInv, Stream!DecodeFrame
  PROVE  PlayIInv'
<1> USE ParamsHold DEF Params
<1>0. Parts
  BY PartsAre
<1>1. /\ mixer = "loaded" /\ mixer' = "done" /\ GrainStays
      /\ buf' = [buf EXCEPT ![w + got] = dpos] /\ dpos' = dpos + 1 /\ got' = got + 1
      /\ UNCHANGED <<deos, base, fill, eos, restart, at, left, w, chunk, final>>
  BY ONLY Stream!DecodeFrame
  DEF Stream!DecodeFrame, Stream!feed, Stream!voice, GrainStays
<1>2. /\ dpos \in Nat /\ loaded \in HeadFrames .. Length /\ base \in Nat /\ fill \in Nat /\ w \in Nat
      /\ chunk \in Nat /\ got \in Nat /\ got < chunk /\ w + chunk <= Cap /\ fill + chunk <= Cap
      /\ w = (base + fill) % Cap /\ buf \in [0 .. Cap - 1 -> -1 .. Length - 1]
  BY <1>0, <1>1 DEF Parts, FeedTyped, RingTyped, LocalsTyped, Chunks, Filling
<1>3. dpos < loaded /\ ~deos /\ ~eos
  <2>1. dpos \in Nat /\ loaded \in Nat /\ ~Stream!AtEnd /\ ~Stream!Starved
    BY <1>2 DEF Stream!DecodeFrame
  <2>2. ~deos
    BY <2>1 DEF Stream!AtEnd
  <2>3. Stream!Avail # 0
    BY <2>1, <2>2 DEF Stream!AtEnd, Stream!Starved
  <2>4. eos => deos
    BY <1>0 DEF Parts, Loading
  <2> QED BY <2>1, <2>2, <2>3, <2>4 DEF Stream!Avail
<1>4. VoicesTyped' /\ SnapTyped' /\ Grain' /\ Following'
  BY <1>0, <1>1, GrainStaysKeeps, FillingFollows DEF Parts, SnapTyped
<1>5. Flags'
  BY ONLY <1>0, <1>1 DEF Parts, Flags, GrainStays
<1>6. FeedTyped' /\ RingTyped' /\ LocalsTyped'
  <2>1. buf' \in [0 .. Cap - 1 -> -1 .. Length - 1]
    BY <1>1, <1>2, <1>3
  <2> QED BY <1>0, <1>1, <1>2, <1>3, <2>1 DEF Parts, FeedTyped, RingTyped, LocalsTyped, Filling, GrainStays
<1>7. Loading' /\ Chunks'
  BY <1>0, <1>1, <1>2, <1>3 DEF Parts, Loading, Chunks, Filling, GrainStays
<1>8. Decoded'
  <2>1. Edge' = Edge + 1 /\ Edge = base + fill + got /\ Edge \in Nat
    BY <1>1, <1>2 DEF Edge
  <2>2. Edge % Cap = w + got
    <3>1. base + fill \in Nat /\ ((base + fill) % Cap) + got < Cap
      BY <1>2
    <3>2. (base + fill + got) % Cap = ((base + fill) % Cap) + got
      BY ONLY <1>2, <3>1, ParamsHold, ModAdd DEF Params
    <3> QED BY <1>2, <2>1, <3>2
  <2>3. ASSUME NEW f \in base .. Edge - 1 PROVE f % Cap \in 0 .. Cap - 1 /\ f % Cap # Edge % Cap
    <3>1. f \in Nat /\ f < Edge /\ Edge - f < Cap
      BY <1>2, <2>1, <2>3
    <3>2. Cap \in Nat \ {0}
      OBVIOUS
    <3>3. f % Cap # Edge % Cap
      BY ONLY <2>1, <3>1, <3>2, ModDiffer
    <3> QED BY <3>1, <3>2, <3>3, DivMod
  <2>4. Frame(Edge) = dpos
    BY <1>0, <1>2, <1>3, <2>1 DEF Parts, Decoded, Frame
  <2>5. \A f : Frame(f)' = Frame(f)
    BY <1>1 DEF Frame, GrainStays
  <2>6. w + got \in 0 .. Cap - 1
    BY <1>2
  <2>7. \A f \in base .. Edge - 1 : buf'[f % Cap] = Frame(f)
    BY <1>0, <1>1, <1>2, <2>2, <2>3, <2>6 DEF Parts, Decoded
  <2>8. buf'[Edge % Cap] = Frame(Edge)
    BY <1>1, <1>2, <2>2, <2>4, <2>6
  <2>9. \A f \in base' .. Edge' - 1 : buf'[f % Cap] = Frame(f)'
    <3>1. \A f \in base .. Edge : f \in base .. Edge - 1 \/ f = Edge
      BY <1>2, <2>1
    <3>2. base' = base /\ Edge' - 1 = Edge
      BY <1>1, <2>1
    <3> QED BY ONLY <2>5, <2>7, <2>8, <3>1, <3>2
  <2>10. IF loop' /\ done' THEN Edge' % loaded' = (IF dpos' = loaded' THEN 0 ELSE dpos') ELSE dpos' = Edge'
    <3>1. CASE loop /\ done
      <4>1. Edge % loaded = dpos /\ loaded \in Nat \ {0}
        BY <1>0, <1>2, <1>3, <3>1 DEF Parts, Decoded
      <4>2. (Edge + 1) % loaded = IF dpos + 1 = loaded THEN 0 ELSE dpos + 1
        BY ONLY <1>2, <1>3, <2>1, <4>1, ModNext
      <4> QED BY <1>1, <2>1, <3>1, <4>2 DEF GrainStays
    <3>2. CASE ~(loop /\ done)
      BY <1>0, <1>1, <2>1, <3>2 DEF Parts, Decoded, GrainStays
    <3> QED BY <3>1, <3>2
  <2> QED BY ONLY <2>9, <2>10 DEF Decoded
<1> QED BY <1>4, <1>5, <1>6, <1>7, <1>8 DEF PlayIInv, StreamTyped

-----------------------------------------------------------------------------
(* Its two regions under the lock, and the mix between them.               *)

DecoderStays == UNCHANGED <<loop, loaded, done, lpc, dpos, deos, base, fill, eos, buf, restart, feeder,
                            turn, left, w, chunk, got, final>>

LEMMA DecoderStaysKeeps ==
  ASSUME PlayIInv, DecoderStays, mixer \notin Filling, mixer' \notin Filling,
         mixer' \in {"restart", "reconcile", "snapshot"}, finish' \in BOOLEAN
  PROVE  Flags' /\ FeedTyped' /\ RingTyped' /\ LocalsTyped' /\ Loading' /\ Chunks' /\ Decoded'
<1>0. Parts
  BY PartsAre
<1>1. Flags'
  BY ONLY <1>0, DecoderStays, finish' \in BOOLEAN DEF Parts, Flags, DecoderStays
<1>2. FeedTyped' /\ RingTyped' /\ LocalsTyped'
  BY <1>0 DEF Parts, FeedTyped, RingTyped, LocalsTyped, DecoderStays
<1>3. Loading' /\ Chunks'
  BY <1>0 DEF Parts, Loading, Chunks, DecoderStays
<1>4. Decoded'
  BY <1>0 DEF Parts, Decoded, Edge, Frame, DecoderStays
<1> QED BY <1>1, <1>2, <1>3, <1>4

\* A voice is where it was, or (what the mixer did) a frame on or finished.
VoiceRec(g) == [playing : BOOLEAN, paused : BOOLEAN, pos : Nat, gen : 0 .. g, moved : BOOLEAN]

LEMMA SnapshotKeeps ==
  ASSUME PlayIInv, Stream!Snapshot
  PROVE  PlayIInv'
<1>0. Parts
  BY PartsAre
<1>1. /\ mixer = "snapshot" /\ mixer' = "restart" /\ DecoderStays /\ finish' = finish
      /\ at' = IF feeder # 0 /\ players[feeder].playing
              THEN [have |-> TRUE, pos |-> players[feeder].pos] ELSE Stream!NoPos
      /\ snap' = IF feeder # 0 /\ players[feeder].playing /\ ~players[feeder].paused
                THEN [chan |-> feeder, pos |-> players[feeder].pos, gen |-> players[feeder].gen]
                ELSE Stream!NoSnap
      /\ players' = [c \in Stream!Chans |-> IF c = feeder \/ players[c].paused THEN players[c]
                                          ELSE [players[c] EXCEPT !.playing = FALSE]]
  BY ONLY Stream!Snapshot
  DEF Stream!Snapshot, Stream!feed, Stream!decoder, Stream!ring, DecoderStays
<1>2. Flags' /\ FeedTyped' /\ RingTyped' /\ LocalsTyped' /\ Loading' /\ Chunks' /\ Decoded'
  <2>1. finish' \in BOOLEAN
    BY <1>0, <1>1 DEF Parts, Flags
  <2> QED BY <1>1, <2>1, DecoderStaysKeeps DEF Filling
<1>t. /\ feeder \in Stream!Chans \cup {0} /\ turn \in 0 .. MaxTurns
      /\ players \in [Stream!Chans -> VoiceRec(turn)]
  BY <1>0 DEF Parts, VoicesTyped, VoiceRec
<1>3. \A c \in Stream!Chans :
        /\ players'[c] \in VoiceRec(turn)
        /\ players'[c].pos = players[c].pos /\ players'[c].gen = players[c].gen
        /\ (players'[c].moved <=> players[c].moved)
        /\ c = feeder => players'[c] = players[c]
        /\ (players'[c].playing => players[c].playing)
  <2>1. ASSUME NEW c \in Stream!Chans
        PROVE  LET x == [players[c] EXCEPT !.playing = FALSE] IN
                 /\ x \in VoiceRec(turn) /\ x.pos = players[c].pos /\ x.gen = players[c].gen
                 /\ (x.moved <=> players[c].moved) /\ ~x.playing
    <3>1. players[c] \in VoiceRec(turn)
      BY <1>t
    <3>2. [players[c] EXCEPT !.playing = FALSE] \in VoiceRec(turn)
      BY ONLY <3>1, Zenon DEF VoiceRec
    <3> QED BY <3>1, <3>2 DEF VoiceRec
  <2>2. ASSUME NEW c \in Stream!Chans
        PROVE  players'[c] = IF c = feeder \/ players[c].paused THEN players[c]
                             ELSE [players[c] EXCEPT !.playing = FALSE]
    BY <1>1
  <2> QED BY <1>t, <2>1, <2>2
<1>4. VoicesTyped'
  <2>1. \E X : players' = [c \in Stream!Chans |-> X[c]]
    <3> DEFINE X == [c \in Stream!Chans |-> players'[c]]
    <3>1. players' = X
      BY <1>1
    <3> QED BY <3>1
  <2>2. players' \in [Stream!Chans -> VoiceRec(turn)]
    BY ONLY <1>3, <2>1
  <2> QED BY <1>1, <1>t, <2>2 DEF VoicesTyped, VoiceRec, DecoderStays, Stream!Chans
<1>5. /\ snap'.chan # 0 => /\ snap'.chan = feeder /\ feeder \in Stream!Chans
                            /\ snap'.pos = players[feeder].pos /\ snap'.gen = players[feeder].gen
      /\ snap' \in [chan : Stream!Chans \cup {0}, pos : Nat, gen : 0 .. turn]
      /\ at' \in [have : BOOLEAN, pos : Nat]
      /\ at'.have => feeder \in Stream!Chans /\ at'.pos = players[feeder].pos
  <2>1. 0 \in 0 .. turn /\ 0 \in Nat
    BY <1>t
  <2>2. feeder # 0 => players[feeder].pos \in Nat /\ players[feeder].gen \in 0 .. turn
    BY <1>t DEF VoiceRec
  <2> QED BY <1>1, <1>t, <2>1, <2>2 DEF Stream!NoSnap, Stream!NoPos
<1>6. SnapTyped'
  BY <1>1, <1>5 DEF SnapTyped, DecoderStays, Stream!Chans
<1>7. Following'
  <2>1. ASSUME NEW c \in Stream!Chans, Followed(c)'
        PROVE  Followed(c) /\ players'[c].pos = players[c].pos /\ (at'.have => at'.pos = players[c].pos)
    BY <1>1, <1>3, <1>5, <2>1 DEF Followed, DecoderStays
  <2>2. \A c \in Stream!Chans : players[c].pos \in Nat
    BY <1>t DEF VoiceRec
  <2> QED BY <1>0, <1>1, <2>1, <2>2 DEF Parts, Following, DecoderStays, Stream!Chans
<1>8. Grain'
  <2>1. ~finish
    BY <1>0, <1>1 DEF Parts, Grain
  <2> QED BY <1>1, <1>3, <1>5, <2>1 DEF Grain
<1> QED BY <1>2, <1>4, <1>6, <1>7, <1>8 DEF PlayIInv, StreamTyped

LEMMA MixKeeps ==
  ASSUME PlayIInv, Stream!Mix
  PROVE  PlayIInv'
<1> USE ParamsHold DEF Params
<1>0. Parts
  BY PartsAre
<1>1. /\ mixer = "mix" /\ mixer' = "reconcile" /\ DecoderStays /\ UNCHANGED <<at, players>>
      /\ \/ UNCHANGED <<snap, finish>>
         \/ /\ snap.chan # 0
            /\ finish' = (~(Stream!Holds(snap.pos) /\ Stream!Holds(snap.pos + 1)) /\ Stream!Drained)
            /\ snap' = IF finish' \/ snap.pos = MaxPos THEN snap ELSE [snap EXCEPT !.pos = snap.pos + 1]
  BY ONLY Stream!Mix
  DEF Stream!Mix, Stream!feed, Stream!decoder, Stream!ring, Stream!voice, DecoderStays
<1>t. snap \in [chan : Stream!Chans \cup {0}, pos : Nat, gen : 0 .. turn] /\ at \in [have : BOOLEAN, pos : Nat]
  BY <1>0 DEF Parts, SnapTyped
<1>2. /\ snap' \in [chan : Stream!Chans \cup {0}, pos : Nat, gen : 0 .. turn]
      /\ snap'.chan = snap.chan /\ snap'.gen = snap.gen
      /\ snap'.pos = snap.pos \/ snap'.pos = snap.pos + 1
  BY <1>1, <1>t
<1>3. finish' \in BOOLEAN /\ (finish' => done /\ snap'.pos + 1 >= loaded)
  <2>1. CASE UNCHANGED <<snap, finish>>
    <3>1. ~finish
      BY <1>0, <1>1 DEF Parts, Grain
    <3>2. finish \in BOOLEAN
      BY <1>0 DEF Parts, Flags
    <3> QED BY ONLY <2>1, <3>1, <3>2
  <2>2. CASE finish' = (~(Stream!Holds(snap.pos) /\ Stream!Holds(snap.pos + 1)) /\ Stream!Drained)
             /\ snap' = IF finish' \/ snap.pos = MaxPos THEN snap ELSE [snap EXCEPT !.pos = snap.pos + 1]
    <3>1. finish' \in BOOLEAN /\ (finish' => Stream!Drained /\ snap' = snap)
      BY ONLY <2>2
    <3>2. got = 0 /\ base \in Nat /\ fill \in Nat
      BY <1>0, <1>1 DEF Parts, Chunks, Filling, RingTyped
    <3>3. eos => done /\ base + fill = loaded
      BY <1>0, <3>2 DEF Parts, Loading, Decoded, Edge
    <3> QED BY <3>1, <3>3 DEF Stream!Drained
  <2> QED BY <1>1, <2>1, <2>2
<1>4. Flags' /\ FeedTyped' /\ RingTyped' /\ LocalsTyped' /\ Loading' /\ Chunks' /\ Decoded'
  BY <1>1, <1>3, DecoderStaysKeeps DEF Filling
<1>5. VoicesTyped' /\ SnapTyped'
  BY <1>0, <1>1, <1>2, <1>t DEF Parts, VoicesTyped, SnapTyped, DecoderStays, Stream!Chans
<1>6. Following'
  BY <1>0, <1>1 DEF Parts, Following, Followed, DecoderStays, Stream!Chans
<1>7. Grain'
  <2>1. snap.chan # 0 /\ players[snap.chan].gen = snap.gen => snap.pos = players[snap.chan].pos
    BY <1>0, <1>1 DEF Parts, Grain
  <2> QED BY <1>1, <1>2, <1>3, <2>1 DEF Grain, DecoderStays
<1> QED BY <1>4, <1>5, <1>6, <1>7 DEF PlayIInv, StreamTyped

\* The mixed voice takes its grain's position, or ends there; a voice handed on does not.
LEMMA ReconcileMoves ==
  ASSUME PlayIInv, Stream!Reconcile
  PROVE  /\ mixer = "reconcile" /\ mixer' = "snapshot" /\ DecoderStays /\ at' = at
         /\ snap' = Stream!NoSnap /\ finish' = FALSE
         /\ players' \in [Stream!Chans -> VoiceRec(turn)]
         /\ \A c \in Stream!Chans :
              /\ players'[c].pos \in {players[c].pos, players[c].pos + 1}
              /\ players'[c].gen = players[c].gen /\ (players'[c].moved <=> players[c].moved)
              /\ players'[c].playing => players[c].playing
              /\ players[c].playing /\ ~players'[c].playing => finish
<1>0. Parts
  BY PartsAre
<1>1. /\ mixer = "reconcile" /\ mixer' = "snapshot" /\ DecoderStays /\ at' = at
      /\ snap' = Stream!NoSnap /\ finish' = FALSE
      /\ players' = IF Stream!Current
                   THEN [players EXCEPT ![snap.chan] =
                           [players[snap.chan] EXCEPT !.pos = snap.pos, !.playing = ~finish]]
                   ELSE players
  BY ONLY Stream!Reconcile
  DEF Stream!Reconcile, Stream!feed, Stream!decoder, Stream!ring, DecoderStays
<1>t. players \in [Stream!Chans -> VoiceRec(turn)] /\ \A c \in Stream!Chans : players[c] \in VoiceRec(turn)
  BY <1>0 DEF Parts, VoicesTyped, VoiceRec
<1>2. CASE ~Stream!Current
  BY <1>1, <1>2, <1>t
<1>3. CASE Stream!Current
  <2> DEFINE k == snap.chan
             x == [players[k] EXCEPT !.pos = snap.pos, !.playing = ~finish]
  <2>1. k \in Stream!Chans /\ players[k].playing /\ snap.pos \in Nat
        /\ snap.pos \in {players[k].pos, players[k].pos + 1}
    BY <1>0, <1>1, <1>3 DEF Parts, SnapTyped, Grain, Stream!Current
  <2>2. players[k] \in VoiceRec(turn) /\ (~finish) \in BOOLEAN
    BY <1>t, <2>1
  <2>3. x \in VoiceRec(turn)
    BY ONLY <2>1, <2>2, Zenon DEF VoiceRec
  <2>4. /\ x.pos = snap.pos /\ x.gen = players[k].gen /\ (x.moved <=> players[k].moved)
        /\ (x.playing <=> ~finish)
    BY <2>2 DEF VoiceRec
  <2>5. players' = [players EXCEPT ![k] = x]
    BY <1>1, <1>3
  <2> HIDE DEF k, x
  <2>6. players' \in [Stream!Chans -> VoiceRec(turn)] /\ players'[k] = x
        /\ \A c \in Stream!Chans : c # k => players'[c] = players[c]
    BY ONLY <1>t, <2>1, <2>3, <2>5
  <2> QED BY <1>1, <1>t, <2>1, <2>4, <2>6
<1> QED BY <1>2, <1>3

LEMMA ReconcileKeeps ==
  ASSUME PlayIInv, Stream!Reconcile
  PROVE  PlayIInv'
<1>0. Parts
  BY PartsAre
<1>1. mixer = "reconcile" /\ mixer' = "snapshot" /\ DecoderStays /\ at' = at /\ snap' = Stream!NoSnap /\ finish' = FALSE
  BY ReconcileMoves
<1>2. Flags' /\ FeedTyped' /\ RingTyped' /\ LocalsTyped' /\ Loading' /\ Chunks' /\ Decoded'
  BY <1>1, DecoderStaysKeeps DEF Filling
<1>3. VoicesTyped'
  BY <1>0, <1>1, ReconcileMoves DEF Parts, VoicesTyped, VoiceRec, DecoderStays, Stream!Chans
<1>4. SnapTyped'
  <2>1. 0 \in 0 .. turn' /\ 0 \in Nat
    BY <1>3 DEF VoicesTyped
  <2> QED BY <1>0, <1>1, <2>1 DEF Parts, SnapTyped, Stream!NoSnap, Stream!Chans
<1>5. Following'
  <2>1. ASSUME NEW c \in Stream!Chans, Followed(c)' PROVE Followed(c) /\ players'[c].pos >= players[c].pos
    <3>1. players[c].pos \in Nat
      BY <1>0 DEF Parts, VoicesTyped
    <3> QED BY <1>1, <2>1, <3>1, ReconcileMoves DEF Followed, DecoderStays
  <2>2. \A c \in Stream!Chans : players[c].pos \in Nat /\ players'[c].pos \in Nat /\ base \in Nat
    BY <1>0, <1>3 DEF Parts, VoicesTyped, RingTyped, Stream!Chans
  <2>3. \A c \in Stream!Chans : Followed(c) => base <= players[c].pos
    BY <1>0 DEF Parts, Following
  <2> QED BY <1>1, <2>1, <2>2, <2>3 DEF Following, DecoderStays, Stream!Chans
<1>6. Grain'
  BY <1>1 DEF Grain, Stream!NoSnap
<1> QED BY <1>2, <1>3, <1>4, <1>5, <1>6 DEF PlayIInv, StreamTyped

-----------------------------------------------------------------------------

LEMMA StreamStays ==
  ASSUME PlayIInv, UNCHANGED stream
  PROVE  PlayIInv'
<1>1. RingStays /\ UNCHANGED <<feeder, restart, players, turn>>
  BY DEF stream, RingStays
<1>2. Flags' /\ FeedTyped' /\ RingTyped' /\ LocalsTyped'
  BY ONLY <1>1, PlayIInv DEF RingStays, PlayIInv, StreamTyped, Flags, FeedTyped, RingTyped, LocalsTyped, Filling
<1>3. VoicesTyped' /\ SnapTyped'
  BY ONLY <1>1, PlayIInv DEF RingStays, PlayIInv, StreamTyped, VoicesTyped, SnapTyped, Stream!Chans
<1>4. Following' /\ Grain'
  BY ONLY <1>1, PlayIInv DEF RingStays, PlayIInv, Following, Followed, Grain, Stream!Chans
<1> QED BY <1>1, <1>2, <1>3, <1>4, RingStaysKeeps DEF PlayIInv, StreamTyped

LEMMA StreamInductive == PlayIInv /\ [AudioNext]_all => PlayIInv'
<1> SUFFICES ASSUME PlayIInv, [AudioNext]_all PROVE PlayIInv'
  OBVIOUS
<1>1. CASE UNCHANGED stream
  BY <1>1, StreamStays
<1>2. CASE Stream!Next
  <2>1. CASE Stream!Loader
    BY <2>1, LoadChunkKeeps, LoadDoneKeeps DEF Stream!Loader
  <2>2. CASE Stream!Game
    BY <2>2, GameKeeps
  <2>3. CASE Stream!Audio
    BY <2>3, SnapshotKeeps, RestartCheckKeeps, RestartClearKeeps, RetireKeeps, FeedKeeps, ReadDoneKeeps,
       DecodeFrameKeeps, StarveKeeps, EndKeeps, MixKeeps, ReconcileKeeps DEF Stream!Audio
  <2> QED BY <1>2, <2>1, <2>2, <2>3 DEF Stream!Next
<1> QED BY <1>1, <1>2 DEF AudioNext, Pool, Playing, all

\* The inductive invariant of a stream: the decoder is at the frame after the ring's
\* window, whose cells hold the track's frames (of the pass they are in, when it loops);
\* an end of stream means the whole file was decoded; a followed voice is not behind the
\* window, nor will the pending retire put it there (audio_ring.c:16-63,
\* audio_patch.c:850-940, 1413-1431).
THEOREM StreamInvariant == AudioSpec => []PlayIInv
<1>1. AudioInit => PlayIInv
  BY StreamInit DEF AudioInit
<1> QED BY <1>1, StreamInductive, PTL DEF AudioSpec

LEMMA WindowIs == PlayIInv => WindowExact
<1> SUFFICES ASSUME PlayIInv PROVE WindowExact
  OBVIOUS
<1>0. Parts
  BY PartsAre
<1>1. Stream!WindowHoldsTrack
  <2>1. base \in Nat /\ fill \in Nat /\ got \in Nat
    BY <1>0 DEF Parts, RingTyped, LocalsTyped
  <2>2. \A f \in base .. base + fill - 1 : f \in base .. Edge - 1
    BY <2>1 DEF Edge
  <2> QED BY <1>0, <2>2, TypesAreThere DEF Parts, Decoded, Frame, Stream!WindowHoldsTrack
<1>2. Stream!ReaderInWindow
  BY <1>0 DEF Parts, Following, Followed, Stream!ReaderInWindow
<1> QED BY <1>1, <1>2 DEF WindowExact

\* For a file, a ring, a budget and a number of plays of any size, through replays and
\* rewinds that race the decoder, and a loader that stops short: what is mixed at a
\* position is the track's frame there, and a voice that was not repositioned never falls
\* behind the window (audio_ring.c:16-63, audio_patch.c:935).
THEOREM WindowIsTheTrack == AudioSpec => []WindowExact
BY StreamInvariant, WindowIs, PTL

\* What ends a voice, or moves it, between a grain and the next is the mixer.
LEMMA ReconcileOnly ==
  ASSUME [AudioNext]_all, mixer = "reconcile", mixer' = "snapshot"
  PROVE  Stream!Reconcile
<1>1. mixer' # mixer
  OBVIOUS
<1>2. Stream!Next
  BY <1>1 DEF AudioNext, Pool, Playing, all, stream
<1>3. CASE Stream!Loader
  BY <1>1, <1>3 DEF Stream!Loader, Stream!LoadChunk, Stream!LoadDone
<1>4. CASE Stream!Game
  BY <1>1, <1>4
  DEF Stream!Game, Stream!Sys_playSound, Stream!Ch_setPosition, Stream!Ch_stop, Stream!Ch_setPaused
<1>5. CASE Stream!Audio
  BY <1>5 DEF Stream!Audio, Stream!Snapshot, Stream!RestartCheck, Stream!RestartClear, Stream!Retire,
              Stream!Feed, Stream!ReadDone, Stream!DecodeFrame, Stream!Starve, Stream!End, Stream!Mix
<1> QED BY <1>2, <1>3, <1>4, <1>5 DEF Stream!Next

\* A voice ends only once the file was read and its last frame mixed, and a grain never
\* undoes a seek, a stop or a replay made while it was mixed (audio_patch.c:1051-1070,
\* 1413-1431).
THEOREM EndsAndSeeksHold == AudioSpec => PlaysExact
<1> DEFINE Ends == \A c \in Stream!Chans :
                     players[c].playing /\ ~players'[c].playing /\ mixer = "reconcile" /\ mixer' = "snapshot"
                       => done /\ snap.pos + 1 >= loaded
           Seeks == \A c \in Stream!Chans :
                      mixer = "reconcile" /\ mixer' = "snapshot" /\ players'[c].pos # players[c].pos
                        => players'[c].pos = players[c].pos + 1
<1>1. PlayIInv /\ [AudioNext]_all => Ends /\ Seeks
  <2>1. SUFFICES ASSUME PlayIInv, [AudioNext]_all, mixer = "reconcile", mixer' = "snapshot"
                 PROVE  Ends /\ Seeks
    OBVIOUS
  <2>2. Stream!Reconcile
    BY <2>1, ReconcileOnly
  <2>3. \A c \in Stream!Chans :
          /\ players'[c].pos \in {players[c].pos, players[c].pos + 1}
          /\ players[c].playing /\ ~players'[c].playing => finish
    BY <2>1, <2>2, ReconcileMoves
  <2>4. finish => done /\ snap.pos + 1 >= loaded
    BY <2>1 DEF PlayIInv, Grain
  <2> QED BY <2>3, <2>4
<1>2. AudioSpec => [][Ends]_(Stream!vars)
  <2>1. PlayIInv /\ [AudioNext]_all => [Ends]_(Stream!vars)
    BY <1>1
  <2> QED BY <2>1, StreamInvariant, PTL DEF AudioSpec
<1>3. AudioSpec => [][Seeks]_(Stream!vars)
  <2>1. PlayIInv /\ [AudioNext]_all => [Seeks]_(Stream!vars)
    BY <1>1
  <2> QED BY <2>1, StreamInvariant, PTL DEF AudioSpec
<1> QED BY <1>2, <1>3 DEF PlaysExact, Stream!EndAfterLastFrame, Stream!SeeksStand
=============================================================================
