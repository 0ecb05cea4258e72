--------------------------- MODULE ProgressProofs ---------------------------
(***************************************************************************)
(* Three of the parts of Progress, for every value of the constants.       *)
(*                                                                         *)
(* Loading: the loader touches only what is there, and the decoder pool    *)
(* always has one to spare.  The log: its lines are kept in order, whoever *)
(* writes them, and a fault's dump comes after what was logged before it.  *)
(* The pad: the game sees one finger at a time.                            *)
(***************************************************************************)
EXTENDS Progress, FiniteSetTheorems, SequenceTheorems, TLAPS

Streams == Load!Streams

-----------------------------------------------------------------------------
(* Where a stream can be while it loads.                                   *)

\* The loader has taken a job and not cleared it yet.
Busy == lpc \in {"test", "read", "close", "done", "clear"}
\* The game has a stream of its own in hand; before that, an unused one.
Fresh == gameAt \in {"count", "queue", "signal", "alloc", "unwind", "uncount"}
Unmade == gameAt \in {"cap", "decoder", "whole"}
Releasing == gameAt \in {"release", "waiting", "detach"}

LoadTyped ==
  /\ cur \in 0 .. NStreams /\ job \in 0 .. NStreams
  /\ hw \in [Streams -> BOOLEAN] /\ holds \in [Streams -> BOOLEAN]
  /\ mem \in [Streams -> {"free", "live", "closing"}]
  /\ file \in [Streams -> {"none", "open", "closed"}]
  /\ loading \in [Streams -> BOOLEAN] /\ cancel \in [Streams -> BOOLEAN]
  /\ visible \subseteq Streams /\ retire \subseteq Streams
  /\ closing \subseteq Streams /\ fed \subseteq Streams
  /\ jobs \in Seq(Streams) /\ sema \in Nat
  /\ left \in 0 .. Chunks /\ (lpc = "read" => left # 0)
  /\ lpc \in {"wait", "take", "test", "read", "close", "done", "clear"}
  /\ gameAt \in {"idle", "cap", "decoder", "count", "queue", "signal", "alloc", "whole",
                 "unwind", "uncount", "release", "waiting", "detach"}
  /\ audioAt \in {"snapshot", "close", "free"}
  /\ gameAt # "idle" => cur \in Streams
  /\ Busy => job \in Streams

\* The semaphore counts the jobs queued, but for the one being signalled or taken.
SemaCounts ==
  /\ sema + (IF gameAt = "signal" THEN 1 ELSE 0) + (IF lpc = "take" THEN 1 ELSE 0) = Len(jobs)
  /\ Len(jobs) <= MaxJobs

\* Who loads, once each, and with its file open until the loader closes it.
JobsLoad ==
  /\ \A i \in 1 .. Len(jobs) : loading[jobs[i]] /\ file[jobs[i]] = "open"
  /\ \A i, k \in 1 .. Len(jobs) : jobs[i] = jobs[k] => i = k
  /\ Busy => loading[job] /\ \A i \in 1 .. Len(jobs) : jobs[i] # job
  /\ lpc \in {"test", "read", "close"} => file[job] = "open"
  /\ lpc \in {"done", "clear"} => file[job] # "open"

\* Whose a live stream is: the game's, a Snd's, or on its way to be closed.
StreamsHeld ==
  /\ \A s \in visible \cup retire \cup closing : mem[s] = "live"
  /\ visible \cap retire = {} /\ visible \cap closing = {} /\ retire \cap closing = {}
  /\ Unmade => mem[cur] = "free"
  /\ Fresh => mem[cur] = "live" /\ cur \notin visible \cup retire \cup closing
  /\ Releasing => cur \in visible

\* A stream that loads is live and nobody's to close; what is open is being loaded, or
\* still in the hands of the call that opened it.
LoadsWhileHeld ==
  /\ \A s \in Streams : loading[s] => mem[s] = "live" /\ s \notin retire \cup closing
  /\ gameAt \in {"count", "queue", "uncount", "detach"} => ~loading[cur]
  /\ gameAt = "queue" => file[cur] = "open"
  /\ \A s \in Streams : file[s] = "open" =>
       \/ loading[s]
       \/ s = cur /\ gameAt \in {"cap", "decoder", "count", "queue", "whole"}

\* What g_stream_decoders counts, and what is held besides.
Counted == {s \in Streams : hw[s] /\ mem[s] # "free" /\ ~(gameAt = "count" /\ s = cur)}

DecodersCounted ==
  /\ decoders = Cardinality(Counted) /\ decoders <= StreamMax
  /\ gameAt \in {"decoder", "count"} /\ hw[cur] => decoders < StreamMax
  /\ \A s \in Streams : holds[s] => hw[s] /\ mem[s] = "live"
  /\ gameAt = "uncount" => ~holds[cur]

LoadIInv ==
  /\ LoadTyped /\ SemaCounts /\ JobsLoad /\ StreamsHeld /\ LoadsWhileHeld /\ DecodersCounted

USE DEF Streams
-----------------------------------------------------------------------------

LEMMA StreamsAreFinite == IsFiniteSet(Streams) /\ Streams \subseteq Int /\ 0 \notin Streams
<1>1. Streams = 1 .. NStreams BY DEF Load!Streams
<1> QED BY <1>1, FS_Interval, ProgressAssumption

LEMMA SameCardinality == \A S : Load!Cardinality(S) = Cardinality(S)
BY DEF Cardinality, Load!Cardinality

LEMMA LoadInit == Load!Init => LoadIInv
<1> SUFFICES ASSUME Load!Init PROVE LoadIInv OBVIOUS
<1> USE DEF Load!Init, Load!None, Load!Streams
<1>1. LoadTyped BY ProgressAssumption DEF LoadTyped, Busy
<1>2. SemaCounts /\ JobsLoad /\ StreamsHeld /\ LoadsWhileHeld
  BY ProgressAssumption DEF SemaCounts, JobsLoad, Busy, StreamsHeld, Unmade, Fresh, Releasing, LoadsWhileHeld
<1>3. Counted = {} BY DEF Counted
<1>4. DecodersCounted BY <1>3, FS_EmptySet, ProgressAssumption DEF DecodersCounted
<1> QED BY <1>1, <1>2, <1>4 DEF LoadIInv

\* What the invariant means for the properties the runs check.
LEMMA LoadImplies ==
  ASSUME LoadIInv PROVE LoadsOnLiveStream
<1> USE DEF LoadIInv
<1>1. decoders \in 0 .. StreamMax
  <2>1. IsFiniteSet(Counted) BY StreamsAreFinite, FS_Subset DEF Counted
  <2> QED BY <2>1, FS_CardinalityType, ProgressAssumption DEF DecodersCounted
<1>2. sema \in 0 .. MaxJobs /\ Len(jobs) <= MaxJobs
  BY ProgressAssumption, LenProperties DEF SemaCounts, LoadTyped
<1>3. Load!TypeOK BY <1>1, <1>2 DEF Load!TypeOK, LoadTyped
<1>4. Load!LoaderOnLiveStream
  BY <1>3 DEF Load!LoaderOnLiveStream, Load!FilesClosed, LoadsWhileHeld, JobsLoad, LoadTyped, Busy
<1>5. Load!SpareDecoder
  <2> DEFINE Mine == IF gameAt = "count" /\ hw[cur] THEN {cur} ELSE {}
  <2>1. Load!Held \subseteq Counted \cup Mine
    BY DEF Load!Held, Counted, DecodersCounted
  <2>2. IsFiniteSet(Counted) /\ IsFiniteSet(Mine)
    BY StreamsAreFinite, FS_Subset, FS_Singleton, FS_EmptySet DEF Counted
  <2>3. Cardinality(Mine) = (IF gameAt = "count" /\ hw[cur] THEN 1 ELSE 0)
    BY FS_Singleton, FS_EmptySet
  <2>4. Counted \cap Mine = {} BY DEF Counted
  <2>5. Cardinality(Counted \cup Mine) = Cardinality(Counted) + Cardinality(Mine)
    <3>1. Cardinality(Counted \cap Mine) = 0 BY <2>4, FS_EmptySet
    <3>2. Cardinality(Counted) \in Nat /\ Cardinality(Mine) \in Nat BY <2>2, FS_CardinalityType
    <3>3. Cardinality(Counted \cup Mine)
            = Cardinality(Counted) + Cardinality(Mine) - Cardinality(Counted \cap Mine)
      BY <2>2, FS_Union
    <3> QED BY <3>1, <3>2, <3>3
  <2>6. Cardinality(Load!Held) <= Cardinality(Counted \cup Mine)
    BY <2>1, <2>2, FS_Union, FS_Subset
  <2>7. Cardinality(Counted) \in Nat /\ Cardinality(Load!Held) \in Nat
    BY <2>2, <2>1, FS_Union, FS_Subset, FS_CardinalityType
  <2>8. Cardinality(Counted) + Cardinality(Mine) <= StreamMax
    <3> HIDE DEF Mine
    <3>1. CASE gameAt = "count" /\ hw[cur]
      BY <3>1, <2>3, <2>7, ProgressAssumption DEF DecodersCounted
    <3>2. CASE ~(gameAt = "count" /\ hw[cur])
      BY <3>2, <2>3, <2>7, ProgressAssumption DEF DecodersCounted
    <3> QED BY <3>1, <3>2
  <2>9. Cardinality(Mine) \in Nat BY <2>2, FS_CardinalityType
  <2> HIDE DEF Mine
  <2>10. Cardinality(Load!Held) <= StreamMax
    BY ONLY <2>9, <2>5, <2>6, <2>7, <2>8, ProgressAssumption
  <2> QED BY <2>10, SameCardinality DEF Load!SpareDecoder
<1> QED BY <1>4, <1>5 DEF LoadsOnLiveStream


LEMMA StreamsRange == 0 \in 0 .. NStreams /\ \A s \in Streams : s \in 0 .. NStreams
<1> QED BY ProgressAssumption DEF Load!Streams

\* What taking the oldest job and queueing one more make of the queue.
LEMMA Taken ==
  ASSUME LoadTyped, jobs # <<>>
  PROVE  /\ Tail(jobs) \in Seq(Streams) /\ Len(Tail(jobs)) = Len(jobs) - 1
         /\ Len(jobs) \in Nat /\ Len(jobs) >= 1 /\ Head(jobs) = jobs[1] /\ jobs[1] \in Streams
         /\ \A i \in 1 .. Len(jobs) - 1 : Tail(jobs)[i] = jobs[i + 1] /\ i + 1 \in 1 .. Len(jobs)
<1>1. jobs \in Seq(Streams) BY DEF LoadTyped
<1> QED BY <1>1, HeadTailProperties, LenProperties, EmptySeq

LEMMA Queued ==
  ASSUME LoadTyped, cur \in Streams
  PROVE  /\ Append(jobs, cur) \in Seq(Streams) /\ Len(Append(jobs, cur)) = Len(jobs) + 1
         /\ Len(jobs) \in Nat /\ Append(jobs, cur)[Len(jobs) + 1] = cur
         /\ \A i \in 1 .. Len(jobs) : Append(jobs, cur)[i] = jobs[i]
<1>1. jobs \in Seq(Streams) BY DEF LoadTyped
<1> QED BY <1>1, AppendProperties, LenProperties

LEMMA LoadTypedStep == ASSUME LoadIInv, Load!Next PROVE LoadTyped'
<1> USE StreamsRange, ProgressAssumption DEF LoadIInv, Load!stream, Load!loader, Load!game, Load!audio, LoadTyped, Busy, Load!None, Load!Set, Load!Freed, JobsLoad, SemaCounts, Load!Unused
<1>1. CASE Load!WaitSema BY <1>1 DEF Load!WaitSema
<1>2. CASE Load!Take
  <2>1. jobs # <<>> BY <1>2, LenProperties DEF Load!Take
  <2> QED BY <1>2, <2>1, Taken DEF Load!Take
<1>3. CASE Load!Test BY <1>3 DEF Load!Test
<1>4. CASE Load!Read BY <1>4 DEF Load!Read
<1>5. CASE Load!CloseFile BY <1>5 DEF Load!CloseFile
<1>6. CASE Load!Done BY <1>6 DEF Load!Done
<1>7. CASE Load!Clear BY <1>7 DEF Load!Clear
<1>8. CASE Load!Open BY <1>8 DEF Load!Open
<1>9. CASE Load!Release BY <1>9 DEF Load!Release
<1>10. CASE Load!Cap BY <1>10 DEF Load!Cap
<1>11. CASE Load!OpenDecoder
  <2>1. mem' \in [Streams -> {"free", "live", "closing"}] /\ holds' \in [Streams -> BOOLEAN]
    <3>1. cur \in Streams /\ hw[cur] \in BOOLEAN BY <1>11 DEF Load!OpenDecoder
    <3>2. CASE mem' = mem /\ holds' = holds BY <3>2
    <3>3. CASE /\ mem' = [mem EXCEPT ![cur] = "live"]
               /\ holds' = [holds EXCEPT ![cur] = hw[cur]]
      BY <3>1, <3>3
    <3> QED BY <1>11, <3>2, <3>3 DEF Load!OpenDecoder
  <2>2. gameAt' \in {"count", "whole"} BY <1>11 DEF Load!OpenDecoder
  <2> QED BY <1>11, <2>1, <2>2 DEF Load!OpenDecoder
<1>12. CASE Load!CountDecoder BY <1>12 DEF Load!CountDecoder
<1>13. CASE Load!Queue
  <2>1. jobs' \in Seq(Streams) BY <1>13, Queued DEF Load!Queue
  <2>2. loading' \in [Streams -> BOOLEAN] /\ file' \in [Streams -> {"none", "open", "closed"}]
    <3>1. cur \in Streams BY <1>13 DEF Load!Queue
    <3>2. CASE loading' = [loading EXCEPT ![cur] = TRUE] /\ file' = file BY <3>1, <3>2
    <3>3. CASE file' = [file EXCEPT ![cur] = "closed"] /\ loading' = loading BY <3>1, <3>3
    <3> QED BY <1>13, <3>2, <3>3 DEF Load!Queue
  <2>3. gameAt' \in {"signal", "alloc"} BY <1>13 DEF Load!Queue
  <2> QED BY <1>13, <2>1, <2>2, <2>3 DEF Load!Queue
<1>14. CASE Load!Signal BY <1>14 DEF Load!Signal
<1>15. CASE Load!AllocSnd BY <1>15 DEF Load!AllocSnd
<1>16. CASE Load!DecodeWhole BY <1>16 DEF Load!DecodeWhole
<1>17. CASE Load!UnwindCancel BY <1>17 DEF Load!UnwindCancel
<1>18. CASE Load!UnwindDecoder BY <1>18 DEF Load!UnwindDecoder
<1>19. CASE Load!UnwindFree BY <1>19 DEF Load!UnwindFree
<1>20. CASE Load!StopLoad BY <1>20 DEF Load!StopLoad
<1>21. CASE Load!LoadStopped BY <1>21 DEF Load!LoadStopped
<1>22. CASE Load!Detach BY <1>22 DEF Load!Detach
<1>23. CASE Load!Snapshot BY <1>23 DEF Load!Snapshot
<1>24. CASE Load!CloseDecoder BY <1>24 DEF Load!CloseDecoder
<1>25. CASE Load!CloseFree BY <1>25 DEF Load!CloseFree
<1>26. CASE Load!DecodeAndMix BY <1>26 DEF Load!DecodeAndMix
<1> QED BY <1>1, <1>2, <1>3, <1>4, <1>5, <1>6, <1>7, <1>8, <1>9, <1>10, <1>11, <1>12, <1>13, <1>14, <1>15, <1>16, <1>17, <1>18, <1>19, <1>20, <1>21, <1>22, <1>23, <1>24, <1>25, <1>26 DEF Load!Next, Load!Loader, Load!Calls, Load!Calling, Load!Audio

LEMMA SemaCountsStep == ASSUME LoadIInv, Load!Next PROVE SemaCounts'
<1> USE DEF LoadIInv, Load!stream, Load!loader, Load!game, Load!audio, LoadTyped, SemaCounts
<1>1. CASE Load!WaitSema BY <1>1 DEF Load!WaitSema
<1>2. CASE Load!Take
  <2>1. jobs # <<>> BY <1>2, LenProperties DEF Load!Take
  <2>2. Len(jobs') = Len(jobs) - 1 /\ Len(jobs) \in Nat BY <1>2, <2>1, Taken DEF Load!Take
  <2> QED BY <1>2, <2>2, ProgressAssumption DEF Load!Take
<1>3. CASE Load!Test BY <1>3 DEF Load!Test
<1>4. CASE Load!Read BY <1>4 DEF Load!Read
<1>5. CASE Load!CloseFile BY <1>5 DEF Load!CloseFile
<1>6. CASE Load!Done BY <1>6 DEF Load!Done
<1>7. CASE Load!Clear BY <1>7 DEF Load!Clear
<1>8. CASE Load!Open BY <1>8 DEF Load!Open
<1>9. CASE Load!Release BY <1>9 DEF Load!Release
<1>10. CASE Load!Cap BY <1>10 DEF Load!Cap
<1>11. CASE Load!OpenDecoder BY <1>11 DEF Load!OpenDecoder
<1>12. CASE Load!CountDecoder BY <1>12 DEF Load!CountDecoder
<1>13. CASE Load!Queue
  <2>1. CASE ~(Len(jobs) < MaxJobs) BY <1>13, <2>1 DEF Load!Queue
  <2>2. CASE Len(jobs) < MaxJobs
    <3>1. Len(jobs') = Len(jobs) + 1 /\ Len(jobs) \in Nat BY <1>13, <2>2, Queued DEF Load!Queue
    <3> QED BY <1>13, <2>2, <3>1, ProgressAssumption DEF Load!Queue
  <2> QED BY <1>13, <2>1, <2>2 DEF Load!Queue
<1>14. CASE Load!Signal BY <1>14 DEF Load!Signal
<1>15. CASE Load!AllocSnd BY <1>15 DEF Load!AllocSnd
<1>16. CASE Load!DecodeWhole BY <1>16 DEF Load!DecodeWhole
<1>17. CASE Load!UnwindCancel BY <1>17 DEF Load!UnwindCancel
<1>18. CASE Load!UnwindDecoder BY <1>18 DEF Load!UnwindDecoder
<1>19. CASE Load!UnwindFree BY <1>19 DEF Load!UnwindFree
<1>20. CASE Load!StopLoad BY <1>20 DEF Load!StopLoad
<1>21. CASE Load!LoadStopped BY <1>21 DEF Load!LoadStopped
<1>22. CASE Load!Detach BY <1>22 DEF Load!Detach
<1>23. CASE Load!Snapshot BY <1>23 DEF Load!Snapshot
<1>24. CASE Load!CloseDecoder BY <1>24 DEF Load!CloseDecoder
<1>25. CASE Load!CloseFree BY <1>25 DEF Load!CloseFree
<1>26. CASE Load!DecodeAndMix BY <1>26 DEF Load!DecodeAndMix
<1> QED BY <1>1, <1>2, <1>3, <1>4, <1>5, <1>6, <1>7, <1>8, <1>9, <1>10, <1>11, <1>12, <1>13, <1>14, <1>15, <1>16, <1>17, <1>18, <1>19, <1>20, <1>21, <1>22, <1>23, <1>24, <1>25, <1>26 DEF Load!Next, Load!Loader, Load!Calls, Load!Calling, Load!Audio

LEMMA JobsLoadStep == ASSUME LoadIInv, Load!Next PROVE JobsLoad'
<1> USE DEF LoadIInv, Unmade, Load!Unused, SemaCounts, Load!stream, Load!loader, Load!game, Load!audio, LoadTyped, JobsLoad, Busy, Load!Set, Load!Freed, LoadsWhileHeld, StreamsHeld
<1>1. CASE Load!WaitSema BY <1>1 DEF Load!WaitSema
<1>2. CASE Load!Take
  <2>1. jobs # <<>> BY <1>2, LenProperties DEF Load!Take
  <2>2. /\ job' = jobs[1] /\ Len(jobs) \in Nat /\ Len(jobs) >= 1 /\ Len(jobs') = Len(jobs) - 1
        /\ \A i \in 1 .. Len(jobs) - 1 : jobs'[i] = jobs[i + 1] /\ i + 1 \in 1 .. Len(jobs)
    BY <1>2, <2>1, Taken DEF Load!Take
  <2>3. loading' = loading /\ file' = file /\ lpc' = "test" BY <1>2 DEF Load!Take
  <2>4. \A i \in 1 .. Len(jobs') : loading[jobs'[i]] /\ file[jobs'[i]] = "open"
    BY <2>2
  <2>5. \A i, k \in 1 .. Len(jobs') : jobs'[i] = jobs'[k] => i = k
    BY <2>2
  <2>6. \A i \in 1 .. Len(jobs') : jobs'[i] # jobs[1]
    BY <2>2
  <2> QED BY <2>2, <2>3, <2>4, <2>5, <2>6
<1>3. CASE Load!Test BY <1>3 DEF Load!Test
<1>4. CASE Load!Read BY <1>4 DEF Load!Read
<1>5. CASE Load!CloseFile BY <1>5 DEF Load!CloseFile
<1>6. CASE Load!Done BY <1>6 DEF Load!Done
<1>7. CASE Load!Clear BY <1>7 DEF Load!Clear
<1>8. CASE Load!Open BY <1>8 DEF Load!Open
<1>9. CASE Load!Release BY <1>9 DEF Load!Release
<1>10. CASE Load!Cap BY <1>10 DEF Load!Cap
<1>11. CASE Load!OpenDecoder BY <1>11 DEF Load!OpenDecoder
<1>12. CASE Load!CountDecoder BY <1>12 DEF Load!CountDecoder
<1>13. CASE Load!Queue
  <2>1. CASE ~(Len(jobs) < MaxJobs) BY <1>13, <2>1 DEF Load!Queue
  <2>2. CASE Len(jobs) < MaxJobs
    <3>1. /\ Len(jobs') = Len(jobs) + 1 /\ Len(jobs) \in Nat /\ jobs'[Len(jobs) + 1] = cur
          /\ \A i \in 1 .. Len(jobs) : jobs'[i] = jobs[i]
      BY <1>13, <2>2, Queued DEF Load!Queue
    <3>2. /\ file' = file /\ lpc' = lpc /\ job' = job /\ file[cur] = "open" /\ ~loading[cur]
          /\ loading' = [loading EXCEPT ![cur] = TRUE] /\ cur \in Streams
      BY <1>13, <2>2, <3>1 DEF Load!Queue
    <3>3. \A i \in 1 .. Len(jobs) : jobs[i] # cur /\ loading'[jobs[i]] /\ file'[jobs[i]] = "open"
      BY <3>2, Queued
    <3>4. loading'[cur] /\ (Busy => job # cur) BY <3>2
    <3>5. \A i \in 1 .. Len(jobs') : i = Len(jobs) + 1 \/ i \in 1 .. Len(jobs) BY <3>1
    <3>6. \A i \in 1 .. Len(jobs') : loading'[jobs'[i]] /\ file'[jobs'[i]] = "open"
      BY <3>1, <3>2, <3>3, <3>4, <3>5
    <3>7. \A i, k \in 1 .. Len(jobs') : jobs'[i] = jobs'[k] => i = k
      BY <3>1, <3>3, <3>5
    <3>8. Busy => loading'[job] /\ \A i \in 1 .. Len(jobs') : jobs'[i] # job
      BY <3>1, <3>2, <3>4, <3>5
    <3> QED BY <3>2, <3>6, <3>7, <3>8
  <2> QED BY <1>13, <2>1, <2>2 DEF Load!Queue
<1>14. CASE Load!Signal BY <1>14 DEF Load!Signal
<1>15. CASE Load!AllocSnd BY <1>15 DEF Load!AllocSnd
<1>16. CASE Load!DecodeWhole BY <1>16 DEF Load!DecodeWhole
<1>17. CASE Load!UnwindCancel BY <1>17 DEF Load!UnwindCancel
<1>18. CASE Load!UnwindDecoder BY <1>18 DEF Load!UnwindDecoder
<1>19. CASE Load!UnwindFree BY <1>19 DEF Load!UnwindFree
<1>20. CASE Load!StopLoad BY <1>20 DEF Load!StopLoad
<1>21. CASE Load!LoadStopped BY <1>21 DEF Load!LoadStopped
<1>22. CASE Load!Detach BY <1>22 DEF Load!Detach
<1>23. CASE Load!Snapshot BY <1>23 DEF Load!Snapshot
<1>24. CASE Load!CloseDecoder BY <1>24 DEF Load!CloseDecoder
<1>25. CASE Load!CloseFree BY <1>25 DEF Load!CloseFree
<1>26. CASE Load!DecodeAndMix BY <1>26 DEF Load!DecodeAndMix
<1> QED BY <1>1, <1>2, <1>3, <1>4, <1>5, <1>6, <1>7, <1>8, <1>9, <1>10, <1>11, <1>12, <1>13, <1>14, <1>15, <1>16, <1>17, <1>18, <1>19, <1>20, <1>21, <1>22, <1>23, <1>24, <1>25, <1>26 DEF Load!Next, Load!Loader, Load!Calls, Load!Calling, Load!Audio

LEMMA StreamsHeldStep == ASSUME LoadIInv, Load!Next PROVE StreamsHeld'
<1> USE DEF LoadIInv, Load!stream, Load!loader, Load!game, Load!audio, LoadTyped, StreamsHeld, Unmade, Fresh, Releasing, Load!Set, Load!Freed, LoadsWhileHeld, Load!Unused, Load!None
<1>1. CASE Load!WaitSema BY <1>1 DEF Load!WaitSema
<1>2. CASE Load!Take BY <1>2 DEF Load!Take
<1>3. CASE Load!Test BY <1>3 DEF Load!Test
<1>4. CASE Load!Read BY <1>4 DEF Load!Read
<1>5. CASE Load!CloseFile BY <1>5 DEF Load!CloseFile
<1>6. CASE Load!Done BY <1>6 DEF Load!Done
<1>7. CASE Load!Clear BY <1>7 DEF Load!Clear
<1>8. CASE Load!Open BY <1>8 DEF Load!Open
<1>9. CASE Load!Release BY <1>9 DEF Load!Release
<1>10. CASE Load!Cap BY <1>10 DEF Load!Cap
<1>11. CASE Load!OpenDecoder BY <1>11 DEF Load!OpenDecoder
<1>12. CASE Load!CountDecoder BY <1>12 DEF Load!CountDecoder
<1>13. CASE Load!Queue BY <1>13 DEF Load!Queue
<1>14. CASE Load!Signal BY <1>14 DEF Load!Signal
<1>15. CASE Load!AllocSnd BY <1>15 DEF Load!AllocSnd
<1>16. CASE Load!DecodeWhole BY <1>16 DEF Load!DecodeWhole
<1>17. CASE Load!UnwindCancel BY <1>17 DEF Load!UnwindCancel
<1>18. CASE Load!UnwindDecoder BY <1>18 DEF Load!UnwindDecoder
<1>19. CASE Load!UnwindFree BY <1>19 DEF Load!UnwindFree
<1>20. CASE Load!StopLoad BY <1>20 DEF Load!StopLoad
<1>21. CASE Load!LoadStopped BY <1>21 DEF Load!LoadStopped
<1>22. CASE Load!Detach BY <1>22 DEF Load!Detach
<1>23. CASE Load!Snapshot BY <1>23 DEF Load!Snapshot
<1>24. CASE Load!CloseDecoder BY <1>24 DEF Load!CloseDecoder
<1>25. CASE Load!CloseFree BY <1>25 DEF Load!CloseFree
<1>26. CASE Load!DecodeAndMix BY <1>26 DEF Load!DecodeAndMix
<1> QED BY <1>1, <1>2, <1>3, <1>4, <1>5, <1>6, <1>7, <1>8, <1>9, <1>10, <1>11, <1>12, <1>13, <1>14, <1>15, <1>16, <1>17, <1>18, <1>19, <1>20, <1>21, <1>22, <1>23, <1>24, <1>25, <1>26 DEF Load!Next, Load!Loader, Load!Calls, Load!Calling, Load!Audio

LEMMA LoadsWhileHeldStep == ASSUME LoadIInv, Load!Next PROVE LoadsWhileHeld'
<1> USE DEF LoadIInv, Load!stream, Load!loader, Load!game, Load!audio, LoadTyped, LoadsWhileHeld, StreamsHeld, Unmade, Fresh, Releasing, Busy, JobsLoad, Load!Set, Load!Freed, Load!Unused, Load!None
<1>1. CASE Load!WaitSema BY <1>1 DEF Load!WaitSema
<1>2. CASE Load!Take BY <1>2 DEF Load!Take
<1>3. CASE Load!Test BY <1>3 DEF Load!Test
<1>4. CASE Load!Read BY <1>4 DEF Load!Read
<1>5. CASE Load!CloseFile BY <1>5 DEF Load!CloseFile
<1>6. CASE Load!Done BY <1>6 DEF Load!Done
<1>7. CASE Load!Clear BY <1>7 DEF Load!Clear
<1>8. CASE Load!Open BY <1>8 DEF Load!Open
<1>9. CASE Load!Release BY <1>9 DEF Load!Release
<1>10. CASE Load!Cap BY <1>10 DEF Load!Cap
<1>11. CASE Load!OpenDecoder BY <1>11 DEF Load!OpenDecoder
<1>12. CASE Load!CountDecoder BY <1>12 DEF Load!CountDecoder
<1>13. CASE Load!Queue BY <1>13 DEF Load!Queue
<1>14. CASE Load!Signal BY <1>14 DEF Load!Signal
<1>15. CASE Load!AllocSnd BY <1>15 DEF Load!AllocSnd
<1>16. CASE Load!DecodeWhole BY <1>16 DEF Load!DecodeWhole
<1>17. CASE Load!UnwindCancel BY <1>17 DEF Load!UnwindCancel
<1>18. CASE Load!UnwindDecoder BY <1>18 DEF Load!UnwindDecoder
<1>19. CASE Load!UnwindFree BY <1>19 DEF Load!UnwindFree
<1>20. CASE Load!StopLoad BY <1>20 DEF Load!StopLoad
<1>21. CASE Load!LoadStopped BY <1>21 DEF Load!LoadStopped
<1>22. CASE Load!Detach BY <1>22 DEF Load!Detach
<1>23. CASE Load!Snapshot BY <1>23 DEF Load!Snapshot
<1>24. CASE Load!CloseDecoder BY <1>24 DEF Load!CloseDecoder
<1>25. CASE Load!CloseFree BY <1>25 DEF Load!CloseFree
<1>26. CASE Load!DecodeAndMix BY <1>26 DEF Load!DecodeAndMix
<1> QED BY <1>1, <1>2, <1>3, <1>4, <1>5, <1>6, <1>7, <1>8, <1>9, <1>10, <1>11, <1>12, <1>13, <1>14, <1>15, <1>16, <1>17, <1>18, <1>19, <1>20, <1>21, <1>22, <1>23, <1>24, <1>25, <1>26 DEF Load!Next, Load!Loader, Load!Calls, Load!Calling, Load!Audio


\* Removing one that is counted, adding one that is not.
LEMMA CountedOnce ==
  ASSUME LoadIInv, NEW s \in Streams
  PROVE  /\ Cardinality(Counted) \in Nat
         /\ s \in Counted => /\ Cardinality(Counted \ {s}) = Cardinality(Counted) - 1
                           /\ Cardinality(Counted) >= 1
         /\ s \notin Counted => Cardinality(Counted \cup {s}) = Cardinality(Counted) + 1
<1>1. IsFiniteSet(Counted) BY StreamsAreFinite, FS_Subset DEF Counted
<1>2. s \in Counted => Cardinality(Counted) # 0 BY <1>1, FS_EmptySet
<1> QED BY <1>1, <1>2, FS_RemoveElement, FS_AddElement, FS_CardinalityType

LEMMA DecodersCountedStep == ASSUME LoadIInv, Load!Next PROVE DecodersCounted'
<1> USE ProgressAssumption DEF LoadIInv, Load!stream, Load!loader, Load!game, Load!audio, LoadTyped, DecodersCounted, StreamsHeld, Unmade, Fresh, Releasing
<1>1. CASE Load!WaitSema
  <2>1. Counted' = Counted BY <1>1 DEF Load!WaitSema, Counted, Load!Set, Load!Freed, Load!Uncounted, Load!Unused, Load!None, Load!Room
  <2> QED BY <1>1, <2>1 DEF Load!WaitSema, Load!Set, Load!Freed, Load!Uncounted, Load!Unused, Load!None, Load!Room
<1>2. CASE Load!Take
  <2>1. Counted' = Counted BY <1>2 DEF Load!Take, Counted, Load!Set, Load!Freed, Load!Uncounted, Load!Unused, Load!None, Load!Room
  <2> QED BY <1>2, <2>1 DEF Load!Take, Load!Set, Load!Freed, Load!Uncounted, Load!Unused, Load!None, Load!Room
<1>3. CASE Load!Test
  <2>1. Counted' = Counted BY <1>3 DEF Load!Test, Counted, Load!Set, Load!Freed, Load!Uncounted, Load!Unused, Load!None, Load!Room
  <2> QED BY <1>3, <2>1 DEF Load!Test, Load!Set, Load!Freed, Load!Uncounted, Load!Unused, Load!None, Load!Room
<1>4. CASE Load!Read
  <2>1. Counted' = Counted BY <1>4 DEF Load!Read, Counted, Load!Set, Load!Freed, Load!Uncounted, Load!Unused, Load!None, Load!Room
  <2> QED BY <1>4, <2>1 DEF Load!Read, Load!Set, Load!Freed, Load!Uncounted, Load!Unused, Load!None, Load!Room
<1>5. CASE Load!CloseFile
  <2>1. Counted' = Counted BY <1>5 DEF Load!CloseFile, Counted, Load!Set, Load!Freed, Load!Uncounted, Load!Unused, Load!None, Load!Room
  <2> QED BY <1>5, <2>1 DEF Load!CloseFile, Load!Set, Load!Freed, Load!Uncounted, Load!Unused, Load!None, Load!Room
<1>6. CASE Load!Done
  <2>1. Counted' = Counted BY <1>6 DEF Load!Done, Counted, Load!Set, Load!Freed, Load!Uncounted, Load!Unused, Load!None, Load!Room
  <2> QED BY <1>6, <2>1 DEF Load!Done, Load!Set, Load!Freed, Load!Uncounted, Load!Unused, Load!None, Load!Room
<1>7. CASE Load!Clear
  <2>1. Counted' = Counted BY <1>7 DEF Load!Clear, Counted, Load!Set, Load!Freed, Load!Uncounted, Load!Unused, Load!None, Load!Room
  <2> QED BY <1>7, <2>1 DEF Load!Clear, Load!Set, Load!Freed, Load!Uncounted, Load!Unused, Load!None, Load!Room
<1>8. CASE Load!Open
  <2>1. Counted' = Counted BY <1>8 DEF Load!Open, Counted, Load!Set, Load!Freed, Load!Uncounted, Load!Unused, Load!None, Load!Room
  <2> QED BY <1>8, <2>1 DEF Load!Open, Load!Set, Load!Freed, Load!Uncounted, Load!Unused, Load!None, Load!Room
<1>9. CASE Load!Release
  <2>1. Counted' = Counted BY <1>9 DEF Load!Release, Counted, Load!Set, Load!Freed, Load!Uncounted, Load!Unused, Load!None, Load!Room
  <2> QED BY <1>9, <2>1 DEF Load!Release, Load!Set, Load!Freed, Load!Uncounted, Load!Unused, Load!None, Load!Room
<1>10. CASE Load!Cap
  <2>1. Counted' = Counted BY <1>10 DEF Load!Cap, Counted, Load!Set, Load!Freed, Load!Uncounted, Load!Unused, Load!None, Load!Room
  <2> QED BY <1>10, <2>1 DEF Load!Cap, Load!Set, Load!Freed, Load!Uncounted, Load!Unused, Load!None, Load!Room
<1>11. CASE Load!OpenDecoder
  <2>1. Counted' = Counted BY <1>11 DEF Load!OpenDecoder, Counted, Load!Set
  <2> QED BY <1>11, <2>1 DEF Load!OpenDecoder, Load!Set
<1>12. CASE Load!CountDecoder
  <2>1. cur \in Streams /\ cur \notin Counted BY <1>12 DEF Load!CountDecoder, Counted
  <2>2. Counted' = (IF hw[cur] THEN Counted \cup {cur} ELSE Counted)
    BY <1>12 DEF Load!CountDecoder, Counted
  <2>3. decoders = Cardinality(Counted) /\ decoders <= StreamMax /\ (hw[cur] => decoders < StreamMax)
    BY <1>12 DEF Load!CountDecoder
  <2>4. decoders' = (IF hw[cur] THEN decoders + 1 ELSE decoders)
    <3>1. decoders \in Nat BY <2>3, <2>1, CountedOnce
    <3> QED BY <1>12, <3>1 DEF Load!CountDecoder
  <2>5. Cardinality(Counted) \in Nat
        /\ (hw[cur] => Cardinality(Counted \cup {cur}) = Cardinality(Counted) + 1)
    BY <2>1, CountedOnce
  <2>6. decoders' = Cardinality(Counted') /\ decoders' <= StreamMax
    BY ONLY <2>2, <2>3, <2>4, <2>5, StreamMax \in Nat
  <2> QED BY <1>12, <2>6 DEF Load!CountDecoder
<1>13. CASE Load!Queue
  <2>1. Counted' = Counted BY <1>13 DEF Load!Queue, Counted, Load!Set, Load!Freed, Load!Uncounted, Load!Unused, Load!None, Load!Room
  <2> QED BY <1>13, <2>1 DEF Load!Queue, Load!Set, Load!Freed, Load!Uncounted, Load!Unused, Load!None, Load!Room
<1>14. CASE Load!Signal
  <2>1. Counted' = Counted BY <1>14 DEF Load!Signal, Counted, Load!Set, Load!Freed, Load!Uncounted, Load!Unused, Load!None, Load!Room
  <2> QED BY <1>14, <2>1 DEF Load!Signal, Load!Set, Load!Freed, Load!Uncounted, Load!Unused, Load!None, Load!Room
<1>15. CASE Load!AllocSnd
  <2>1. Counted' = Counted BY <1>15 DEF Load!AllocSnd, Counted, Load!Set, Load!Freed, Load!Uncounted, Load!Unused, Load!None, Load!Room
  <2> QED BY <1>15, <2>1 DEF Load!AllocSnd, Load!Set, Load!Freed, Load!Uncounted, Load!Unused, Load!None, Load!Room
<1>16. CASE Load!DecodeWhole
  <2>1. Counted' = Counted BY <1>16 DEF Load!DecodeWhole, Counted, Load!Set, Load!Freed, Load!Uncounted, Load!Unused, Load!None, Load!Room
  <2> QED BY <1>16, <2>1 DEF Load!DecodeWhole, Load!Set, Load!Freed, Load!Uncounted, Load!Unused, Load!None, Load!Room
<1>17. CASE Load!UnwindCancel
  <2>1. Counted' = Counted BY <1>17 DEF Load!UnwindCancel, Counted, Load!Set, Load!Freed, Load!Uncounted, Load!Unused, Load!None, Load!Room
  <2> QED BY <1>17, <2>1 DEF Load!UnwindCancel, Load!Set, Load!Freed, Load!Uncounted, Load!Unused, Load!None, Load!Room
<1>18. CASE Load!UnwindDecoder
  <2>1. Counted' = Counted BY <1>18 DEF Load!UnwindDecoder, Counted, Load!Set, Load!Freed, Load!Uncounted, Load!Unused, Load!None, Load!Room
  <2> QED BY <1>18, <2>1 DEF Load!UnwindDecoder, Load!Set, Load!Freed, Load!Uncounted, Load!Unused, Load!None, Load!Room
<1>19. CASE Load!UnwindFree
  <2>1. cur \in Streams /\ (hw[cur] => cur \in Counted) BY <1>19 DEF Load!UnwindFree, Counted
  <2>2. Counted' = (IF hw[cur] THEN Counted \ {cur} ELSE Counted)
    BY <1>19 DEF Load!UnwindFree, Counted, Load!Freed, Load!Set
  <2>3. /\ decoders = Cardinality(Counted) /\ decoders <= StreamMax /\ Cardinality(Counted) \in Nat
        /\ (hw[cur] => Cardinality(Counted \ {cur}) = Cardinality(Counted) - 1)
    BY <2>1, CountedOnce
  <2>4. decoders' = (IF hw[cur] THEN decoders - 1 ELSE decoders)
    <3>1. decoders' = decoders - (IF hw[cur] THEN 1 ELSE 0)
      BY <1>19 DEF Load!UnwindFree, Load!Uncounted
    <3> QED BY ONLY <3>1, <2>3
  <2>5. decoders' = Cardinality(Counted') /\ decoders' <= StreamMax
    BY ONLY <2>2, <2>3, <2>4, StreamMax \in Nat
  <2> QED BY <1>19, <2>5 DEF Load!UnwindFree, Load!Freed, Load!Set, Load!None
<1>20. CASE Load!StopLoad
  <2>1. Counted' = Counted BY <1>20 DEF Load!StopLoad, Counted, Load!Set, Load!Freed, Load!Uncounted, Load!Unused, Load!None, Load!Room
  <2> QED BY <1>20, <2>1 DEF Load!StopLoad, Load!Set, Load!Freed, Load!Uncounted, Load!Unused, Load!None, Load!Room
<1>21. CASE Load!LoadStopped
  <2>1. Counted' = Counted BY <1>21 DEF Load!LoadStopped, Counted, Load!Set, Load!Freed, Load!Uncounted, Load!Unused, Load!None, Load!Room
  <2> QED BY <1>21, <2>1 DEF Load!LoadStopped, Load!Set, Load!Freed, Load!Uncounted, Load!Unused, Load!None, Load!Room
<1>22. CASE Load!Detach
  <2>1. Counted' = Counted BY <1>22 DEF Load!Detach, Counted, Load!Set, Load!Freed, Load!Uncounted, Load!Unused, Load!None, Load!Room
  <2> QED BY <1>22, <2>1 DEF Load!Detach, Load!Set, Load!Freed, Load!Uncounted, Load!Unused, Load!None, Load!Room
<1>23. CASE Load!Snapshot
  <2>1. Counted' = Counted BY <1>23 DEF Load!Snapshot, Counted, Load!Set, Load!Freed, Load!Uncounted, Load!Unused, Load!None, Load!Room
  <2> QED BY <1>23, <2>1 DEF Load!Snapshot, Load!Set, Load!Freed, Load!Uncounted, Load!Unused, Load!None, Load!Room
<1>24. CASE Load!CloseDecoder
  <2>1. Counted' = Counted BY <1>24 DEF Load!CloseDecoder, Counted, Load!Set, Load!Freed, Load!Uncounted, Load!Unused, Load!None, Load!Room
  <2> QED BY <1>24, <2>1 DEF Load!CloseDecoder, Load!Set, Load!Freed, Load!Uncounted, Load!Unused, Load!None, Load!Room
<1>25. CASE Load!CloseFree
  <2>1. PICK s \in Streams : mem[s] = "closing" /\ decoders' = Load!Uncounted(s) /\ Load!Freed(s)
    BY <1>25 DEF Load!CloseFree
  <2>2. hw[s] => s \in Counted BY <1>25, <2>1 DEF Counted
  <2>3. Counted' = (IF hw[s] THEN Counted \ {s} ELSE Counted)
    BY <1>25, <2>1 DEF Load!CloseFree, Counted, Load!Freed, Load!Set
  <2>4. /\ decoders = Cardinality(Counted) /\ decoders <= StreamMax /\ Cardinality(Counted) \in Nat
        /\ (hw[s] => Cardinality(Counted \ {s}) = Cardinality(Counted) - 1)
    BY <2>2, CountedOnce
  <2>5. decoders' = Cardinality(Counted') /\ decoders' \in Int /\ decoders' <= decoders
    <3>1. decoders' = decoders - (IF hw[s] THEN 1 ELSE 0) BY <2>1 DEF Load!Uncounted
    <3> QED BY ONLY <2>3, <2>4, <3>1
  <2>6. /\ mem' = [mem EXCEPT ![s] = "free"] /\ hw' = [hw EXCEPT ![s] = FALSE] /\ holds' = holds
        /\ gameAt' = gameAt /\ cur' = cur
    BY <1>25, <2>1 DEF Load!CloseFree, Load!Freed, Load!Set
  <2>7. gameAt \in {"decoder", "count"} /\ hw'[cur] => decoders' < StreamMax
    <3>1. SUFFICES ASSUME gameAt \in {"decoder", "count"}, hw'[cur] PROVE decoders' < StreamMax
      OBVIOUS
    <3>2. hw[cur] /\ decoders < StreamMax BY <3>1, <2>6
    <3> QED BY ONLY <3>2, <2>4, <2>5, StreamMax \in Nat
  <2>8. decoders' <= StreamMax
    BY ONLY <2>4, <2>5, StreamMax \in Nat
  <2>9. \A r \in Streams : holds'[r] => hw'[r] /\ mem'[r] = "live" BY <2>1, <2>6
  <2> QED BY <2>5, <2>6, <2>7, <2>8, <2>9
<1>26. CASE Load!DecodeAndMix
  <2>1. Counted' = Counted BY <1>26 DEF Load!DecodeAndMix, Counted, Load!Set, Load!Freed, Load!Uncounted, Load!Unused, Load!None, Load!Room
  <2> QED BY <1>26, <2>1 DEF Load!DecodeAndMix, Load!Set, Load!Freed, Load!Uncounted, Load!Unused, Load!None, Load!Room
<1> QED BY <1>1, <1>2, <1>3, <1>4, <1>5, <1>6, <1>7, <1>8, <1>9, <1>10, <1>11, <1>12, <1>13, <1>14, <1>15, <1>16, <1>17, <1>18, <1>19, <1>20, <1>21, <1>22, <1>23, <1>24, <1>25, <1>26 DEF Load!Next, Load!Loader, Load!Calls, Load!Calling, Load!Audio

-----------------------------------------------------------------------------
\* Loading, for every number of streams, jobs and decoders: who holds a stream, what is
\* queued, which files are open and how many decoders are counted (audio_patch.c:389-460,
\* 1395-1465, 1936-1992).
THEOREM LoadInvariant == Spec => []LoadIInv
<1>1. Init => LoadIInv BY LoadInit DEF Init
<1>2. LoadIInv /\ [Next]_vars => LoadIInv'
  <2> SUFFICES ASSUME LoadIInv, [Next]_vars PROVE LoadIInv' OBVIOUS
  <2>1. CASE Load!Next
    BY <2>1, LoadTypedStep, SemaCountsStep, JobsLoadStep, StreamsHeldStep, LoadsWhileHeldStep,
       DecodersCountedStep DEF LoadIInv
  <2>2. CASE UNCHANGED load
    BY <2>2 DEF load, LoadIInv, LoadTyped, Busy, SemaCounts, JobsLoad, StreamsHeld, Unmade, Fresh,
       Releasing, LoadsWhileHeld, DecodersCounted, Counted
  <2> QED BY <2>1, <2>2 DEF Next, Voices, Loads, Logs, Pads, OnlyVoice, OnlyLog, OnlyPad, vars
<1> QED BY <1>1, <1>2, PTL DEF Spec

\* The loader writes to a live stream and reads an open file, and a spare decoder is always
\* there for the short decodes (audio_patch.c:1403-1460, 389-430).
THEOREM LoaderTouchesWhatIsThere == Spec => []LoadsOnLiveStream
<1> QED BY LoadInvariant, LoadImplies, PTL

-----------------------------------------------------------------------------
(***************************************************************************)
(* The log.  A thread that is drawing the buffer out, or writing, holds    *)
(* the lock of the card; one that fills the buffer, that of the buffer;    *)
(* until a fault, whose handler takes the card's and lets nobody have it.  *)
(***************************************************************************)

Threads == Log!Threads

Places == {"idle", "report", "open", "write", "reset", "drained", "lock", "locking", "iolock",
           "overflow", "iolocking", "put", "wlock", "wswap", "close", "panic", "dumped",
           "parked", "gone"}
Reasons == {"line", "flush", "overflow", "timed", "writer", "panic", "dump", "last"}
Drains == {"overflow", "timed", "flush"}
Dead == {"panic", "dump", "last"}
Lines == Nat \ {0}

LogTyped ==
  /\ hasLog \in BOOLEAN /\ hasIo \in BOOLEAN /\ g_writer_up \in BOOLEAN
  /\ g_panic \in BOOLEAN /\ fd \in BOOLEAN /\ waited \in BOOLEAN /\ strays \in BOOLEAN
  /\ log_mtx \in Threads \cup {"free"} /\ io_mtx \in Threads \cup {"free"}
  /\ logAt \in [Threads -> Places] /\ why \in [Threads -> Reasons]
  /\ out \in [Threads -> Seq(Int)] /\ buf \in Seq(Lines) /\ written \in Seq(Int)
  /\ issued \in Nat /\ prior \in Nat /\ faults \in Nat

\* On whose behalf a thread is where it is.
Errand(t) ==
  /\ why[t] = "writer" \/ logAt[t] \in {"report", "wlock", "wswap", "close"} => t = Writer
  /\ logAt[t] \in {"wlock", "wswap", "close"} => why[t] = "writer"
  /\ logAt[t] \in {"lock", "locking"} => why[t] \in {"line", "flush"}
  /\ logAt[t] = "overflow" => why[t] = "line"
  /\ logAt[t] = "iolock" => why[t] \in {"timed", "flush"}
  /\ logAt[t] = "iolocking" => why[t] \in Drains
  /\ logAt[t] = "put" => why[t] \in {"line", "overflow"}
  /\ logAt[t] = "panic" => why[t] = "panic"
  /\ logAt[t] \in {"reset", "drained"} => why[t] \in Drains \cup {"panic", "last"}
  /\ logAt[t] = "dumped" => why[t] = "dump"
  /\ logAt[t] = "parked" => why[t] = "last"
  /\ why[t] \in Dead => logAt[t] \in {"panic", "open", "write", "reset", "drained", "dumped", "parked"}
  /\ logAt[t] \in {"open", "write"} /\ why[t] = "line" => g_panic \/ ~hasLog

\* What a fault leaves: who crashed, and nothing logged where there is no lock for it.
Errands == \A t \in Threads : Errand(t)

Crashes ==
  /\ g_writer_up => hasIo
  /\ ~g_writer_up => logAt[Writer] = "gone"
  /\ g_panic <=> faults # 0
  /\ waited \/ strays => g_panic
  /\ waited /\ faults <= 1 => \A t \in Threads : logAt[t] # "panic"
  /\ ~g_panic => \A t \in Threads : why[t] \notin Dead
  /\ faults <= 1 => \A t, u \in Threads : why[t] \in Dead /\ why[u] \in Dead => t = u
  /\ ~hasLog => /\ issued = 0
                /\ \A t \in Threads : /\ logAt[t] \notin {"put", "overflow", "locking"}
                                      /\ logAt[t] = "lock" => why[t] = "flush"
                                      /\ why[t] \notin {"overflow", "timed"}
  /\ prior <= issued

Calm == hasLog /\ ~g_panic

\* One fault at the most, whose handler has not given up waiting for the card.
Orderly ==
  /\ hasIo /\ ~strays /\ faults <= 1
  /\ waited \/ \A c \in Threads : why[c] \in Dead => logAt[c] = "panic"

FillsBuffer(t) ==
  \/ logAt[t] \in {"iolock", "overflow", "iolocking", "put", "wswap"}
  \/ logAt[t] \in {"open", "write", "reset", "drained"} /\ why[t] \in Drains
UsesCard(t) ==
  /\ why[t] # "line"
  /\ logAt[t] \in {"open", "write", "reset", "drained", "close", "dumped", "parked"}

LocksHeld ==
  /\ Calm => \A t \in Threads : FillsBuffer(t) => log_mtx = t
  /\ Orderly => \A t \in Threads : UsesCard(t) => io_mtx = t
  /\ Calm \/ Orderly => \A t \in Threads : UsesCard(t) /\ logAt[t] = "write" => fd

LogIInv == LogTyped /\ Errands /\ Crashes /\ LocksHeld

USE DEF Threads

LEMMA LogThreads == "free" \notin Threads /\ Writer \in Threads
BY ProgressAssumption DEF Log!Threads

\* What follows log_drain, on whose behalf.
LEMMA DrainedDoes ==
  ASSUME NEW t \in Threads, Log!Drained(t)
  PROVE  \/ /\ why[t] = "overflow" /\ logAt' = [logAt EXCEPT ![t] = "put"]
            /\ log_mtx' = log_mtx /\ io_mtx' = (IF io_mtx = t THEN "free" ELSE io_mtx)
            /\ fd' = fd /\ written' = written /\ saved' = saved /\ why' = why /\ out' = out
         \/ /\ why[t] \in {"timed", "flush"} /\ fd' = FALSE
            /\ log_mtx' = (IF log_mtx = t THEN "free" ELSE log_mtx)
            /\ io_mtx' = (IF io_mtx = t THEN "free" ELSE io_mtx)
            /\ logAt' = [logAt EXCEPT ![t] = IF t = Writer THEN "report" ELSE "idle"]
            /\ why' = [why EXCEPT ![t] = "line"] /\ written' = written /\ out' = out
         \/ /\ why[t] = "panic" /\ logAt' = [logAt EXCEPT ![t] = "open"]
            /\ why' = [why EXCEPT ![t] = "dump"] /\ out' = [out EXCEPT ![t] = <<0>>]
            /\ fd' = fd /\ written' = written /\ log_mtx' = log_mtx /\ io_mtx' = io_mtx
         \/ /\ why[t] = "last" /\ fd' = FALSE /\ logAt' = [logAt EXCEPT ![t] = "parked"]
            /\ written' = written /\ log_mtx' = log_mtx /\ io_mtx' = io_mtx /\ why' = why
            /\ out' = out
<1> USE DEF Log!Goes, Log!GoesFor, Log!Unlocks, Log!Done, Log!log_close, Log!card, Log!locks, Log!Dump
<1>1. CASE why[t] = "overflow" BY <1>1 DEF Log!Drained
<1>2. CASE why[t] \in {"timed", "flush"} BY <1>2 DEF Log!Drained
<1>3. CASE why[t] = "panic" BY <1>3 DEF Log!Drained
<1>4. CASE why[t] = "last" BY <1>4 DEF Log!Drained
<1> QED BY <1>1, <1>2, <1>3, <1>4 DEF Log!Drained

\* A thread that was not in the handler goes where it needs neither lock.
LEMMA StepsAside ==
  ASSUME LogIInv, NEW t \in Threads, NEW l \in Places, NEW w \in Reasons,
         logAt' = [logAt EXCEPT ![t] = l], why' = [why EXCEPT ![t] = w],
         why[t] \notin Dead, w \notin Dead,
         l \in {"open", "idle", "report", "lock", "wlock", "gone"}, l = "open" => w = "line" /\ ~Calm,
         UNCHANGED <<log_mtx, io_mtx, fd, waited, strays, faults, g_panic, hasLog, hasIo>>
  PROVE  LocksHeld'
<1>1. logAt'[t] = l /\ why'[t] = w /\ \A u \in Threads : u # t => logAt'[u] = logAt[u] /\ why'[u] = why[u]
  BY DEF LogIInv, LogTyped
<1>2. (Calm' <=> Calm) /\ (Orderly' => Orderly) BY <1>1 DEF Calm, Orderly
<1>3. \A u \in Threads : FillsBuffer(u)' => (FillsBuffer(u) /\ u # t) \/ ~Calm
  BY <1>1 DEF FillsBuffer, Drains
<1>4. \A u \in Threads : UsesCard(u)' => UsesCard(u) /\ u # t BY <1>1 DEF UsesCard
<1>5. \A u \in Threads : UsesCard(u)' => logAt'[u] = logAt[u] BY <1>1, <1>4
<1> QED BY <1>2, <1>3, <1>4, <1>5 DEF LogIInv, LocksHeld

LEMMA LogTypedStep ==
  ASSUME LogIInv, Log!Next
  PROVE  LogTyped'
<1> USE LogThreads DEF LogIInv, Log!made, Log!locks, Log!card, Log!history, Log!bounds, Log!Goes, Log!GoesFor, Log!Unlocks, Log!Done, Log!Ready, Log!Drains, Log!log_close, Log!AfterLog, LogTyped, Errands, Crashes, Places, Reasons, Lines, Log!Straight, Log!Dump
<1>1. ASSUME NEW t \in Threads, Log!log_printf(t) PROVE LogTyped'
  <2>1. CASE g_panic \/ ~hasLog
    <3>1. /\ logAt' = [logAt EXCEPT ![t] = "open"] /\ why' = [why EXCEPT ![t] = "line"]
          /\ out' = [out EXCEPT ![t] = <<-1>>]
      BY <1>1, <2>1 DEF Log!log_printf, Log!Straight
    <3> QED BY <1>1, <2>1, <3>1, <<-1>> \in Seq(Int) DEF Log!log_printf
  <2>2. CASE ~(g_panic \/ ~hasLog)
    <3>1. logAt' = [logAt EXCEPT ![t] = "lock"] /\ why' = [why EXCEPT ![t] = "line"] /\ out' = out
      BY <1>1, <2>2 DEF Log!log_printf
    <3> QED BY <1>1, <2>2, <3>1 DEF Log!log_printf
  <2> QED BY <2>1, <2>2
<1>2. ASSUME NEW t \in Threads, Log!log_flush(t) PROVE LogTyped' BY <1>2 DEF Log!log_flush
<1>3. ASSUME NEW t \in Threads, Log!crash_handler(t) PROVE LogTyped' BY <1>3 DEF Log!crash_handler
<1>4. ASSUME NEW t \in Threads, Log!log_open_if_needed(t) PROVE LogTyped' BY <1>4 DEF Log!log_open_if_needed
<1>5. ASSUME NEW t \in Threads, Log!log_write_direct(t) PROVE LogTyped' BY <1>5 DEF Log!log_write_direct
<1>6. ASSUME NEW t \in Threads, Log!log_drain(t) PROVE LogTyped' BY <1>6 DEF Log!log_drain
<1>7. ASSUME NEW t \in Threads, Log!log_lock(t) PROVE LogTyped' BY <1>7 DEF Log!log_lock
<1>8. ASSUME NEW t \in Threads, Log!io_lock(t) PROVE LogTyped'
  <2>1. PICK w \in {"overflow", "timed", "flush"} :
          /\ why' = [why EXCEPT ![t] = w]
          /\ \/ /\ g_panic \/ ~hasIo
                /\ logAt' = [logAt EXCEPT ![t] = IF buf = <<>> THEN "drained" ELSE "open"]
                /\ out' = [out EXCEPT ![t] = buf]
             \/ /\ ~(g_panic \/ ~hasIo)
                /\ logAt' = [logAt EXCEPT ![t] = "iolocking"] /\ out' = out
    BY <1>8 DEF Log!io_lock, Errand, Drains
  <2>2. buf \in Seq(Int) BY Lines \subseteq Int
  <2>3. out' \in [Threads -> Seq(Int)] BY <2>1, <2>2
  <2>4. logAt' \in [Threads -> Places] /\ why' \in [Threads -> Reasons] BY <2>1
  <2> QED BY <1>8, <2>3, <2>4 DEF Log!io_lock
<1>9. ASSUME NEW t \in Threads, Log!Put(t) PROVE LogTyped'
  <2>1. issued' = issued + 1 /\ buf' \in Seq(Lines) BY <1>9, AppendProperties DEF Log!Put
  <2>2. CASE /\ logAt' = [logAt EXCEPT ![t] = IF t = Writer THEN "report" ELSE "idle"]
             /\ why' = [why EXCEPT ![t] = "line"]
             /\ log_mtx' = (IF log_mtx = t THEN "free" ELSE log_mtx) /\ io_mtx' = io_mtx
    BY <1>9, <2>1, <2>2 DEF Log!Put
  <2>3. CASE /\ logAt' = [logAt EXCEPT ![t] = "iolock"] /\ why' = [why EXCEPT ![t] = "timed"]
             /\ ~g_writer_up /\ log_mtx' = log_mtx /\ io_mtx' = io_mtx
    BY <1>9, <2>1, <2>3 DEF Log!Put
  <2> QED BY <1>9, <2>2, <2>3 DEF Log!Put
<1>10. ASSUME NEW t \in Threads, Log!Drained(t) PROVE LogTyped'
  <2>1. CASE /\ why[t] = "overflow" /\ logAt' = [logAt EXCEPT ![t] = "put"]
             /\ log_mtx' = log_mtx /\ io_mtx' = (IF io_mtx = t THEN "free" ELSE io_mtx)
             /\ fd' = fd /\ written' = written /\ saved' = saved /\ why' = why /\ out' = out
    BY <1>10, <2>1 DEF Log!Drained
  <2>2. CASE /\ why[t] \in {"timed", "flush"} /\ fd' = FALSE
             /\ log_mtx' = (IF log_mtx = t THEN "free" ELSE log_mtx)
             /\ io_mtx' = (IF io_mtx = t THEN "free" ELSE io_mtx)
             /\ logAt' = [logAt EXCEPT ![t] = IF t = Writer THEN "report" ELSE "idle"]
             /\ why' = [why EXCEPT ![t] = "line"] /\ written' = written /\ out' = out
    BY <1>10, <2>2 DEF Log!Drained
  <2>3. CASE /\ why[t] = "panic" /\ logAt' = [logAt EXCEPT ![t] = "open"]
             /\ why' = [why EXCEPT ![t] = "dump"] /\ out' = [out EXCEPT ![t] = <<0>>]
             /\ fd' = fd /\ written' = written /\ log_mtx' = log_mtx /\ io_mtx' = io_mtx
    BY <1>10, <2>3, <<0>> \in Seq(Int) DEF Log!Drained
  <2>4. CASE /\ why[t] = "last" /\ fd' = FALSE /\ logAt' = [logAt EXCEPT ![t] = "parked"]
             /\ written' = written /\ log_mtx' = log_mtx /\ io_mtx' = io_mtx /\ why' = why /\ out' = out
    BY <1>10, <2>4 DEF Log!Drained
  <2> QED BY <1>10, <2>1, <2>2, <2>3, <2>4, DrainedDoes
<1>11. ASSUME NEW t \in Threads, Log!log_panic(t) PROVE LogTyped' BY <1>11 DEF Log!log_panic
<1>12. ASSUME NEW t \in Threads, Log!LastFlush(t) PROVE LogTyped' BY <1>12 DEF Log!LastFlush
<1>13. ASSUME NEW t \in Threads, Log!LocksLog(t) PROVE LogTyped' BY <1>13 DEF Log!LocksLog
<1>14. ASSUME NEW t \in Threads, Log!LocksIo(t) PROVE LogTyped' BY <1>14 DEF Log!LocksIo
<1>15. CASE Log!Wakes BY <1>15 DEF Log!Wakes
<1>16. CASE Log!WriterLocks BY <1>16 DEF Log!WriterLocks
<1>17. CASE Log!WriterSwaps BY <1>17 DEF Log!WriterSwaps
<1>18. CASE Log!WriterCloses BY <1>18 DEF Log!WriterCloses
<1>19. CASE Log!Waits BY <1>19 DEF Log!Waits
<1> QED BY <1>1, <1>2, <1>3, <1>4, <1>5, <1>6, <1>7, <1>8, <1>9, <1>10, <1>11, <1>12, <1>13, <1>14, <1>15, <1>16, <1>17, <1>18, <1>19 DEF Log!Next, Log!Step, Log!Lock, Log!Writes

LEMMA ErrandsStep ==
  ASSUME LogIInv, Log!Next
  PROVE  Errands'
<1> USE LogThreads DEF LogIInv, Log!made, Log!locks, Log!card, Log!history, Log!bounds, Log!Goes, Log!GoesFor, Log!Unlocks, Log!Done, Log!Ready, Log!Drains, Log!log_close, Log!AfterLog, LogTyped, Errands, Errand, Places, Reasons, Drains, Dead, Log!Crashed
<1>1. ASSUME NEW t \in Threads, Log!log_printf(t) PROVE Errands'
  <2>1. CASE g_panic \/ ~hasLog
    <3>1. /\ logAt' = [logAt EXCEPT ![t] = "open"] /\ why' = [why EXCEPT ![t] = "line"]
          /\ out' = [out EXCEPT ![t] = <<-1>>]
      BY <1>1, <2>1 DEF Log!log_printf, Log!Straight
    <3> QED BY <1>1, <2>1, <3>1 DEF Log!log_printf
  <2>2. CASE ~(g_panic \/ ~hasLog)
    <3>1. logAt' = [logAt EXCEPT ![t] = "lock"] /\ why' = [why EXCEPT ![t] = "line"] /\ out' = out
      BY <1>1, <2>2 DEF Log!log_printf
    <3> QED BY <1>1, <2>2, <3>1 DEF Log!log_printf
  <2> QED BY <2>1, <2>2
<1>2. ASSUME NEW t \in Threads, Log!log_flush(t) PROVE Errands' BY <1>2 DEF Log!log_flush
<1>3. ASSUME NEW t \in Threads, Log!crash_handler(t) PROVE Errands' BY <1>3 DEF Log!crash_handler
<1>4. ASSUME NEW t \in Threads, Log!log_open_if_needed(t) PROVE Errands' BY <1>4 DEF Log!log_open_if_needed
<1>5. ASSUME NEW t \in Threads, Log!log_write_direct(t) PROVE Errands' BY <1>5 DEF Log!log_write_direct
<1>6. ASSUME NEW t \in Threads, Log!log_drain(t) PROVE Errands' BY <1>6 DEF Log!log_drain
<1>7. ASSUME NEW t \in Threads, Log!log_lock(t) PROVE Errands' BY <1>7 DEF Log!log_lock
<1>8. ASSUME NEW t \in Threads, Log!io_lock(t) PROVE Errands'
  <2>1. PICK w \in {"overflow", "timed", "flush"} :
          /\ why' = [why EXCEPT ![t] = w]
          /\ \/ logAt' = [logAt EXCEPT ![t] = IF buf = <<>> THEN "drained" ELSE "open"]
             \/ logAt' = [logAt EXCEPT ![t] = "iolocking"]
    BY <1>8 DEF Log!io_lock
  <2> QED BY <1>8, <2>1 DEF Log!io_lock
<1>9. ASSUME NEW t \in Threads, Log!Put(t) PROVE Errands'
  <2>1. /\ issued' = issued + 1 /\ buf' = Append(buf, issued') /\ why[t] \notin Dead
        /\ logAt[t] = "put"
    BY <1>9 DEF Log!Put
  <2>2. CASE /\ logAt' = [logAt EXCEPT ![t] = IF t = Writer THEN "report" ELSE "idle"]
             /\ why' = [why EXCEPT ![t] = "line"]
             /\ log_mtx' = (IF log_mtx = t THEN "free" ELSE log_mtx) /\ io_mtx' = io_mtx
    BY <1>9, <2>1, <2>2 DEF Log!Put
  <2>3. CASE /\ logAt' = [logAt EXCEPT ![t] = "iolock"] /\ why' = [why EXCEPT ![t] = "timed"]
             /\ ~g_writer_up /\ log_mtx' = log_mtx /\ io_mtx' = io_mtx
    BY <1>9, <2>1, <2>3 DEF Log!Put
  <2> QED BY <1>9, <2>2, <2>3 DEF Log!Put
<1>10. ASSUME NEW t \in Threads, Log!Drained(t) PROVE Errands'
  <2>1. CASE /\ why[t] = "overflow" /\ logAt' = [logAt EXCEPT ![t] = "put"]
             /\ log_mtx' = log_mtx /\ io_mtx' = (IF io_mtx = t THEN "free" ELSE io_mtx)
             /\ fd' = fd /\ written' = written /\ saved' = saved /\ why' = why /\ out' = out
    BY <1>10, <2>1 DEF Log!Drained
  <2>2. CASE /\ why[t] \in {"timed", "flush"} /\ fd' = FALSE
             /\ log_mtx' = (IF log_mtx = t THEN "free" ELSE log_mtx)
             /\ io_mtx' = (IF io_mtx = t THEN "free" ELSE io_mtx)
             /\ logAt' = [logAt EXCEPT ![t] = IF t = Writer THEN "report" ELSE "idle"]
             /\ why' = [why EXCEPT ![t] = "line"] /\ written' = written /\ out' = out
    BY <1>10, <2>2 DEF Log!Drained
  <2>3. CASE /\ why[t] = "panic" /\ logAt' = [logAt EXCEPT ![t] = "open"]
             /\ why' = [why EXCEPT ![t] = "dump"] /\ out' = [out EXCEPT ![t] = <<0>>]
             /\ fd' = fd /\ written' = written /\ log_mtx' = log_mtx /\ io_mtx' = io_mtx
    BY <1>10, <2>3, <<0>> \in Seq(Int) DEF Log!Drained
  <2>4. CASE /\ why[t] = "last" /\ fd' = FALSE /\ logAt' = [logAt EXCEPT ![t] = "parked"]
             /\ written' = written /\ log_mtx' = log_mtx /\ io_mtx' = io_mtx /\ why' = why /\ out' = out
    BY <1>10, <2>4 DEF Log!Drained
  <2> QED BY ONLY <1>10, <2>1, <2>2, <2>3, <2>4, DrainedDoes
<1>11. ASSUME NEW t \in Threads, Log!log_panic(t) PROVE Errands' BY <1>11 DEF Log!log_panic
<1>12. ASSUME NEW t \in Threads, Log!LastFlush(t) PROVE Errands' BY <1>12 DEF Log!LastFlush
<1>13. ASSUME NEW t \in Threads, Log!LocksLog(t) PROVE Errands' BY <1>13 DEF Log!LocksLog
<1>14. ASSUME NEW t \in Threads, Log!LocksIo(t) PROVE Errands' BY <1>14 DEF Log!LocksIo
<1>15. CASE Log!Wakes
  <2>1. PICK l \in {"gone", "wlock"} :
          /\ logAt' = [logAt EXCEPT ![Writer] = l] /\ why' = [why EXCEPT ![Writer] = "writer"]
          /\ logAt[Writer] = "idle" /\ (l = "wlock" => ~g_panic)
    BY <1>15 DEF Log!Wakes
  <2> QED BY <1>15, <2>1 DEF Log!Wakes
<1>16. CASE Log!WriterLocks BY <1>16 DEF Log!WriterLocks
<1>17. CASE Log!WriterSwaps BY <1>17 DEF Log!WriterSwaps
<1>18. CASE Log!WriterCloses BY <1>18 DEF Log!WriterCloses
<1>19. CASE Log!Waits BY <1>19 DEF Log!Waits
<1> QED BY <1>1, <1>2, <1>3, <1>4, <1>5, <1>6, <1>7, <1>8, <1>9, <1>10, <1>11, <1>12, <1>13, <1>14, <1>15, <1>16, <1>17, <1>18, <1>19 DEF Log!Next, Log!Step, Log!Lock, Log!Writes

LEMMA CrashesStep ==
  ASSUME LogIInv, Log!Next
  PROVE  Crashes'
<1> USE LogThreads DEF LogIInv, Log!made, Log!locks, Log!card, Log!history, Log!bounds, Log!Goes, Log!GoesFor, Log!Unlocks, Log!Done, Log!Ready, Log!Drains, Log!log_close, Log!AfterLog, LogTyped, Errands, Errand, Crashes, Places, Reasons, Drains, Dead, Log!Crashed
<1>1. ASSUME NEW t \in Threads, Log!log_printf(t) PROVE Crashes'
  <2>1. CASE g_panic \/ ~hasLog
    <3>1. /\ logAt' = [logAt EXCEPT ![t] = "open"] /\ why' = [why EXCEPT ![t] = "line"]
          /\ out' = [out EXCEPT ![t] = <<-1>>]
      BY <1>1, <2>1 DEF Log!log_printf, Log!Straight
    <3> QED BY <1>1, <2>1, <3>1 DEF Log!log_printf
  <2>2. CASE ~(g_panic \/ ~hasLog)
    <3>1. logAt' = [logAt EXCEPT ![t] = "lock"] /\ why' = [why EXCEPT ![t] = "line"] /\ out' = out
      BY <1>1, <2>2 DEF Log!log_printf
    <3> QED BY <1>1, <2>2, <3>1 DEF Log!log_printf
  <2> QED BY <2>1, <2>2
<1>2. ASSUME NEW t \in Threads, Log!log_flush(t) PROVE Crashes' BY <1>2 DEF Log!log_flush
<1>3. ASSUME NEW t \in Threads, Log!crash_handler(t) PROVE Crashes' BY <1>3 DEF Log!crash_handler
<1>4. ASSUME NEW t \in Threads, Log!log_open_if_needed(t) PROVE Crashes' BY <1>4 DEF Log!log_open_if_needed
<1>5. ASSUME NEW t \in Threads, Log!log_write_direct(t) PROVE Crashes' BY <1>5 DEF Log!log_write_direct
<1>6. ASSUME NEW t \in Threads, Log!log_drain(t) PROVE Crashes' BY <1>6 DEF Log!log_drain
<1>7. ASSUME NEW t \in Threads, Log!log_lock(t) PROVE Crashes' BY <1>7 DEF Log!log_lock
<1>8. ASSUME NEW t \in Threads, Log!io_lock(t) PROVE Crashes'
  <2>1. PICK w \in {"overflow", "timed", "flush"} :
          /\ why' = [why EXCEPT ![t] = w]
          /\ \/ logAt' = [logAt EXCEPT ![t] = IF buf = <<>> THEN "drained" ELSE "open"]
             \/ logAt' = [logAt EXCEPT ![t] = "iolocking"]
    BY <1>8 DEF Log!io_lock
  <2> QED BY <1>8, <2>1 DEF Log!io_lock
<1>9. ASSUME NEW t \in Threads, Log!Put(t) PROVE Crashes'
  <2>1. /\ issued' = issued + 1 /\ buf' = Append(buf, issued') /\ why[t] \notin Dead
        /\ logAt[t] = "put"
    BY <1>9 DEF Log!Put
  <2>2. CASE /\ logAt' = [logAt EXCEPT ![t] = IF t = Writer THEN "report" ELSE "idle"]
             /\ why' = [why EXCEPT ![t] = "line"]
             /\ log_mtx' = (IF log_mtx = t THEN "free" ELSE log_mtx) /\ io_mtx' = io_mtx
    BY <1>9, <2>1, <2>2 DEF Log!Put
  <2>3. CASE /\ logAt' = [logAt EXCEPT ![t] = "iolock"] /\ why' = [why EXCEPT ![t] = "timed"]
             /\ ~g_writer_up /\ log_mtx' = log_mtx /\ io_mtx' = io_mtx
    BY <1>9, <2>1, <2>3 DEF Log!Put
  <2> QED BY <1>9, <2>2, <2>3 DEF Log!Put
<1>10. ASSUME NEW t \in Threads, Log!Drained(t) PROVE Crashes'
  <2>1. CASE /\ why[t] = "overflow" /\ logAt' = [logAt EXCEPT ![t] = "put"]
             /\ log_mtx' = log_mtx /\ io_mtx' = (IF io_mtx = t THEN "free" ELSE io_mtx)
             /\ fd' = fd /\ written' = written /\ saved' = saved /\ why' = why /\ out' = out
    BY <1>10, <2>1 DEF Log!Drained
  <2>2. CASE /\ why[t] \in {"timed", "flush"} /\ fd' = FALSE
             /\ log_mtx' = (IF log_mtx = t THEN "free" ELSE log_mtx)
             /\ io_mtx' = (IF io_mtx = t THEN "free" ELSE io_mtx)
             /\ logAt' = [logAt EXCEPT ![t] = IF t = Writer THEN "report" ELSE "idle"]
             /\ why' = [why EXCEPT ![t] = "line"] /\ written' = written /\ out' = out
    BY <1>10, <2>2 DEF Log!Drained
  <2>3. CASE /\ why[t] = "panic" /\ logAt' = [logAt EXCEPT ![t] = "open"]
             /\ why' = [why EXCEPT ![t] = "dump"] /\ out' = [out EXCEPT ![t] = <<0>>]
             /\ fd' = fd /\ written' = written /\ log_mtx' = log_mtx /\ io_mtx' = io_mtx
    BY <1>10, <2>3, <<0>> \in Seq(Int) DEF Log!Drained
  <2>4. CASE /\ why[t] = "last" /\ fd' = FALSE /\ logAt' = [logAt EXCEPT ![t] = "parked"]
             /\ written' = written /\ log_mtx' = log_mtx /\ io_mtx' = io_mtx /\ why' = why /\ out' = out
    BY <1>10, <2>4 DEF Log!Drained
  <2> QED BY ONLY <1>10, <2>1, <2>2, <2>3, <2>4, DrainedDoes
<1>11. ASSUME NEW t \in Threads, Log!log_panic(t) PROVE Crashes' BY <1>11 DEF Log!log_panic
<1>12. ASSUME NEW t \in Threads, Log!LastFlush(t) PROVE Crashes' BY <1>12 DEF Log!LastFlush
<1>13. ASSUME NEW t \in Threads, Log!LocksLog(t) PROVE Crashes' BY <1>13 DEF Log!LocksLog
<1>14. ASSUME NEW t \in Threads, Log!LocksIo(t) PROVE Crashes' BY <1>14 DEF Log!LocksIo
<1>15. CASE Log!Wakes
  <2>1. PICK l \in {"gone", "wlock"} :
          /\ logAt' = [logAt EXCEPT ![Writer] = l] /\ why' = [why EXCEPT ![Writer] = "writer"]
          /\ logAt[Writer] = "idle" /\ (l = "wlock" => ~g_panic)
    BY <1>15 DEF Log!Wakes
  <2> QED BY <1>15, <2>1 DEF Log!Wakes
<1>16. CASE Log!WriterLocks BY <1>16 DEF Log!WriterLocks
<1>17. CASE Log!WriterSwaps BY <1>17 DEF Log!WriterSwaps
<1>18. CASE Log!WriterCloses BY <1>18 DEF Log!WriterCloses
<1>19. CASE Log!Waits BY <1>19 DEF Log!Waits
<1> QED BY <1>1, <1>2, <1>3, <1>4, <1>5, <1>6, <1>7, <1>8, <1>9, <1>10, <1>11, <1>12, <1>13, <1>14, <1>15, <1>16, <1>17, <1>18, <1>19 DEF Log!Next, Log!Step, Log!Lock, Log!Writes

LEMMA LocksHeldStep ==
  ASSUME LogIInv, Log!Next
  PROVE  LocksHeld'
<1> USE LogThreads DEF LogIInv, Log!made, Log!locks, Log!card, Log!history, Log!bounds, Log!Goes, Log!GoesFor, Log!Unlocks, Log!Done, Log!Ready, Log!Drains, Log!log_close, Log!AfterLog, LogTyped, Errands, Errand, Crashes, Places, Reasons, Drains, Dead, Log!Crashed, LocksHeld, Calm, Orderly, FillsBuffer, UsesCard
<1>1. ASSUME NEW t \in Threads, Log!log_printf(t) PROVE LocksHeld'
  <2>1. CASE g_panic \/ ~hasLog
    <3>1. /\ logAt' = [logAt EXCEPT ![t] = "open"] /\ why' = [why EXCEPT ![t] = "line"]
          /\ out' = [out EXCEPT ![t] = <<-1>>]
      BY <1>1, <2>1 DEF Log!log_printf, Log!Straight
    <3>2. why[t] \notin Dead BY <1>1 DEF Log!log_printf
    <3> QED BY ONLY <1>1, <2>1, <3>1, <3>2, StepsAside, LogIInv DEF Log!log_printf, Log!made, Log!locks, Log!card, Log!history, Dead, Places, Reasons, Calm
  <2>2. CASE ~(g_panic \/ ~hasLog)
    <3>1. logAt' = [logAt EXCEPT ![t] = "lock"] /\ why' = [why EXCEPT ![t] = "line"] /\ out' = out
      BY <1>1, <2>2 DEF Log!log_printf
    <3> QED BY <1>1, <2>2, <3>1 DEF Log!log_printf
  <2> QED BY <2>1, <2>2
<1>2. ASSUME NEW t \in Threads, Log!log_flush(t) PROVE LocksHeld'
  <2>1. logAt' = [logAt EXCEPT ![t] = "lock"] /\ why' = [why EXCEPT ![t] = "flush"]
    BY <1>2 DEF Log!log_flush
  <2>2. why[t] \notin Dead BY <1>2 DEF Log!log_flush
  <2> QED BY ONLY <1>2, <2>1, <2>2, StepsAside, LogIInv DEF Log!log_flush, Log!made, Log!locks, Log!card, Log!history, Dead, Places, Reasons
<1>3. ASSUME NEW t \in Threads, Log!crash_handler(t) PROVE LocksHeld' BY <1>3 DEF Log!crash_handler
<1>4. ASSUME NEW t \in Threads, Log!log_open_if_needed(t) PROVE LocksHeld' BY <1>4 DEF Log!log_open_if_needed
<1>5. ASSUME NEW t \in Threads, Log!log_write_direct(t) PROVE LocksHeld' BY <1>5 DEF Log!log_write_direct
<1>6. ASSUME NEW t \in Threads, Log!log_drain(t) PROVE LocksHeld' BY <1>6 DEF Log!log_drain
<1>7. ASSUME NEW t \in Threads, Log!log_lock(t) PROVE LocksHeld' BY <1>7 DEF Log!log_lock
<1>8. ASSUME NEW t \in Threads, Log!io_lock(t) PROVE LocksHeld'
  <2>1. PICK w \in {"overflow", "timed", "flush"} :
          /\ why' = [why EXCEPT ![t] = w]
          /\ \/ /\ g_panic \/ ~hasIo
                /\ logAt' = [logAt EXCEPT ![t] = IF buf = <<>> THEN "drained" ELSE "open"]
                /\ out' = [out EXCEPT ![t] = buf]
             \/ /\ ~(g_panic \/ ~hasIo)
                /\ logAt' = [logAt EXCEPT ![t] = "iolocking"] /\ out' = out
    BY <1>8 DEF Log!io_lock
  <2> QED BY <1>8, <2>1 DEF Log!io_lock
<1>9. ASSUME NEW t \in Threads, Log!Put(t) PROVE LocksHeld'
  <2>1. /\ issued' = issued + 1 /\ buf' = Append(buf, issued') /\ why[t] \notin Dead
        /\ logAt[t] = "put"
    BY <1>9 DEF Log!Put
  <2>2. CASE /\ logAt' = [logAt EXCEPT ![t] = IF t = Writer THEN "report" ELSE "idle"]
             /\ why' = [why EXCEPT ![t] = "line"]
             /\ log_mtx' = (IF log_mtx = t THEN "free" ELSE log_mtx) /\ io_mtx' = io_mtx
    BY <1>9, <2>1, <2>2 DEF Log!Put
  <2>3. CASE /\ logAt' = [logAt EXCEPT ![t] = "iolock"] /\ why' = [why EXCEPT ![t] = "timed"]
             /\ ~g_writer_up /\ log_mtx' = log_mtx /\ io_mtx' = io_mtx
    BY <1>9, <2>1, <2>3 DEF Log!Put
  <2> QED BY <1>9, <2>2, <2>3 DEF Log!Put
<1>10. ASSUME NEW t \in Threads, Log!Drained(t) PROVE LocksHeld'
  <2>1. CASE /\ why[t] = "overflow" /\ logAt' = [logAt EXCEPT ![t] = "put"]
             /\ log_mtx' = log_mtx /\ io_mtx' = (IF io_mtx = t THEN "free" ELSE io_mtx)
             /\ fd' = fd /\ written' = written /\ saved' = saved /\ why' = why /\ out' = out
    BY <1>10, <2>1 DEF Log!Drained
  <2>2. CASE /\ why[t] \in {"timed", "flush"} /\ fd' = FALSE
             /\ log_mtx' = (IF log_mtx = t THEN "free" ELSE log_mtx)
             /\ io_mtx' = (IF io_mtx = t THEN "free" ELSE io_mtx)
             /\ logAt' = [logAt EXCEPT ![t] = IF t = Writer THEN "report" ELSE "idle"]
             /\ why' = [why EXCEPT ![t] = "line"] /\ written' = written /\ out' = out
    BY <1>10, <2>2 DEF Log!Drained
  <2>3. CASE /\ why[t] = "panic" /\ logAt' = [logAt EXCEPT ![t] = "open"]
             /\ why' = [why EXCEPT ![t] = "dump"] /\ out' = [out EXCEPT ![t] = <<0>>]
             /\ fd' = fd /\ written' = written /\ log_mtx' = log_mtx /\ io_mtx' = io_mtx
    BY <1>10, <2>3, <<0>> \in Seq(Int) DEF Log!Drained
  <2>4. CASE /\ why[t] = "last" /\ fd' = FALSE /\ logAt' = [logAt EXCEPT ![t] = "parked"]
             /\ written' = written /\ log_mtx' = log_mtx /\ io_mtx' = io_mtx /\ why' = why /\ out' = out
    BY <1>10, <2>4 DEF Log!Drained
  <2> QED BY ONLY <1>10, <2>1, <2>2, <2>3, <2>4, DrainedDoes
<1>11. ASSUME NEW t \in Threads, Log!log_panic(t) PROVE LocksHeld'
  <2>1. /\ logAt[t] = "panic" /\ why[t] = "panic" /\ why' = [why EXCEPT ![t] = "panic"]
        /\ logAt' = [logAt EXCEPT ![t] = IF buf = <<>> THEN "drained" ELSE "open"]
        /\ fd' = fd /\ log_mtx' = log_mtx /\ faults' = faults /\ strays' = strays
    BY <1>11 DEF Log!log_panic
  <2>2. CASE /\ hasIo => io_mtx = "free"
             /\ io_mtx' = (IF hasIo THEN t ELSE io_mtx)
             /\ waited' = (waited \/ faults = 1)
    BY <1>11, <2>1, <2>2 DEF Log!log_panic
  <2>3. CASE hasIo /\ io_mtx # "free" /\ io_mtx' = io_mtx /\ waited' = waited
    <3>1. ~Calm' BY <1>11, <2>1 DEF Log!log_panic
    <3>2. ~Orderly' BY <1>11, <2>1, <2>3 DEF Log!log_panic
    <3> QED BY <3>1, <3>2
  <2> QED BY <1>11, <2>2, <2>3 DEF Log!log_panic
<1>12. ASSUME NEW t \in Threads, Log!LastFlush(t) PROVE LocksHeld' BY <1>12 DEF Log!LastFlush
<1>13. ASSUME NEW t \in Threads, Log!LocksLog(t) PROVE LocksHeld' BY <1>13 DEF Log!LocksLog
<1>14. ASSUME NEW t \in Threads, Log!LocksIo(t) PROVE LocksHeld' BY <1>14 DEF Log!LocksIo
<1>15. CASE Log!Wakes
  <2>1. PICK l \in {"gone", "wlock"} :
          /\ logAt' = [logAt EXCEPT ![Writer] = l] /\ why' = [why EXCEPT ![Writer] = "writer"]
          /\ logAt[Writer] = "idle" /\ (l = "wlock" => ~g_panic)
    BY <1>15 DEF Log!Wakes
  <2>2. why[Writer] \notin Dead BY <2>1
  <2> QED BY ONLY <1>15, <2>1, <2>2, StepsAside, LogThreads, LogIInv DEF Log!Wakes, Log!made, Log!locks, Log!card, Log!history, Log!bounds, Dead, Places, Reasons
<1>16. CASE Log!WriterLocks
  <2>1. CASE buf = <<>> /\ logAt' = [logAt EXCEPT ![Writer] = "idle"] /\ log_mtx' = log_mtx
    BY <1>16, <2>1 DEF Log!WriterLocks
  <2>2. CASE /\ logAt' = [logAt EXCEPT ![Writer] = "wswap"] /\ log_mtx' = Writer
             /\ ~hasLog \/ log_mtx = "free"
    BY <1>16, <2>2 DEF Log!WriterLocks
  <2> QED BY <1>16, <2>1, <2>2 DEF Log!WriterLocks
<1>17. CASE Log!WriterSwaps BY <1>17 DEF Log!WriterSwaps
<1>18. CASE Log!WriterCloses BY <1>18 DEF Log!WriterCloses
<1>19. CASE Log!Waits BY <1>19 DEF Log!Waits
<1> QED BY <1>1, <1>2, <1>3, <1>4, <1>5, <1>6, <1>7, <1>8, <1>9, <1>10, <1>11, <1>12, <1>13, <1>14, <1>15, <1>16, <1>17, <1>18, <1>19 DEF Log!Next, Log!Step, Log!Lock, Log!Writes


-----------------------------------------------------------------------------
(* What the log holds.                                                     *)

On(s, x) == \E i \in 1 .. Len(s) : s[i] = x
NumberedFrom(s, n) == \A i \in 1 .. Len(s) : s[i] = n + i

\* A thread that has taken out what the buffer held.
Drawing(t) == logAt[t] \in {"open", "write"} /\ why[t] \in Drains \cup {"panic"}
Resetting == \E t \in Threads : logAt[t] = "reset"

\* Until a fault: every line once, in order, across the file, what the writer took, and
\* the buffer.
InOrder ==
  Calm =>
    /\ NumberedFrom(written, 0) /\ NumberedFrom(Log!InFlight, Len(written))
    /\ ~Resetting => /\ NumberedFrom(buf, Len(written) + Len(Log!InFlight))
                     /\ issued = Len(written) + Len(Log!InFlight) + Len(buf)
    /\ Resetting => issued = Len(written) + Len(Log!InFlight)
    /\ \A t \in Threads : Drawing(t) => out[t] = buf

\* The handler has the card and has emptied the buffer.
Dumps(c) == why[c] \in {"dump", "last"} \/ (why[c] = "panic" /\ logAt[c] = "drained")

\* After it: where a line logged before the fault can be.
Kept(i) ==
  /\ On(written, i) \/ On(Log!InFlight, i) \/ On(buf, i)
  /\ \A t \in Threads : /\ Drawing(t) /\ On(buf, i) => On(out[t], i)
                        /\ logAt[t] = "reset" /\ On(buf, i) => On(written, i)
                        /\ Dumps(t) => On(written, i)

\* The handler's own thread holds the card, from before the fault: it will not get it.
InItsOwnWay == ~waited /\ \E c \in Threads : why[c] \in Dead /\ io_mtx = c

EarlierKept ==
  Orderly /\ g_panic /\ hasLog /\ ~InItsOwnWay => \A i \in 1 .. prior : Kept(i)

DumpsOnce ==
  /\ On(written, 0) => \E c \in Threads : why[c] \in {"dump", "last"}
  /\ \A t \in Threads : On(out[t], 0) => why[t] = "dump" /\ logAt[t] \in {"open", "write"}

LEMMA OnFacts ==
  /\ \A x : ~On(<<>>, x)
  /\ \A S : \A s \in Seq(S), e \in S : \A x : On(Append(s, e), x) <=> On(s, x) \/ x = e
  /\ \A S : \A s, r \in Seq(S) : \A x : On(s \o r, x) <=> On(s, x) \/ On(r, x)
<1>1. \A x : ~On(<<>>, x) BY EmptySeq DEF On
<1>2. ASSUME NEW S, NEW s \in Seq(S), NEW e \in S, NEW x
      PROVE  On(Append(s, e), x) <=> On(s, x) \/ x = e
  <2>1. /\ Len(s) \in Nat /\ Len(Append(s, e)) = Len(s) + 1 /\ Append(s, e)[Len(s) + 1] = e
        /\ \A i \in 1 .. Len(s) : Append(s, e)[i] = s[i]
    BY AppendProperties, LenProperties
  <2>2. \A i \in 1 .. Len(s) + 1 : i = Len(s) + 1 \/ i \in 1 .. Len(s) BY <2>1
  <2>3. 1 .. Len(s) \subseteq 1 .. Len(s) + 1 /\ Len(s) + 1 \in 1 .. Len(s) + 1 BY <2>1
  <2> QED BY <2>1, <2>2, <2>3 DEF On
<1>3. ASSUME NEW S, NEW s \in Seq(S), NEW r \in Seq(S), NEW x
      PROVE  On(s \o r, x) <=> On(s, x) \/ On(r, x)
  <2>1. /\ Len(s) \in Nat /\ Len(r) \in Nat /\ Len(s \o r) = Len(s) + Len(r)
        /\ \A i \in 1 .. Len(s) + Len(r) : (s \o r)[i] = IF i <= Len(s) THEN s[i] ELSE r[i - Len(s)]
    BY ConcatProperties, LenProperties
  <2>2. ASSUME On(s \o r, x) PROVE On(s, x) \/ On(r, x)
    <3>1. PICK i \in 1 .. Len(s) + Len(r) : (s \o r)[i] = x BY <2>1, <2>2 DEF On
    <3>2. CASE i <= Len(s) BY <2>1, <3>1, <3>2 DEF On
    <3>3. CASE ~(i <= Len(s))
      <4>1. i - Len(s) \in 1 .. Len(r) BY <2>1, <3>1, <3>3
      <4> QED BY <2>1, <3>1, <3>3, <4>1 DEF On
    <3> QED BY <3>2, <3>3
  <2>3. ASSUME On(s, x) PROVE On(s \o r, x)
    <3>1. PICK i \in 1 .. Len(s) : s[i] = x BY <2>3 DEF On
    <3>2. i \in 1 .. Len(s) + Len(r) /\ i <= Len(s) BY <2>1, <3>1
    <3> QED BY <2>1, <3>1, <3>2 DEF On
  <2>4. ASSUME On(r, x) PROVE On(s \o r, x)
    <3>1. PICK i \in 1 .. Len(r) : r[i] = x BY <2>4 DEF On
    <3>2. /\ Len(s) + i \in 1 .. Len(s) + Len(r) /\ ~(Len(s) + i <= Len(s))
          /\ Len(s) + i - Len(s) = i
      BY <2>1, <3>1
    <3> QED BY <2>1, <3>1, <3>2 DEF On
  <2> QED BY <2>2, <2>3, <2>4
<1> QED BY <1>1, <1>2, <1>3

\* Once the card is somebody else's, the writer has nothing on its way to it.
LEMMA NothingInFlight ==
  ASSUME LogIInv, Calm \/ Orderly, NEW t \in Threads, UsesCard(t), why[t] # "writer"
  PROVE  Log!InFlight = <<>>
<1> USE LogThreads DEF LogIInv, Crashes, LocksHeld, Log!InFlight
<1>1. CASE Orderly BY <1>1 DEF UsesCard
<1>2. CASE ~Orderly
  <2>1. Calm /\ ~hasIo BY <1>2 DEF Calm, Orderly
  <2>2. logAt[Writer] = "gone" BY <2>1
  <2> QED BY <2>2
<1> QED BY <1>1, <1>2

LEMMA OrderlyBefore ==
  ASSUME LogIInv, Log!Next
  PROVE  (Orderly' => Orderly) /\ (InItsOwnWay /\ Orderly' => InItsOwnWay')
<1> USE LogThreads DEF LogIInv, Log!made, Log!locks, Log!card, Log!history, Log!bounds, Log!Goes, Log!GoesFor, Log!Unlocks, Log!Done, Log!Ready, Log!Drains, Log!log_close, Log!AfterLog, LogTyped, Errands, Errand, Crashes, Places, Reasons, Drains, Dead, Log!Crashed, Orderly, InItsOwnWay, LocksHeld, UsesCard
<1>1. ASSUME NEW t \in Threads, Log!log_printf(t) PROVE (Orderly' => Orderly) /\ (InItsOwnWay /\ Orderly' => InItsOwnWay')
  <2>1. PICK l \in {"open", "lock"} :
          logAt' = [logAt EXCEPT ![t] = l] /\ why' = [why EXCEPT ![t] = "line"]
    BY <1>1 DEF Log!log_printf
  <2>2. why[t] \notin Dead /\ UNCHANGED <<hasIo, strays, faults, waited, io_mtx>>
    BY <1>1 DEF Log!log_printf
  <2> QED BY <2>1, <2>2
<1>2. ASSUME NEW t \in Threads, Log!log_flush(t) PROVE (Orderly' => Orderly) /\ (InItsOwnWay /\ Orderly' => InItsOwnWay') BY <1>2 DEF Log!log_flush
<1>3. ASSUME NEW t \in Threads, Log!crash_handler(t) PROVE (Orderly' => Orderly) /\ (InItsOwnWay /\ Orderly' => InItsOwnWay') BY <1>3 DEF Log!crash_handler
<1>4. ASSUME NEW t \in Threads, Log!log_open_if_needed(t) PROVE (Orderly' => Orderly) /\ (InItsOwnWay /\ Orderly' => InItsOwnWay') BY <1>4 DEF Log!log_open_if_needed
<1>5. ASSUME NEW t \in Threads, Log!log_write_direct(t) PROVE (Orderly' => Orderly) /\ (InItsOwnWay /\ Orderly' => InItsOwnWay') BY <1>5 DEF Log!log_write_direct
<1>6. ASSUME NEW t \in Threads, Log!log_drain(t) PROVE (Orderly' => Orderly) /\ (InItsOwnWay /\ Orderly' => InItsOwnWay') BY <1>6 DEF Log!log_drain
<1>7. ASSUME NEW t \in Threads, Log!log_lock(t) PROVE (Orderly' => Orderly) /\ (InItsOwnWay /\ Orderly' => InItsOwnWay') BY <1>7 DEF Log!log_lock
<1>8. ASSUME NEW t \in Threads, Log!io_lock(t) PROVE (Orderly' => Orderly) /\ (InItsOwnWay /\ Orderly' => InItsOwnWay') BY <1>8 DEF Log!io_lock
<1>9. ASSUME NEW t \in Threads, Log!Put(t) PROVE (Orderly' => Orderly) /\ (InItsOwnWay /\ Orderly' => InItsOwnWay')
  <2>1. /\ issued' = issued + 1 /\ buf' = Append(buf, issued') /\ why[t] \notin Dead
        /\ logAt[t] = "put" /\ issued' \in Lines /\ prior' = prior
    <3>1. issued + 1 \in Lines BY DEF Lines
    <3> QED BY <1>9, <3>1 DEF Log!Put
  <2>2. PICK l \in {"idle", "report", "iolock"}, w \in {"line", "timed"} :
          /\ logAt' = [logAt EXCEPT ![t] = l] /\ why' = [why EXCEPT ![t] = w]
          /\ io_mtx' = io_mtx
    BY <1>9 DEF Log!Put
  <2>3. UNCHANGED <<hasIo, strays, faults, waited>> BY <1>9 DEF Log!Put
  <2> HIDE DEF LogIInv, Log!made, LogTyped, Errands, Errand, Crashes, Places, Reasons, LocksHeld, UsesCard
  <2>4. why \in [Threads -> Reasons] /\ logAt \in [Threads -> Places] BY DEF LogIInv, LogTyped
  <2> QED BY <2>1, <2>2, <2>3, <2>4
<1>10. ASSUME NEW t \in Threads, Log!Drained(t) PROVE (Orderly' => Orderly) /\ (InItsOwnWay /\ Orderly' => InItsOwnWay') BY <1>10 DEF Log!Drained
<1>11. ASSUME NEW t \in Threads, Log!log_panic(t) PROVE (Orderly' => Orderly) /\ (InItsOwnWay /\ Orderly' => InItsOwnWay') BY <1>11 DEF Log!log_panic
<1>12. ASSUME NEW t \in Threads, Log!LastFlush(t) PROVE (Orderly' => Orderly) /\ (InItsOwnWay /\ Orderly' => InItsOwnWay') BY <1>12 DEF Log!LastFlush
<1>13. ASSUME NEW t \in Threads, Log!LocksLog(t) PROVE (Orderly' => Orderly) /\ (InItsOwnWay /\ Orderly' => InItsOwnWay') BY <1>13 DEF Log!LocksLog
<1>14. ASSUME NEW t \in Threads, Log!LocksIo(t) PROVE (Orderly' => Orderly) /\ (InItsOwnWay /\ Orderly' => InItsOwnWay') BY <1>14 DEF Log!LocksIo
<1>15. CASE Log!Wakes
  <2>1. PICK l \in {"gone", "wlock"} :
          /\ logAt' = [logAt EXCEPT ![Writer] = l] /\ why' = [why EXCEPT ![Writer] = "writer"]
          /\ logAt[Writer] = "idle"
    BY <1>15 DEF Log!Wakes
  <2> QED BY <1>15, <2>1 DEF Log!Wakes
<1>16. CASE Log!WriterLocks BY <1>16 DEF Log!WriterLocks
<1>17. CASE Log!WriterSwaps BY <1>17 DEF Log!WriterSwaps
<1>18. CASE Log!WriterCloses BY <1>18 DEF Log!WriterCloses
<1>19. CASE Log!Waits BY <1>19 DEF Log!Waits
<1> QED BY <1>1, <1>2, <1>3, <1>4, <1>5, <1>6, <1>7, <1>8, <1>9, <1>10, <1>11, <1>12, <1>13, <1>14, <1>15, <1>16, <1>17, <1>18, <1>19 DEF Log!Next, Log!Step, Log!Lock, Log!Writes

LEMMA KeptStep ==
  ASSUME LogIInv, Log!Next,
         Orderly, Orderly', hasLog, g_panic, ~InItsOwnWay, NEW i \in 1 .. prior,
         \A j \in 1 .. prior : Kept(j)
  PROVE  Kept(i)'
<1> USE LogThreads, OnFacts, NothingInFlight DEF LogIInv, Log!made, Log!locks, Log!card, Log!history, Log!bounds, Log!Goes, Log!GoesFor, Log!Unlocks, Log!Done, Log!Ready, Log!Drains, Log!log_close, Log!AfterLog, LogTyped, Errands, Errand, Crashes, Places, Reasons, Drains, Dead, Log!Crashed, Orderly, InItsOwnWay, LocksHeld, UsesCard, Kept, Drawing, Dumps, Log!InFlight
<1>1. ASSUME NEW t \in Threads, Log!log_printf(t) PROVE Kept(i)'
  <2>1. /\ logAt' = [logAt EXCEPT ![t] = "open"] /\ why' = [why EXCEPT ![t] = "line"]
        /\ out' = [out EXCEPT ![t] = <<-1>>] /\ why[t] \notin Dead /\ logAt[t] \in {"idle", "report"}
    BY <1>1 DEF Log!log_printf, Log!Straight
  <2>2. written' = written /\ buf' = buf /\ prior' = prior BY <1>1 DEF Log!log_printf
  <2>3. Log!InFlight' = Log!InFlight BY <2>1
  <2> HIDE DEF Log!InFlight
  <2> QED BY <2>1, <2>2, <2>3
<1>2. ASSUME NEW t \in Threads, Log!log_flush(t) PROVE Kept(i)' BY <1>2 DEF Log!log_flush
<1>3. ASSUME NEW t \in Threads, Log!crash_handler(t) PROVE Kept(i)' BY <1>3 DEF Log!crash_handler
<1>4. ASSUME NEW t \in Threads, Log!log_open_if_needed(t) PROVE Kept(i)' BY <1>4 DEF Log!log_open_if_needed
<1>5. ASSUME NEW t \in Threads, Log!log_write_direct(t) PROVE Kept(i)' BY <1>5 DEF Log!log_write_direct
<1>6. ASSUME NEW t \in Threads, Log!log_drain(t) PROVE Kept(i)' BY <1>6 DEF Log!log_drain
<1>7. ASSUME NEW t \in Threads, Log!log_lock(t) PROVE Kept(i)' BY <1>7 DEF Log!log_lock
<1>8. ASSUME NEW t \in Threads, Log!io_lock(t) PROVE Kept(i)' BY <1>8 DEF Log!io_lock
<1>9. ASSUME NEW t \in Threads, Log!Put(t) PROVE Kept(i)'
  <2>1. /\ issued' = issued + 1 /\ buf' = Append(buf, issued') /\ why[t] \notin Dead
        /\ logAt[t] = "put" /\ issued' \in Lines /\ prior' = prior
    <3>1. issued + 1 \in Lines BY DEF Lines
    <3> QED BY <1>9, <3>1 DEF Log!Put
  <2>2. PICK l \in {"idle", "report", "iolock"}, w \in {"line", "timed"} :
          /\ logAt' = [logAt EXCEPT ![t] = l] /\ why' = [why EXCEPT ![t] = w]
          /\ io_mtx' = io_mtx
    BY <1>9 DEF Log!Put
  <2>3. On(buf', i) <=> On(buf, i)
    <3>1. i # issued' BY <2>1
    <3> QED BY <2>1, <3>1, OnFacts
  <2>4. written' = written /\ out' = out BY <1>9 DEF Log!Put
  <2>5. Log!InFlight' = Log!InFlight BY <2>1, <2>2, <2>4
  <2> HIDE DEF Log!InFlight
  <2> QED BY <2>1, <2>2, <2>3, <2>4, <2>5
<1>10. ASSUME NEW t \in Threads, Log!Drained(t) PROVE Kept(i)'
  <2>1. /\ logAt[t] = "drained" /\ buf' = buf /\ prior' = prior BY <1>10 DEF Log!Drained
  <2>2. /\ \A u \in Threads : u # t => logAt'[u] = logAt[u] /\ why'[u] = why[u]
        /\ logAt'[t] \in {"put", "idle", "report", "parked"} 
           \/ (logAt'[t] = "open" /\ why'[t] = "dump" /\ why[t] = "panic")
        /\ why'[t] \in {"dump", "last"} => why[t] \in {"panic", "last"}
        /\ why'[t] \notin {"panic", "writer"}
    <3>1. Log!Drained(t) /\ logAt \in [Threads -> Places] /\ why \in [Threads -> Reasons] BY <1>10
    <3> HIDE DEF Places, Reasons
    <3> QED BY ONLY <3>1, DrainedDoes
  <2>3. written' = written BY <1>10, DrainedDoes
  <2>4. \A u \in Threads : u # t => out'[u] = out[u]
    <3>1. Log!Drained(t) /\ out \in [Threads -> Seq(Int)] BY <1>10
    <3> QED BY ONLY <3>1, DrainedDoes
  <2>5. Log!InFlight' = Log!InFlight BY <2>1, <2>2, <2>4
  <2> HIDE DEF Log!InFlight
  <2> QED BY <2>1, <2>2, <2>3, <2>4, <2>5
<1>11. ASSUME NEW t \in Threads, Log!log_panic(t) PROVE Kept(i)' BY <1>11 DEF Log!log_panic
<1>12. ASSUME NEW t \in Threads, Log!LastFlush(t) PROVE Kept(i)' BY <1>12 DEF Log!LastFlush
<1>13. ASSUME NEW t \in Threads, Log!LocksLog(t) PROVE Kept(i)' BY <1>13 DEF Log!LocksLog
<1>14. ASSUME NEW t \in Threads, Log!LocksIo(t) PROVE Kept(i)'
  <2>1. /\ logAt[t] = "iolocking" /\ why[t] \in Drains /\ why' = [why EXCEPT ![t] = why[t]]
        /\ out' = [out EXCEPT ![t] = buf]
        /\ logAt' = [logAt EXCEPT ![t] = IF buf = <<>> THEN "drained" ELSE "open"]
    BY <1>14 DEF Log!LocksIo
  <2>2. written' = written /\ buf' = buf /\ prior' = prior BY <1>14 DEF Log!LocksIo
  <2>3. Log!InFlight' = Log!InFlight BY <2>1
  <2> HIDE DEF Log!InFlight
  <2> QED BY <2>1, <2>2, <2>3
<1>15. CASE Log!Wakes
  <2>1. PICK l \in {"gone", "wlock"} :
          /\ logAt' = [logAt EXCEPT ![Writer] = l] /\ why' = [why EXCEPT ![Writer] = "writer"]
          /\ logAt[Writer] = "idle"
    BY <1>15 DEF Log!Wakes
  <2> QED BY <1>15, <2>1 DEF Log!Wakes
<1>16. CASE Log!WriterLocks BY <1>16 DEF Log!WriterLocks
<1>17. CASE Log!WriterSwaps BY <1>17 DEF Log!WriterSwaps
<1>18. CASE Log!WriterCloses BY <1>18 DEF Log!WriterCloses
<1>19. CASE Log!Waits BY <1>19 DEF Log!Waits
<1> QED BY <1>1, <1>2, <1>3, <1>4, <1>5, <1>6, <1>7, <1>8, <1>9, <1>10, <1>11, <1>12, <1>13, <1>14, <1>15, <1>16, <1>17, <1>18, <1>19 DEF Log!Next, Log!Step, Log!Lock, Log!Writes


LEMMA NumberedFacts ==
  /\ \A n : NumberedFrom(<<>>, n)
  /\ \A S : \A s \in Seq(S), r \in Seq(S), n \in Nat :
       NumberedFrom(s, n) /\ NumberedFrom(r, n + Len(s)) => NumberedFrom(s \o r, n)
  /\ \A S : \A s \in Seq(S), n \in Nat :
       NumberedFrom(s, n) /\ n + Len(s) + 1 \in S => NumberedFrom(Append(s, n + Len(s) + 1), n)
<1>1. \A n : NumberedFrom(<<>>, n) BY EmptySeq DEF NumberedFrom
<1>2. ASSUME NEW S, NEW s \in Seq(S), NEW r \in Seq(S), NEW n \in Nat,
             NumberedFrom(s, n), NumberedFrom(r, n + Len(s))
      PROVE  NumberedFrom(s \o r, n)
  <2>1. /\ Len(s) \in Nat /\ Len(r) \in Nat /\ Len(s \o r) = Len(s) + Len(r)
        /\ \A i \in 1 .. Len(s) + Len(r) : (s \o r)[i] = IF i <= Len(s) THEN s[i] ELSE r[i - Len(s)]
    BY ConcatProperties, LenProperties
  <2>2. ASSUME NEW i \in 1 .. Len(s) + Len(r) PROVE (s \o r)[i] = n + i
    <3>1. CASE i <= Len(s) BY <1>2, <2>1, <3>1 DEF NumberedFrom
    <3>2. CASE ~(i <= Len(s))
      <4>1. i - Len(s) \in 1 .. Len(r) BY <2>1, <3>2
      <4>2. r[i - Len(s)] = n + Len(s) + (i - Len(s)) BY <1>2, <4>1 DEF NumberedFrom
      <4> QED BY <2>1, <3>2, <4>2
    <3> QED BY <3>1, <3>2
  <2> QED BY <2>1, <2>2 DEF NumberedFrom
<1>3. ASSUME NEW S, NEW s \in Seq(S), NEW n \in Nat, NumberedFrom(s, n), n + Len(s) + 1 \in S
      PROVE  NumberedFrom(Append(s, n + Len(s) + 1), n)
  <2> DEFINE e == n + Len(s) + 1
  <2>1. /\ Len(s) \in Nat /\ Len(Append(s, e)) = Len(s) + 1 /\ Append(s, e)[Len(s) + 1] = e
        /\ \A i \in 1 .. Len(s) : Append(s, e)[i] = s[i]
    BY <1>3, AppendProperties, LenProperties
  <2>2. \A i \in 1 .. Len(s) + 1 : i = Len(s) + 1 \/ i \in 1 .. Len(s) BY <2>1
  <2>3. e = n + (Len(s) + 1) BY <2>1
  <2> HIDE DEF e
  <2>4. \A i \in 1 .. Len(s) + 1 : Append(s, e)[i] = n + i
    BY <1>3, <2>1, <2>2, <2>3 DEF NumberedFrom
  <2>5. NumberedFrom(Append(s, e), n) BY <2>1, <2>4 DEF NumberedFrom
  <2> QED BY <2>5 DEF e
<1> QED BY <1>1, <1>2, <1>3

\* Until a fault only one thread at a time fills or empties the buffer, or writes.
LEMMA OneAtATime ==
  ASSUME LogIInv, Calm, NEW t \in Threads, NEW u \in Threads
  PROVE  /\ FillsBuffer(t) /\ FillsBuffer(u) => t = u
         /\ Drawing(u) \/ logAt[u] = "reset" => FillsBuffer(u)
         /\ Drawing(u) \/ logAt[u] = "reset" => UsesCard(u) /\ why[u] # "writer"
         /\ why[u] \notin Dead
<1>1. why[u] \notin Dead BY DEF LogIInv, Crashes, Calm
<1>2. Drawing(u) \/ logAt[u] = "reset" => why[u] \in Drains
  BY <1>1 DEF LogIInv, Errands, Errand, Drawing, Dead
<1>3. FillsBuffer(t) /\ FillsBuffer(u) => t = u BY DEF LogIInv, LocksHeld
<1> QED BY <1>1, <1>2, <1>3 DEF Drawing, FillsBuffer, UsesCard, Drains

LEMMA InFlightTyped == LogIInv => Log!InFlight \in Seq(Int)
BY LogThreads DEF LogIInv, LogTyped, Log!InFlight

LEMMA InOrderCalmStep ==
  ASSUME LogIInv, Log!Next, InOrder, Calm, Calm'
  PROVE  InOrder'
<1> USE LogThreads DEF LogIInv, Log!made, Log!locks, Log!card, Log!history, Log!bounds, Log!Goes, Log!GoesFor, Log!Unlocks, Log!Done, Log!Ready, Log!Drains, Log!log_close, Log!AfterLog, LogTyped, Errands, Errand, Crashes, Places, Reasons, Drains, Dead, Log!Crashed, Calm, LocksHeld, FillsBuffer, UsesCard, Log!InFlight
<1>1. ASSUME NEW t \in Threads, Log!log_printf(t) PROVE InOrder'
  <2>1. written' = written /\ buf' = buf /\ issued' = issued BY <1>1 DEF Log!log_printf
  <2>2. Log!InFlight' = Log!InFlight BY <1>1 DEF Log!log_printf
  <2>3. Resetting' <=> Resetting BY <1>1 DEF Log!log_printf, Resetting
  <2>4. \A u \in Threads : Drawing(u)' => out'[u] = buf
    <3>1. logAt' = [logAt EXCEPT ![t] = "lock"] /\ why' = [why EXCEPT ![t] = "line"] /\ out' = out
      BY <1>1 DEF Log!log_printf
    <3> QED BY <3>1 DEF Drawing, InOrder
  <2> HIDE DEF Log!InFlight
  <2> QED BY ONLY <2>1, <2>2, <2>3, <2>4, InOrder, Calm DEF InOrder
<1>2. ASSUME NEW t \in Threads, Log!log_flush(t) PROVE InOrder'
  <2>1. written' = written /\ buf' = buf /\ issued' = issued BY <1>2 DEF Log!log_flush
  <2>2. Log!InFlight' = Log!InFlight BY <1>2 DEF Log!log_flush
  <2>3. Resetting' <=> Resetting BY <1>2 DEF Log!log_flush, Resetting
  <2>4. \A u \in Threads : Drawing(u)' => out'[u] = buf BY <1>2 DEF Log!log_flush, Drawing, InOrder
  <2> HIDE DEF Log!InFlight
  <2> QED BY ONLY <2>1, <2>2, <2>3, <2>4, InOrder, Calm DEF InOrder
<1>3. ASSUME NEW t \in Threads, Log!crash_handler(t) PROVE InOrder'
  <2> QED BY <1>3 DEF Log!crash_handler, Calm, InOrder
<1>4. ASSUME NEW t \in Threads, Log!log_open_if_needed(t) PROVE InOrder'
  <2>1. written' = written /\ buf' = buf /\ issued' = issued BY <1>4 DEF Log!log_open_if_needed
  <2>2. Log!InFlight' = Log!InFlight BY <1>4 DEF Log!log_open_if_needed
  <2>3. Resetting' <=> Resetting BY <1>4 DEF Log!log_open_if_needed, Resetting
  <2>4. \A u \in Threads : Drawing(u)' => out'[u] = buf BY <1>4 DEF Log!log_open_if_needed, Drawing, InOrder
  <2> HIDE DEF Log!InFlight
  <2> QED BY ONLY <2>1, <2>2, <2>3, <2>4, InOrder, Calm DEF InOrder
<1>5. ASSUME NEW t \in Threads, Log!log_write_direct(t) PROVE InOrder'
  <2>1. /\ logAt[t] = "write" /\ written' = (IF fd THEN written \o out[t] ELSE written)
        /\ out' = [out EXCEPT ![t] = <<>>] /\ why' = why /\ buf' = buf /\ issued' = issued
    BY <1>5 DEF Log!log_write_direct
  <2>2. why[t] \in Drains \cup {"writer"}
    <3>1. why[t] # "line" BY <2>1 DEF Calm
    <3> QED BY <3>1, <2>1 DEF Calm
  <2>3. fd BY <2>1, <2>2 DEF UsesCard
  <2>4. written \in Seq(Int) /\ out[t] \in Seq(Int) /\ NumberedFrom(written, 0) BY DEF InOrder
  <2>5. Len(written) \in Nat /\ Len(out[t]) \in Nat /\ Len(written') = Len(written) + Len(out[t])
    BY <2>1, <2>3, <2>4, ConcatProperties, LenProperties
  <2>6. CASE why[t] = "writer"
    <3>1. t = Writer /\ Log!InFlight = out[t] BY <2>1, <2>6
    <3>2. logAt' = [logAt EXCEPT ![t] = "close"] BY <1>5, <2>1, <2>6 DEF Log!log_write_direct
    <3>3. Log!InFlight' = <<>> BY <2>1, <3>1, <3>2
    <3>4. NumberedFrom(written', 0)
      BY <2>1, <2>3, <2>4, <3>1, NumberedFacts DEF InOrder
    <3>5. Resetting' <=> Resetting BY <2>1, <3>2 DEF Resetting
    <3>6. \A u \in Threads : Drawing(u)' => Drawing(u) /\ out'[u] = out[u]
      BY <2>1, <2>6, <3>2 DEF Drawing
    <3>7. Len(Log!InFlight') = 0 BY <3>3, EmptySeq
    <3>8. NumberedFrom(Log!InFlight', Len(written')) BY <3>3, NumberedFacts
    <3>9. /\ ~Resetting => /\ NumberedFrom(buf, Len(written) + Len(out[t]))
                           /\ issued = Len(written) + Len(out[t]) + Len(buf)
          /\ Resetting => issued = Len(written) + Len(out[t])
      BY <3>1 DEF InOrder
    <3>10. \A u \in Threads : Drawing(u)' => out'[u] = buf BY <3>6 DEF InOrder
    <3> HIDE DEF Log!InFlight
    <3>11. Len(written') + Len(Log!InFlight') = Len(written) + Len(out[t]) BY <2>5, <3>7
    <3> QED BY ONLY <2>1, <3>4, <3>5, <3>8, <3>9, <3>10, <3>11 DEF InOrder
  <2>7. CASE why[t] \in Drains
    <3>1. Drawing(t) /\ FillsBuffer(t) /\ UsesCard(t) BY <2>1, <2>7 DEF Drawing
    <3>2. out[t] = buf BY <3>1 DEF InOrder
    <3>3. Log!InFlight = <<>> BY <2>7, <3>1, NothingInFlight
    <3>4. logAt' = [logAt EXCEPT ![t] = "reset"] BY <1>5, <2>1, <2>7 DEF Log!log_write_direct
    <3>5. ~Resetting /\ Resetting'
      <4>1. \A u \in Threads : logAt[u] = "reset" => u = t BY <3>1, OneAtATime
      <4> QED BY <4>1, <2>1, <3>4 DEF Resetting
    <3>6. Log!InFlight' = <<>> BY <2>1, <2>7, <3>3, <3>4
    <3>7. NumberedFrom(buf, Len(written)) /\ issued = Len(written) + Len(buf)
      BY <2>5, <3>2, <3>3, <3>5, EmptySeq DEF InOrder
    <3>8. NumberedFrom(written', 0)
      <4>1. Len(written) = 0 + Len(written) BY <2>5
      <4> QED BY <2>1, <2>3, <2>4, <3>2, <3>7, <4>1, NumberedFacts
    <3>9. \A u \in Threads : ~Drawing(u)'
      BY <2>1, <3>1, <3>4, OneAtATime DEF Drawing
    <3>10. NumberedFrom(Log!InFlight', Len(written')) /\ Len(Log!InFlight') = 0
      BY <3>6, NumberedFacts, EmptySeq
    <3> HIDE DEF Log!InFlight
    <3>11. issued' = Len(written') + Len(Log!InFlight') BY <2>1, <2>5, <3>2, <3>7, <3>10
    <3> QED BY ONLY <3>5, <3>8, <3>9, <3>10, <3>11 DEF InOrder
  <2> QED BY <2>2, <2>6, <2>7
<1>6. ASSUME NEW t \in Threads, Log!log_drain(t) PROVE InOrder'
  <2>1. /\ logAt[t] = "reset" /\ buf' = <<>> /\ logAt' = [logAt EXCEPT ![t] = "drained"]
        /\ why' = why /\ out' = out /\ written' = written /\ issued' = issued
    BY <1>6 DEF Log!log_drain
  <2>2. Resetting /\ ~Resetting'
    <3>1. \A u \in Threads : logAt[u] = "reset" => u = t BY <2>1, OneAtATime
    <3> QED BY <2>1, <3>1 DEF Resetting
  <2>3. \A u \in Threads : ~Drawing(u)'
    <3>1. \A u \in Threads : Drawing(u) => u = t BY <2>1, OneAtATime
    <3> QED BY <2>1, <3>1 DEF Drawing
  <2>4. Log!InFlight' = Log!InFlight BY <2>1
  <2>5. Len(written) \in Nat /\ Len(Log!InFlight) \in Nat /\ Len(buf') = 0
    BY <2>1, InFlightTyped, LenProperties, EmptySeq
  <2>6. NumberedFrom(buf', Len(written) + Len(Log!InFlight)) BY <2>1, NumberedFacts
  <2> HIDE DEF Log!InFlight
  <2> QED BY <2>1, <2>2, <2>3, <2>4, <2>5, <2>6 DEF InOrder
<1>7. ASSUME NEW t \in Threads, Log!log_lock(t) PROVE InOrder'
  <2>1. written' = written /\ buf' = buf /\ issued' = issued BY <1>7 DEF Log!log_lock
  <2>2. Log!InFlight' = Log!InFlight BY <1>7 DEF Log!log_lock
  <2>3. Resetting' <=> Resetting BY <1>7 DEF Log!log_lock, Resetting
  <2>4. \A u \in Threads : Drawing(u)' => out'[u] = buf BY <1>7 DEF Log!log_lock, Drawing, InOrder
  <2> HIDE DEF Log!InFlight
  <2> QED BY ONLY <2>1, <2>2, <2>3, <2>4, InOrder, Calm DEF InOrder
<1>8. ASSUME NEW t \in Threads, Log!io_lock(t) PROVE InOrder'
  <2>1. written' = written /\ buf' = buf /\ issued' = issued BY <1>8 DEF Log!io_lock
  <2>2. Log!InFlight' = Log!InFlight BY <1>8 DEF Log!io_lock
  <2>3. Resetting' <=> Resetting BY <1>8 DEF Log!io_lock, Resetting
  <2>4. \A u \in Threads : Drawing(u)' => out'[u] = buf
    <3>1. PICK w \in {"overflow", "timed", "flush"} :
            /\ why' = [why EXCEPT ![t] = w]
            /\ \/ /\ logAt' = [logAt EXCEPT ![t] = IF buf = <<>> THEN "drained" ELSE "open"]
                  /\ out' = [out EXCEPT ![t] = buf]
               \/ logAt' = [logAt EXCEPT ![t] = "iolocking"] /\ out' = out
      BY <1>8 DEF Log!io_lock
    <3> QED BY <3>1 DEF Drawing, InOrder
  <2> HIDE DEF Log!InFlight
  <2> QED BY ONLY <2>1, <2>2, <2>3, <2>4, InOrder, Calm DEF InOrder
<1>9. ASSUME NEW t \in Threads, Log!Put(t) PROVE InOrder'
  <2>1. /\ logAt[t] = "put" /\ issued' = issued + 1 /\ buf' = Append(buf, issued + 1)
        /\ written' = written /\ out' = out
    BY <1>9 DEF Log!Put
  <2>2. PICK l \in {"idle", "report", "iolock"}, w \in {"line", "timed"} :
          logAt' = [logAt EXCEPT ![t] = l] /\ why' = [why EXCEPT ![t] = w]
    BY <1>9 DEF Log!Put
  <2>3. Log!InFlight' = Log!InFlight BY <2>1, <2>2
  <2>4. ~Resetting /\ ~Resetting'
    <3>1. \A u \in Threads : logAt[u] # "reset" BY <2>1, OneAtATime DEF FillsBuffer
    <3> QED BY <2>2, <3>1 DEF Resetting
  <2>5. \A u \in Threads : ~Drawing(u)'
    <3>1. \A u \in Threads : ~Drawing(u) BY <2>1, OneAtATime DEF FillsBuffer, Drawing
    <3> QED BY <2>2, <3>1 DEF Drawing
  <2>6. Len(written) \in Nat /\ Len(Log!InFlight) \in Nat /\ Len(buf) \in Nat
    BY InFlightTyped, LenProperties
  <2>7. /\ NumberedFrom(buf, Len(written) + Len(Log!InFlight))
        /\ issued = Len(written) + Len(Log!InFlight) + Len(buf)
    BY <2>4 DEF InOrder
  <2>8. issued + 1 \in Lines BY DEF Lines
  <2>9. Len(buf') = Len(buf) + 1 BY <2>1, <2>8, AppendProperties
  <2>10. NumberedFrom(buf', Len(written) + Len(Log!InFlight))
    <3> DEFINE n == Len(written) + Len(Log!InFlight)
    <3>1. n \in Nat /\ n + Len(buf) + 1 = issued + 1 /\ NumberedFrom(buf, n) BY <2>6, <2>7
    <3> HIDE DEF n
    <3>2. NumberedFrom(Append(buf, n + Len(buf) + 1), n) BY <3>1, <2>8, NumberedFacts
    <3> QED BY <2>1, <3>1, <3>2 DEF n
  <2> HIDE DEF Log!InFlight
  <2>11. issued' = Len(written') + Len(Log!InFlight') + Len(buf') BY <2>1, <2>3, <2>6, <2>7, <2>9
  <2> QED BY <2>1, <2>3, <2>4, <2>5, <2>10, <2>11 DEF InOrder
<1>10. ASSUME NEW t \in Threads, Log!Drained(t) PROVE InOrder'
  <2>1. written' = written /\ buf' = buf /\ issued' = issued BY <1>10 DEF Log!Drained
  <2>2. Log!InFlight' = Log!InFlight BY <1>10 DEF Log!Drained
  <2>3. Resetting' <=> Resetting BY <1>10 DEF Log!Drained, Resetting
  <2>4. \A u \in Threads : Drawing(u)' => out'[u] = buf
    <3>1. Log!Drained(t) /\ why[t] \in Drains /\ logAt \in [Threads -> Places]
          /\ why \in [Threads -> Reasons] /\ out \in [Threads -> Seq(Int)]
      BY <1>10 DEF Log!Drained
    <3>2. \A u \in Threads : Drawing(u)' => Drawing(u) /\ out'[u] = out[u]
      BY ONLY <3>1, DrainedDoes DEF Drawing, Drains
    <3> QED BY <3>2 DEF InOrder
  <2> HIDE DEF Log!InFlight
  <2> QED BY ONLY <2>1, <2>2, <2>3, <2>4, InOrder, Calm DEF InOrder
<1>11. ASSUME NEW t \in Threads, Log!log_panic(t) PROVE InOrder'
  <2> QED BY <1>11 DEF Log!log_panic, Calm, InOrder
<1>12. ASSUME NEW t \in Threads, Log!LastFlush(t) PROVE InOrder'
  <2> QED BY <1>12 DEF Log!LastFlush, Calm, InOrder
<1>13. ASSUME NEW t \in Threads, Log!LocksLog(t) PROVE InOrder'
  <2>1. written' = written /\ buf' = buf /\ issued' = issued BY <1>13 DEF Log!LocksLog
  <2>2. Log!InFlight' = Log!InFlight BY <1>13 DEF Log!LocksLog
  <2>3. Resetting' <=> Resetting BY <1>13 DEF Log!LocksLog, Resetting
  <2>4. \A u \in Threads : Drawing(u)' => out'[u] = buf BY <1>13 DEF Log!LocksLog, Drawing, InOrder
  <2> HIDE DEF Log!InFlight
  <2> QED BY ONLY <2>1, <2>2, <2>3, <2>4, InOrder, Calm DEF InOrder
<1>14. ASSUME NEW t \in Threads, Log!LocksIo(t) PROVE InOrder'
  <2>1. written' = written /\ buf' = buf /\ issued' = issued BY <1>14 DEF Log!LocksIo
  <2>2. Log!InFlight' = Log!InFlight
    <3>1. /\ logAt[t] = "iolocking" /\ why[t] \in Drains /\ why' = [why EXCEPT ![t] = why[t]]
          /\ out' = [out EXCEPT ![t] = buf]
          /\ logAt' = [logAt EXCEPT ![t] = IF buf = <<>> THEN "drained" ELSE "open"]
      BY <1>14 DEF Log!LocksIo
    <3> QED BY <3>1
  <2>3. Resetting' <=> Resetting
    <3>1. /\ logAt[t] = "iolocking"
          /\ logAt' = [logAt EXCEPT ![t] = IF buf = <<>> THEN "drained" ELSE "open"]
      BY <1>14 DEF Log!LocksIo
    <3>2. \A u \in Threads : logAt'[u] = "reset" <=> logAt[u] = "reset" BY <3>1
    <3> QED BY <3>2 DEF Resetting
  <2>4. \A u \in Threads : Drawing(u)' => out'[u] = buf BY <1>14 DEF Log!LocksIo, Drawing, InOrder
  <2> HIDE DEF Log!InFlight
  <2> QED BY ONLY <2>1, <2>2, <2>3, <2>4, InOrder, Calm DEF InOrder
<1>15. CASE Log!Wakes
  <2>1. written' = written /\ buf' = buf /\ issued' = issued BY <1>15 DEF Log!Wakes
  <2>2. Log!InFlight' = Log!InFlight BY <1>15 DEF Log!Wakes
  <2>3. Resetting' <=> Resetting BY <1>15 DEF Log!Wakes, Resetting
  <2>4. \A u \in Threads : Drawing(u)' => out'[u] = buf BY <1>15 DEF Log!Wakes, Drawing, InOrder
  <2> HIDE DEF Log!InFlight
  <2> QED BY ONLY <2>1, <2>2, <2>3, <2>4, InOrder, Calm DEF InOrder
<1>16. CASE Log!WriterLocks
  <2>1. written' = written /\ buf' = buf /\ issued' = issued BY <1>16 DEF Log!WriterLocks
  <2>2. Log!InFlight' = Log!InFlight BY <1>16 DEF Log!WriterLocks
  <2>3. Resetting' <=> Resetting BY <1>16 DEF Log!WriterLocks, Resetting
  <2>4. \A u \in Threads : Drawing(u)' => out'[u] = buf BY <1>16 DEF Log!WriterLocks, Drawing, InOrder
  <2> HIDE DEF Log!InFlight
  <2> QED BY ONLY <2>1, <2>2, <2>3, <2>4, InOrder, Calm DEF InOrder
<1>17. CASE Log!WriterSwaps
  <2>1. /\ logAt[Writer] = "wswap" /\ buf' = <<>> /\ out' = [out EXCEPT ![Writer] = buf]
        /\ logAt' = [logAt EXCEPT ![Writer] = "open"] /\ why' = why /\ why[Writer] = "writer"
        /\ written' = written /\ issued' = issued
    BY <1>17 DEF Log!WriterSwaps
  <2>2. Log!InFlight = <<>> /\ Log!InFlight' = buf BY <2>1
  <2>3. ~Resetting /\ ~Resetting'
    <3>1. \A u \in Threads : logAt[u] # "reset" BY <2>1, OneAtATime DEF FillsBuffer
    <3> QED BY <2>1, <3>1 DEF Resetting
  <2>4. \A u \in Threads : ~Drawing(u)'
    <3>1. \A u \in Threads : ~Drawing(u) BY <2>1, OneAtATime DEF FillsBuffer, Drawing
    <3> QED BY <2>1, <3>1 DEF Drawing
  <2>5. Len(written) \in Nat /\ Len(buf) \in Nat /\ Len(Log!InFlight) = 0 /\ Len(buf') = 0
    BY <2>1, <2>2, LenProperties, EmptySeq
  <2>6. NumberedFrom(buf, Len(written)) /\ issued = Len(written) + Len(buf)
    <3>1. Len(written) + Len(Log!InFlight) = Len(written) BY ONLY <2>5
    <3> QED BY <2>3, <3>1 DEF InOrder
  <2>7. NumberedFrom(buf', Len(written) + Len(buf)) BY <2>1, NumberedFacts
  <2> HIDE DEF Log!InFlight
  <2>8. issued' = Len(written') + Len(Log!InFlight') + Len(buf') BY <2>1, <2>2, <2>5, <2>6
  <2> QED BY <2>1, <2>2, <2>3, <2>4, <2>6, <2>7, <2>8 DEF InOrder
<1>18. CASE Log!WriterCloses
  <2>1. written' = written /\ buf' = buf /\ issued' = issued BY <1>18 DEF Log!WriterCloses
  <2>2. Log!InFlight' = Log!InFlight BY <1>18 DEF Log!WriterCloses
  <2>3. Resetting' <=> Resetting BY <1>18 DEF Log!WriterCloses, Resetting
  <2>4. \A u \in Threads : Drawing(u)' => out'[u] = buf BY <1>18 DEF Log!WriterCloses, Drawing, InOrder
  <2> HIDE DEF Log!InFlight
  <2> QED BY ONLY <2>1, <2>2, <2>3, <2>4, InOrder, Calm DEF InOrder
<1>19. CASE Log!Waits
  <2>1. written' = written /\ buf' = buf /\ issued' = issued BY <1>19 DEF Log!Waits
  <2>2. Log!InFlight' = Log!InFlight BY <1>19 DEF Log!Waits
  <2>3. Resetting' <=> Resetting BY <1>19 DEF Log!Waits, Resetting
  <2>4. \A u \in Threads : Drawing(u)' => out'[u] = buf BY <1>19 DEF Log!Waits, Drawing, InOrder
  <2> HIDE DEF Log!InFlight
  <2> QED BY ONLY <2>1, <2>2, <2>3, <2>4, InOrder, Calm DEF InOrder
<1> QED BY <1>1, <1>2, <1>3, <1>4, <1>5, <1>6, <1>7, <1>8, <1>9, <1>10, <1>11, <1>12, <1>13, <1>14, <1>15, <1>16, <1>17, <1>18, <1>19 DEF Log!Next, Log!Step, Log!Lock, Log!Writes

\* What no step undoes, and what only a fault or its handler does.
Stands ==
  /\ hasLog' = hasLog /\ hasIo' = hasIo /\ (g_panic => g_panic') /\ (strays => strays')
  /\ (g_panic' /\ ~g_panic => \E t \in Threads : Log!crash_handler(t))
  /\ (g_panic /\ faults' <= 1 => prior' = prior /\ faults' = faults)
  /\ (waited' /\ ~waited => \E t \in Threads : Log!log_panic(t))
  /\ (waited => waited')

LEMMA LogStands ==
  ASSUME LogIInv, Log!Next
  PROVE  Stands
<1> USE LogThreads DEF LogIInv, Log!made, Log!history, Log!bounds, LogTyped, Crashes, Stands
<1>1. ASSUME NEW t \in Threads, Log!log_printf(t) PROVE Stands
  <2>1. UNCHANGED <<hasLog, hasIo, g_panic, strays, prior, faults, waited>> BY <1>1 DEF Log!log_printf
  <2> QED BY <2>1
<1>2. ASSUME NEW t \in Threads, Log!log_flush(t) PROVE Stands BY <1>2 DEF Log!log_flush
<1>3. ASSUME NEW t \in Threads, Log!crash_handler(t) PROVE Stands
  <2>1. /\ UNCHANGED <<hasLog, hasIo, strays, waited>> /\ g_panic' = TRUE /\ faults' = faults + 1
    BY <1>3 DEF Log!crash_handler
  <2>2. g_panic => ~(faults + 1 <= 1) OBVIOUS
  <2>3. \E u \in Threads : Log!crash_handler(u) BY <1>3
  <2> QED BY ONLY <2>1, <2>2, <2>3 DEF Stands
<1>4. ASSUME NEW t \in Threads, Log!log_open_if_needed(t) PROVE Stands BY <1>4 DEF Log!log_open_if_needed
<1>5. ASSUME NEW t \in Threads, Log!log_write_direct(t) PROVE Stands BY <1>5 DEF Log!log_write_direct
<1>6. ASSUME NEW t \in Threads, Log!log_drain(t) PROVE Stands BY <1>6 DEF Log!log_drain
<1>7. ASSUME NEW t \in Threads, Log!log_lock(t) PROVE Stands BY <1>7 DEF Log!log_lock
<1>8. ASSUME NEW t \in Threads, Log!io_lock(t) PROVE Stands BY <1>8 DEF Log!io_lock
<1>9. ASSUME NEW t \in Threads, Log!Put(t) PROVE Stands BY <1>9 DEF Log!Put
<1>10. ASSUME NEW t \in Threads, Log!Drained(t) PROVE Stands BY <1>10 DEF Log!Drained
<1>11. ASSUME NEW t \in Threads, Log!log_panic(t) PROVE Stands BY <1>11 DEF Log!log_panic
<1>12. ASSUME NEW t \in Threads, Log!LastFlush(t) PROVE Stands BY <1>12 DEF Log!LastFlush
<1>13. ASSUME NEW t \in Threads, Log!LocksLog(t) PROVE Stands BY <1>13 DEF Log!LocksLog
<1>14. ASSUME NEW t \in Threads, Log!LocksIo(t) PROVE Stands BY <1>14 DEF Log!LocksIo
<1>15. CASE Log!Wakes BY <1>15 DEF Log!Wakes
<1>16. CASE Log!WriterLocks BY <1>16 DEF Log!WriterLocks
<1>17. CASE Log!WriterSwaps BY <1>17 DEF Log!WriterSwaps
<1>18. CASE Log!WriterCloses BY <1>18 DEF Log!WriterCloses
<1>19. CASE Log!Waits BY <1>19 DEF Log!Waits
<1> QED BY <1>1, <1>2, <1>3, <1>4, <1>5, <1>6, <1>7, <1>8, <1>9, <1>10, <1>11, <1>12, <1>13, <1>14, <1>15, <1>16, <1>17, <1>18, <1>19 DEF Log!Next, Log!Step, Log!Lock, Log!Writes

\* When a fault strikes, whatever was logged is somewhere.
LEMMA CrashKeeps ==
  ASSUME LogIInv, InOrder, Calm, NEW t \in Threads, Log!crash_handler(t),
         Orderly', ~InItsOwnWay', NEW i \in 1 .. prior'
  PROVE  Kept(i)'
<1>1. /\ prior' = issued /\ written' = written /\ buf' = buf /\ waited' = waited /\ hasIo' = hasIo
      /\ strays' = strays /\ io_mtx' = io_mtx /\ faults' = faults + 1
      /\ logAt' = [logAt EXCEPT ![t] = "panic"] /\ why' = [why EXCEPT ![t] = "panic"]
      /\ out' = [out EXCEPT ![t] = <<>>]
  BY DEF Calm, Log!crash_handler, Log!locks, Log!card, Log!made, Log!Goes, Log!GoesFor
<1>2. /\ logAt'[t] = "panic" /\ why'[t] = "panic"
      /\ \A u \in Threads : u # t => logAt'[u] = logAt[u] /\ why'[u] = why[u] /\ out'[u] = out[u]
  BY <1>1 DEF LogIInv, LogTyped
<1>3. ~waited /\ ~strays /\ faults = 0 /\ \A u \in Threads : why[u] \notin Dead
  BY DEF LogIInv, Crashes, Calm, LogTyped
<1>4. Orderly BY <1>1, <1>3 DEF Orderly
<1>5. ~UsesCard(t)
  <2>1. io_mtx # t BY <1>1, <1>2, <1>3 DEF InItsOwnWay, Dead
  <2> QED BY <1>4, <2>1 DEF LogIInv, LocksHeld
<1>6. Log!InFlight' = Log!InFlight
  <2>1. CASE t = Writer BY <1>2, <1>5, <2>1 DEF Log!InFlight, UsesCard
  <2>2. CASE t # Writer BY <1>2, <2>2, LogThreads DEF Log!InFlight
  <2> QED BY <2>1, <2>2
<1>7. /\ Len(written) \in Nat /\ Len(Log!InFlight) \in Nat /\ Len(buf) \in Nat /\ issued \in Nat
      /\ i \in Int /\ 1 <= i /\ i <= issued
  BY <1>1, InFlightTyped, LenProperties DEF LogIInv, LogTyped
<1>8. i <= Len(written) => On(written, i)
  <2> SUFFICES ASSUME i <= Len(written) PROVE On(written, i) OBVIOUS
  <2>1. i \in 1 .. Len(written) /\ 0 + i = i BY <1>7
  <2>2. written[i] = i BY <2>1 DEF InOrder, NumberedFrom
  <2> QED BY <2>1, <2>2 DEF On
<1>9. Len(written) < i /\ i <= Len(written) + Len(Log!InFlight) => On(Log!InFlight, i)
  <2> SUFFICES ASSUME Len(written) < i, i <= Len(written) + Len(Log!InFlight) PROVE On(Log!InFlight, i)
    OBVIOUS
  <2>1. i - Len(written) \in 1 .. Len(Log!InFlight) BY <1>7
  <2>2. Log!InFlight[i - Len(written)] = Len(written) + (i - Len(written))
    BY <2>1 DEF InOrder, NumberedFrom
  <2>3. Len(written) + (i - Len(written)) = i BY <1>7
  <2> QED BY <2>1, <2>2, <2>3 DEF On
<1>10. ~Resetting /\ Len(written) + Len(Log!InFlight) < i => On(buf, i)
  <2> SUFFICES ASSUME ~Resetting, Len(written) + Len(Log!InFlight) < i PROVE On(buf, i) OBVIOUS
  <2> DEFINE n == Len(written) + Len(Log!InFlight)
  <2>1. n \in Nat /\ n < i /\ i <= n + Len(buf) /\ NumberedFrom(buf, n) BY <1>7 DEF InOrder
  <2> HIDE DEF n
  <2>2. i - n \in 1 .. Len(buf) BY <1>7, <2>1
  <2>3. buf[i - n] = n + (i - n) BY <2>1, <2>2 DEF NumberedFrom
  <2>4. n + (i - n) = i BY <1>7, <2>1
  <2> QED BY <2>2, <2>3, <2>4 DEF On
<1>11. Resetting => i <= Len(written) + Len(Log!InFlight) BY <1>7 DEF InOrder
<1>12. On(written, i) \/ On(Log!InFlight, i) \/ On(buf, i)
  BY <1>7, <1>8, <1>9, <1>10, <1>11
<1>13. ASSUME NEW u \in Threads, logAt[u] = "reset" PROVE On(written, i)
  <2>1. UsesCard(u) /\ why[u] # "writer" BY <1>13, OneAtATime
  <2>2. Log!InFlight = <<>> BY <1>4, <2>1, NothingInFlight
  <2>3. Len(Log!InFlight) = 0 /\ Resetting BY <1>13, <2>2, EmptySeq DEF Resetting
  <2> QED BY <1>7, <1>8, <1>11, <2>3
<1>14. ASSUME NEW u \in Threads, Drawing(u)' PROVE out'[u] = buf
  <2>1. u # t /\ Drawing(u) BY <1>2, <1>14 DEF Drawing
  <2> QED BY <1>2, <2>1 DEF InOrder
<1>15. ASSUME NEW u \in Threads PROVE ~Dumps(u)'
  BY <1>2, <1>3 DEF Dumps, Dead
<1>16. \A u \in Threads : logAt'[u] = "reset" => logAt[u] = "reset" BY <1>2
<1> HIDE DEF Log!InFlight
<1> QED BY <1>1, <1>6, <1>12, <1>13, <1>14, <1>15, <1>16 DEF Kept

LEMMA EarlierKeptStep ==
  ASSUME LogIInv, InOrder, EarlierKept, Log!Next
  PROVE  EarlierKept'
<1> SUFFICES ASSUME Orderly', g_panic', hasLog', ~InItsOwnWay', NEW i \in 1 .. prior'
             PROVE  Kept(i)'
  BY DEF EarlierKept
<1>1. (Orderly /\ ~InItsOwnWay) \/ ~g_panic BY OrderlyBefore
<1>2. CASE g_panic
  <2>1. Orderly /\ ~InItsOwnWay /\ hasLog /\ prior' = prior
    BY <1>1, <1>2, LogStands, OrderlyBefore DEF Orderly, Stands
  <2>2. i \in 1 .. prior /\ \A j \in 1 .. prior : Kept(j) BY <1>2, <2>1 DEF EarlierKept
  <2> QED BY <1>2, <2>1, <2>2, KeptStep
<1>3. CASE ~g_panic
  <2>1. PICK t \in Threads : Log!crash_handler(t) BY <1>3, LogStands DEF Stands
  <2>2. Calm BY <1>3, LogStands DEF Calm, Stands
  <2> QED BY <2>1, <2>2, CrashKeeps
<1> QED BY <1>2, <1>3

\* The dump is only ever on its way from the thread that makes it.
LEMMA DumpsOnceAfter ==
  ASSUME DumpsOnce, NEW t \in Threads,
         \A u \in Threads : u # t => /\ logAt'[u] = logAt[u] /\ why'[u] = why[u]
                                     /\ out'[u] = out[u],
         why[t] \in {"dump", "last"} => why'[t] \in {"dump", "last"},
         On(out'[t], 0) => why'[t] = "dump" /\ logAt'[t] \in {"open", "write"},
         On(written', 0) => On(written, 0) \/ why'[t] = "dump"
  PROVE  DumpsOnce'
<1> HIDE DEF Threads
<1>1. ASSUME On(written', 0) PROVE \E c \in Threads : why'[c] \in {"dump", "last"}
  BY <1>1 DEF DumpsOnce
<1>2. ASSUME NEW u \in Threads, On(out'[u], 0) PROVE why'[u] = "dump" /\ logAt'[u] \in {"open", "write"}
  BY <1>2 DEF DumpsOnce
<1> QED BY <1>1, <1>2 DEF DumpsOnce

LEMMA DumpsOnceStep ==
  ASSUME LogIInv, Log!Next, DumpsOnce
  PROVE  DumpsOnce'
<1> DEFINE Others(t) == \A u \in Threads : u # t => /\ logAt'[u] = logAt[u] /\ why'[u] = why[u]
                                                    /\ out'[u] = out[u]
           Own(t) == /\ why[t] \in {"dump", "last"} => why'[t] \in {"dump", "last"}
                     /\ On(out'[t], 0) => why'[t] = "dump" /\ logAt'[t] \in {"open", "write"}
<1>0. ~On(buf, 0) BY DEF LogIInv, LogTyped, On, Lines
<1>a. ~On(<<-1>>, 0) /\ ~On(<<>>, 0)
  <2>1. Len(<<-1>>) = 1 /\ <<-1>>[1] = -1 OBVIOUS
  <2> QED BY <2>1, OnFacts DEF On
<1> USE LogThreads DEF LogIInv, Log!made, Log!locks, Log!card, Log!history, Log!bounds, Log!Goes, Log!GoesFor, Log!Unlocks, Log!Done, Log!Ready, Log!Drains, LogTyped, Errands, Errand, Crashes, Drains, Dead, Log!Crashed
<1>1. ASSUME NEW t \in Threads, Log!log_printf(t) PROVE DumpsOnce'
  <2>1. Others(t) /\ written' = written BY <1>1 DEF Log!log_printf
  <2>2. Own(t) BY <1>1, <1>0, <1>a DEF Log!log_printf, DumpsOnce, Log!Straight
  <2> QED BY ONLY DumpsOnce, t \in Threads, LogThreads, <2>1, <2>2, DumpsOnceAfter
<1>2. ASSUME NEW t \in Threads, Log!log_flush(t) PROVE DumpsOnce'
  <2>1. Others(t) /\ written' = written BY <1>2 DEF Log!log_flush
  <2>2. Own(t) BY <1>2, <1>0, <1>a DEF Log!log_flush, DumpsOnce
  <2> QED BY ONLY DumpsOnce, t \in Threads, LogThreads, <2>1, <2>2, DumpsOnceAfter
<1>3. ASSUME NEW t \in Threads, Log!crash_handler(t) PROVE DumpsOnce'
  <2>1. Others(t) /\ written' = written BY <1>3 DEF Log!crash_handler
  <2>2. Own(t) BY <1>3, <1>0, <1>a DEF Log!crash_handler, DumpsOnce
  <2> QED BY ONLY DumpsOnce, t \in Threads, LogThreads, <2>1, <2>2, DumpsOnceAfter
<1>4. ASSUME NEW t \in Threads, Log!log_open_if_needed(t) PROVE DumpsOnce'
  <2>1. Others(t) /\ written' = written BY <1>4 DEF Log!log_open_if_needed
  <2>2. Own(t) BY <1>4, <1>0, <1>a DEF Log!log_open_if_needed, DumpsOnce
  <2> QED BY ONLY DumpsOnce, t \in Threads, LogThreads, <2>1, <2>2, DumpsOnceAfter
<1>5. ASSUME NEW t \in Threads, Log!log_write_direct(t) PROVE DumpsOnce'
  <2>1. Others(t) /\ out'[t] = <<>> /\ why' = why BY <1>5 DEF Log!log_write_direct
  <2>2. Own(t) BY <2>1, <1>a
  <2>3. On(written', 0) => On(written, 0) \/ On(out[t], 0) BY <1>5, OnFacts DEF Log!log_write_direct
  <2>4. On(written', 0) => On(written, 0) \/ why'[t] = "dump" BY <2>1, <2>3 DEF DumpsOnce
  <2> QED BY ONLY DumpsOnce, t \in Threads, <2>1, <2>2, <2>4, DumpsOnceAfter
<1>6. ASSUME NEW t \in Threads, Log!log_drain(t) PROVE DumpsOnce'
  <2>1. Others(t) /\ written' = written BY <1>6 DEF Log!log_drain
  <2>2. Own(t) BY <1>6, <1>0, <1>a DEF Log!log_drain, DumpsOnce
  <2> QED BY ONLY DumpsOnce, t \in Threads, LogThreads, <2>1, <2>2, DumpsOnceAfter
<1>7. ASSUME NEW t \in Threads, Log!log_lock(t) PROVE DumpsOnce'
  <2>1. Others(t) /\ written' = written BY <1>7 DEF Log!log_lock
  <2>2. Own(t) BY <1>7, <1>0, <1>a DEF Log!log_lock, DumpsOnce
  <2> QED BY ONLY DumpsOnce, t \in Threads, LogThreads, <2>1, <2>2, DumpsOnceAfter
<1>8. ASSUME NEW t \in Threads, Log!io_lock(t) PROVE DumpsOnce'
  <2>1. Others(t) /\ written' = written BY <1>8 DEF Log!io_lock
  <2>2. Own(t) BY <1>8, <1>0, <1>a DEF Log!io_lock, DumpsOnce
  <2> QED BY ONLY DumpsOnce, t \in Threads, LogThreads, <2>1, <2>2, DumpsOnceAfter
<1>9. ASSUME NEW t \in Threads, Log!Put(t) PROVE DumpsOnce'
  <2>1. Others(t) /\ written' = written BY <1>9 DEF Log!Put
  <2>2. Own(t) BY <1>9, <1>0, <1>a DEF Log!Put, DumpsOnce
  <2> QED BY ONLY DumpsOnce, t \in Threads, LogThreads, <2>1, <2>2, DumpsOnceAfter
<1>10. ASSUME NEW t \in Threads, Log!Drained(t) PROVE DumpsOnce'
  <2>1. Others(t) /\ written' = written
    <3>1. Log!Drained(t) /\ logAt \in [Threads -> Places] /\ why \in [Threads -> Reasons] /\ out \in [Threads -> Seq(Int)]
      BY <1>10
    <3> QED BY ONLY <3>1, t \in Threads, DrainedDoes
  <2>2. /\ logAt[t] = "drained"
        /\ (why[t] \in {"dump", "last"} => why'[t] = why[t])
        /\ out'[t] = out[t] \/ (why'[t] = "dump" /\ logAt'[t] = "open")
    BY <1>10 DEF Log!Drained
  <2>3. Own(t) BY <2>2 DEF DumpsOnce
  <2> QED BY ONLY DumpsOnce, t \in Threads, <2>1, <2>2, <2>3, DumpsOnceAfter
<1>11. ASSUME NEW t \in Threads, Log!log_panic(t) PROVE DumpsOnce'
  <2>1. Others(t) /\ written' = written BY <1>11 DEF Log!log_panic
  <2>2. Own(t) BY <1>11, <1>0, <1>a DEF Log!log_panic, DumpsOnce
  <2> QED BY ONLY DumpsOnce, t \in Threads, LogThreads, <2>1, <2>2, DumpsOnceAfter
<1>12. ASSUME NEW t \in Threads, Log!LastFlush(t) PROVE DumpsOnce'
  <2>1. Others(t) /\ written' = written BY <1>12 DEF Log!LastFlush
  <2>2. Own(t) BY <1>12, <1>0, <1>a DEF Log!LastFlush, DumpsOnce
  <2> QED BY ONLY DumpsOnce, t \in Threads, LogThreads, <2>1, <2>2, DumpsOnceAfter
<1>13. ASSUME NEW t \in Threads, Log!LocksLog(t) PROVE DumpsOnce'
  <2>1. Others(t) /\ written' = written BY <1>13 DEF Log!LocksLog
  <2>2. Own(t) BY <1>13, <1>0, <1>a DEF Log!LocksLog, DumpsOnce
  <2> QED BY ONLY DumpsOnce, t \in Threads, LogThreads, <2>1, <2>2, DumpsOnceAfter
<1>14. ASSUME NEW t \in Threads, Log!LocksIo(t) PROVE DumpsOnce'
  <2>1. Others(t) /\ written' = written BY <1>14 DEF Log!LocksIo
  <2>2. Own(t) BY <1>14, <1>0, <1>a DEF Log!LocksIo, DumpsOnce
  <2> QED BY ONLY DumpsOnce, t \in Threads, LogThreads, <2>1, <2>2, DumpsOnceAfter
<1>15. CASE Log!Wakes
  <2>1. Others(Writer) /\ written' = written BY <1>15 DEF Log!Wakes
  <2>2. Own(Writer) BY <1>15, <1>0, <1>a DEF Log!Wakes, DumpsOnce
  <2> QED BY ONLY DumpsOnce, Writer \in Threads, LogThreads, <2>1, <2>2, DumpsOnceAfter
<1>16. CASE Log!WriterLocks
  <2>1. Others(Writer) /\ written' = written BY <1>16 DEF Log!WriterLocks
  <2>2. Own(Writer) BY <1>16, <1>0, <1>a DEF Log!WriterLocks, DumpsOnce
  <2> QED BY ONLY DumpsOnce, Writer \in Threads, LogThreads, <2>1, <2>2, DumpsOnceAfter
<1>17. CASE Log!WriterSwaps
  <2>1. Others(Writer) /\ written' = written BY <1>17 DEF Log!WriterSwaps
  <2>2. Own(Writer) BY <1>17, <1>0, <1>a DEF Log!WriterSwaps, DumpsOnce
  <2> QED BY ONLY DumpsOnce, Writer \in Threads, LogThreads, <2>1, <2>2, DumpsOnceAfter
<1>18. CASE Log!WriterCloses
  <2>1. Others(Writer) /\ written' = written BY <1>18 DEF Log!WriterCloses
  <2>2. Own(Writer) BY <1>18, <1>0, <1>a DEF Log!WriterCloses, DumpsOnce
  <2> QED BY ONLY DumpsOnce, Writer \in Threads, LogThreads, <2>1, <2>2, DumpsOnceAfter
<1>19. CASE Log!Waits
  <2>1. Others(Writer) /\ written' = written BY <1>19 DEF Log!Waits
  <2>2. Own(Writer) BY <1>19, <1>0, <1>a DEF Log!Waits, DumpsOnce
  <2> QED BY ONLY DumpsOnce, Writer \in Threads, LogThreads, <2>1, <2>2, DumpsOnceAfter
<1> QED BY <1>1, <1>2, <1>3, <1>4, <1>5, <1>6, <1>7, <1>8, <1>9, <1>10, <1>11, <1>12, <1>13, <1>14, <1>15, <1>16, <1>17, <1>18, <1>19 DEF Log!Next, Log!Step, Log!Lock, Log!Writes

\* Only log_write_direct adds to the file.
LEMMA OnlyWrites ==
  ASSUME Log!Next
  PROVE  \/ written' = written
         \/ \E t \in Threads : written' = written \o out[t]
<1> USE DEF Log!card
<1>1. ASSUME NEW t \in Threads, Log!log_printf(t) PROVE written' = written BY <1>1 DEF Log!log_printf
<1>2. ASSUME NEW t \in Threads, Log!log_flush(t) PROVE written' = written BY <1>2 DEF Log!log_flush
<1>3. ASSUME NEW t \in Threads, Log!crash_handler(t) PROVE written' = written BY <1>3 DEF Log!crash_handler
<1>4. ASSUME NEW t \in Threads, Log!log_open_if_needed(t) PROVE written' = written BY <1>4 DEF Log!log_open_if_needed
<1>5. ASSUME NEW t \in Threads, Log!log_write_direct(t) PROVE \E u \in Threads : written' \in {written, written \o out[u]}
  BY <1>5 DEF Log!log_write_direct
<1>6. ASSUME NEW t \in Threads, Log!log_drain(t) PROVE written' = written BY <1>6 DEF Log!log_drain
<1>7. ASSUME NEW t \in Threads, Log!log_lock(t) PROVE written' = written BY <1>7 DEF Log!log_lock
<1>8. ASSUME NEW t \in Threads, Log!io_lock(t) PROVE written' = written BY <1>8 DEF Log!io_lock
<1>9. ASSUME NEW t \in Threads, Log!Put(t) PROVE written' = written BY <1>9 DEF Log!Put
<1>10. ASSUME NEW t \in Threads, Log!Drained(t) PROVE written' = written BY <1>10, DrainedDoes
<1>11. ASSUME NEW t \in Threads, Log!log_panic(t) PROVE written' = written BY <1>11 DEF Log!log_panic
<1>12. ASSUME NEW t \in Threads, Log!LastFlush(t) PROVE written' = written BY <1>12 DEF Log!LastFlush
<1>13. ASSUME NEW t \in Threads, Log!LocksLog(t) PROVE written' = written BY <1>13 DEF Log!LocksLog
<1>14. ASSUME NEW t \in Threads, Log!LocksIo(t) PROVE written' = written BY <1>14 DEF Log!LocksIo
<1>15. CASE Log!Wakes BY <1>15 DEF Log!Wakes
<1>16. CASE Log!WriterLocks BY <1>16 DEF Log!WriterLocks
<1>17. CASE Log!WriterSwaps BY <1>17 DEF Log!WriterSwaps
<1>18. CASE Log!WriterCloses BY <1>18 DEF Log!WriterCloses
<1>19. CASE Log!Waits BY <1>19 DEF Log!Waits
<1> QED BY <1>1, <1>2, <1>3, <1>4, <1>5, <1>6, <1>7, <1>8, <1>9, <1>10, <1>11, <1>12, <1>13, <1>14, <1>15, <1>16, <1>17, <1>18, <1>19 DEF Log!Next, Log!Step, Log!Lock, Log!Writes

LEMMA DumpAfterEarlierStep ==
  ASSUME LogIInv, EarlierKept, DumpsOnce, Log!DumpAfterEarlier, Log!Next
  PROVE  Log!DumpAfterEarlier'
<1> SUFFICES ASSUME waited', faults' = 1, hasIo', ~strays',
                    NEW d \in DOMAIN written', written'[d] = 0, NEW i \in 1 .. prior'
             PROVE  \E j \in 1 .. d : written'[j] = i
  BY DEF Log!DumpAfterEarlier, Log!Dump
<1>1. Stands BY LogStands
<1>2. CASE waited
  <2>1. /\ g_panic /\ faults = 1 /\ prior' = prior /\ hasIo /\ ~strays
        /\ Orderly /\ ~InItsOwnWay
    BY <1>1, <1>2 DEF Stands, LogIInv, Crashes, LogTyped, Orderly, InItsOwnWay
  <2>2. /\ written \in Seq(Int) /\ Len(written) \in Nat /\ DOMAIN written = 1 .. Len(written)
        /\ i \in 1 .. prior
    BY <2>1, LenProperties DEF LogIInv, LogTyped
  <2>3. ASSUME d \in 1 .. Len(written), written'[d] = written[d],
               \A j \in 1 .. Len(written) : written'[j] = written[j]
        PROVE  \E j \in 1 .. d : written'[j] = i
    <3>1. PICK j \in 1 .. d : written[j] = i
      BY <1>2, <2>1, <2>2, <2>3 DEF Log!DumpAfterEarlier, Log!Dump
    <3>2. j \in 1 .. Len(written) BY <2>2, <2>3
    <3> QED BY <2>3, <3>1, <3>2
  <2>4. CASE written' = written BY <2>2, <2>3, <2>4
  <2>5. ASSUME NEW t \in Threads, written' = written \o out[t]
        PROVE  \E j \in 1 .. d : written'[j] = i
    <3>1. out[t] \in Seq(Int) BY DEF LogIInv, LogTyped
    <3>2. /\ Len(out[t]) \in Nat /\ d \in 1 .. Len(written) + Len(out[t])
          /\ \A k \in 1 .. Len(written) + Len(out[t]) :
               written'[k] = IF k <= Len(written) THEN written[k] ELSE out[t][k - Len(written)]
      BY <2>2, <2>5, <3>1, ConcatProperties, LenProperties
    <3>3. 1 .. Len(written) \subseteq 1 .. Len(written) + Len(out[t]) BY <2>2, <3>2
    <3>4. \A j \in 1 .. Len(written) : written'[j] = written[j] BY <2>2, <3>2, <3>3
    <3>5. CASE d <= Len(written)
      <4>1. d \in 1 .. Len(written) BY <2>2, <3>2, <3>5
      <4> QED BY <2>3, <3>4, <4>1
    <3>6. CASE ~(d <= Len(written))
      <4>1. d - Len(written) \in 1 .. Len(out[t]) BY <2>2, <3>2, <3>6
      <4>2. out[t][d - Len(written)] = 0 BY <3>2, <3>6
      <4>3. why[t] = "dump" BY <4>1, <4>2 DEF DumpsOnce, On
      <4>4. hasLog
        <5>1. hasLog \/ (issued = 0 /\ prior <= issued /\ prior \in Nat) BY DEF LogIInv, Crashes, LogTyped
        <5> QED BY <2>2, <5>1
      <4>5. On(written, i)
        BY <2>1, <2>2, <4>3, <4>4 DEF EarlierKept, Kept, Dumps
      <4>6. PICK j \in 1 .. Len(written) : written[j] = i BY <4>5 DEF On
      <4>7. j \in 1 .. d BY <2>2, <3>2, <3>6
      <4> QED BY <3>4, <4>6, <4>7
    <3> QED BY <3>5, <3>6
  <2> QED BY <2>4, <2>5, OnlyWrites
<1>3. CASE ~waited
  <2>1. PICK t \in Threads : Log!log_panic(t) BY <1>1, <1>3 DEF Stands
  <2>2. logAt[t] = "panic" /\ written' = written /\ faults' = faults
    BY <2>1 DEF Log!log_panic, Log!card, Log!bounds
  <2>3. why[t] = "panic" BY <2>2 DEF LogIInv, Errands, Errand
  <2>4. \A c \in Threads : why[c] \notin {"dump", "last"}
    BY <2>2, <2>3 DEF LogIInv, Crashes, Dead
  <2>5. ~On(written, 0) BY <2>4 DEF DumpsOnce
  <2>6. DOMAIN written = 1 .. Len(written) BY LenProperties DEF LogIInv, LogTyped
  <2> QED BY <2>2, <2>5, <2>6 DEF On
<1> QED BY <1>2, <1>3

LEMMA InOrderStep ==
  ASSUME LogIInv, InOrder, Log!Next
  PROVE  InOrder'
<1>1. Calm' => Calm BY LogStands DEF Stands, Calm
<1>2. CASE Calm' BY <1>1, <1>2, InOrderCalmStep
<1>3. CASE ~Calm' BY <1>3 DEF InOrder
<1> QED BY <1>2, <1>3

LEMMA LogInit ==
  ASSUME Log!Init
  PROVE  LogIInv /\ InOrder /\ EarlierKept /\ DumpsOnce /\ Log!DumpAfterEarlier
<1> USE LogThreads DEF Log!Init
<1>1. LogTyped
  <2>1. \A S : <<>> \in Seq(S) BY EmptySeq
  <2>2. logAt \in [Threads -> Places] BY Zenon DEF Places
  <2>3. why \in [Threads -> Reasons] BY Zenon DEF Reasons
  <2>4. out \in [Threads -> Seq(Int)] BY <2>1, Zenon
  <2> QED BY <2>1, <2>2, <2>3, <2>4 DEF LogTyped
<1>2. /\ \A t \in Threads : /\ logAt[t] = IF t = Writer /\ ~g_writer_up THEN "gone" ELSE "idle"
                            /\ why[t] = "line" /\ out[t] = <<>>
      /\ written = <<>> /\ buf = <<>> /\ ~g_panic /\ ~waited /\ ~strays /\ faults = 0
      /\ issued = 0 /\ prior = 0 /\ (g_writer_up => hasIo)
  OBVIOUS
<1> HIDE DEF Log!Init
<1>3. Errands BY <1>2 DEF Errands, Errand, Dead
<1>4. Crashes BY <1>2 DEF Crashes, Dead
<1>5. LocksHeld BY <1>2 DEF LocksHeld, FillsBuffer, UsesCard
<1>6. Log!InFlight = <<>> /\ ~Resetting /\ Len(<<>>) = 0 /\ \A n : NumberedFrom(<<>>, n)
  BY <1>2, EmptySeq, NumberedFacts DEF Log!InFlight, Resetting
<1>7. InOrder
  <2>1. \A t \in Threads : ~Drawing(t) BY <1>2 DEF Drawing
  <2>2. 0 = 0 + 0 + 0 OBVIOUS
  <2> QED BY ONLY <1>2, <1>6, <2>1, <2>2 DEF InOrder
<1>8. EarlierKept BY <1>2 DEF EarlierKept
<1>9. DumpsOnce BY <1>2, OnFacts DEF DumpsOnce
<1>10. Log!DumpAfterEarlier BY <1>2 DEF Log!DumpAfterEarlier
<1> QED BY <1>1, <1>3, <1>4, <1>5, <1>7, <1>8, <1>9, <1>10 DEF LogIInv

LEMMA NumberedIsAll ==
  ASSUME LogIInv, InOrder
  PROVE  Log!NothingReordered
<1> SUFFICES ASSUME Calm
             PROVE  written \o Log!InFlight \o (IF Log!Draining THEN <<>> ELSE buf)
                      = [i \in 1 .. issued |-> i]
  BY DEF Log!NothingReordered, Calm
<1> DEFINE rest == IF Resetting THEN <<>> ELSE buf
           all == written \o Log!InFlight \o rest
<1>1. Log!Draining <=> Resetting BY DEF Log!Draining, Resetting
<1>2. written \in Seq(Int) /\ Log!InFlight \in Seq(Int) /\ rest \in Seq(Int)
  <2>1. buf \in Seq(Int)
    <3>1. Lines \subseteq Int BY DEF Lines
    <3>2. buf \in Seq(Lines) BY DEF LogIInv, LogTyped
    <3> QED BY <3>1, <3>2, SeqMonotonic
  <2> QED BY <2>1, InFlightTyped, EmptySeq DEF LogIInv, LogTyped
<1>3. /\ NumberedFrom(written, 0) /\ NumberedFrom(Log!InFlight, Len(written))
      /\ NumberedFrom(rest, Len(written) + Len(Log!InFlight))
      /\ issued = Len(written) + Len(Log!InFlight) + Len(rest)
  <2>1. CASE Resetting
    <3>1. Len(written) \in Nat /\ Len(Log!InFlight) \in Nat /\ rest = <<>> /\ Len(rest) = 0
      BY <1>2, <2>1, LenProperties, EmptySeq
    <3> QED BY <2>1, <3>1, NumberedFacts DEF InOrder
  <2>2. CASE ~Resetting BY <2>2 DEF InOrder
  <2> QED BY <2>1, <2>2
<1> HIDE DEF rest
<1>4. Len(written) \in Nat /\ Len(Log!InFlight) \in Nat /\ Len(rest) \in Nat BY <1>2, LenProperties
<1>5. /\ written \o Log!InFlight \in Seq(Int)
      /\ Len(written \o Log!InFlight) = Len(written) + Len(Log!InFlight)
  BY <1>2, ConcatProperties
<1>6. NumberedFrom(written \o Log!InFlight, 0)
  <2>1. 0 + Len(written) = Len(written) BY <1>4
  <2> QED BY <1>2, <1>3, <2>1, NumberedFacts
<1>7. NumberedFrom(all, 0) /\ all \in Seq(Int) /\ Len(all) = issued
  <2>1. 0 + Len(written \o Log!InFlight) = Len(written) + Len(Log!InFlight) BY <1>4, <1>5
  <2>2. NumberedFrom(all, 0) BY <1>2, <1>3, <1>5, <1>6, <2>1, NumberedFacts
  <2>3. all \in Seq(Int) /\ Len(all) = Len(written \o Log!InFlight) + Len(rest)
    BY <1>2, <1>5, ConcatProperties
  <2> QED BY <1>3, <1>5, <2>2, <2>3
<1> HIDE DEF all
<1>8. /\ all = [i \in 1 .. Len(all) |-> all[i]]
      /\ \A i \in 1 .. issued : all[i] = i
  <2>1. \A i \in 1 .. issued : all[i] = 0 + i BY <1>7 DEF NumberedFrom
  <2>2. issued \in Nat BY DEF LogIInv, LogTyped
  <2>3. \A i \in 1 .. issued : 0 + i = i BY <2>2
  <2>4. all \in Seq(Int) BY <1>7
  <2> QED BY <2>1, <2>3, <2>4, LenProperties
<1>9. all = [i \in 1 .. issued |-> i] BY ONLY <1>7, <1>8
<1> QED BY <1>1, <1>9 DEF all, rest

LEMMA LogFrame == LogIInv /\ InOrder /\ EarlierKept /\ DumpsOnce /\ Log!DumpAfterEarlier
                  /\ UNCHANGED log =>
                    LogIInv' /\ InOrder' /\ EarlierKept' /\ DumpsOnce' /\ Log!DumpAfterEarlier'
BY DEF log, LogIInv, LogTyped, Errands, Errand, Crashes, LocksHeld, Calm, Orderly, FillsBuffer,
       UsesCard, InOrder, NumberedFrom, Log!InFlight, Resetting, Drawing, EarlierKept, Kept, Dumps,
       InItsOwnWay, DumpsOnce, On, Log!DumpAfterEarlier

-----------------------------------------------------------------------------

LogAll == LogIInv /\ InOrder /\ EarlierKept /\ DumpsOnce /\ Log!DumpAfterEarlier

\* The locks of the log are held where it needs them, and until a fault every line is where
\* its number says, after it every earlier one is in the buffer, on its way or on the card
\* (log.c:73-185, 280-315), for every number of threads, buffer size, lines and faults.
THEOREM LogInvariant == Spec => []LogAll
<1>1. Init => LogAll BY LogInit DEF Init, LogAll
<1>2. LogAll /\ [Next]_vars => LogAll'
  <2> SUFFICES ASSUME LogAll, [Next]_vars PROVE LogAll' OBVIOUS
  <2>1. CASE Log!Next
    <3>1. LogIInv'
      BY <2>1, LogTypedStep, ErrandsStep, CrashesStep, LocksHeldStep DEF LogAll, LogIInv
    <3>2. InOrder' /\ EarlierKept' /\ DumpsOnce' /\ Log!DumpAfterEarlier'
      BY <2>1, InOrderStep, EarlierKeptStep, DumpsOnceStep, DumpAfterEarlierStep DEF LogAll
    <3> QED BY <3>1, <3>2 DEF LogAll
  <2>2. CASE UNCHANGED log BY <2>2, LogFrame DEF LogAll
  <2> QED BY <2>1, <2>2 DEF Next, Voices, Loads, Logs, Pads, OnlyVoice, OnlyLoad, OnlyPad, vars
<1> QED BY <1>1, <1>2, PTL DEF Spec

\* What the file holds is in the order it happened: until a fault every line once and in
\* order (log.c:110-151, 284-312), after it all earlier ones ahead of the dump
\* (log.c:171-178).
THEOREM LogKeepsOrder == Spec => []LogInOrder
<1>1. LogAll => LogInOrder BY NumberedIsAll DEF LogAll, LogInOrder, Log!LogInOrder
<1> QED BY <1>1, LogInvariant, PTL

-----------------------------------------------------------------------------
(***************************************************************************)
(* The pad.  What the game will believe of the fingers when it has read    *)
(* the queue so far is a chain: it begins with what it believes now, each  *)
(* event fits the link before it, and it ends with what the pump follows.  *)
(***************************************************************************)

Hands == Fingers \cup {Pad!Nobody}
Events ==
  [type : {"axis"}, of : Axes, value : {-1, 0, 1}]
    \cup [type : {"down", "motion", "up"}, of : Hands, value : {0}]
    \cup {Pad!Button}

\* The finger the pump has told the game of, and not yet released.
Following == IF s_finger_down THEN s_finger_id ELSE Pad!Nobody

Fits(h, e) ==
  /\ (e.type = "down" => h = Pad!Nobody)
  /\ (e.type \in {"motion", "up"} => h = e.of)
After(h, e) ==
  IF e.type \in {"down", "motion"} THEN e.of ELSE IF e.type = "up" THEN Pad!Nobody ELSE h

Chain(h) ==
  /\ h[0] = held /\ h[Len(queue)] = Following
  /\ \A i \in 1 .. Len(queue) : Fits(h[i - 1], queue[i]) /\ h[i] = After(h[i - 1], queue[i])

PadIInv ==
  /\ queue \in Seq(Events) /\ s_finger_down \in BOOLEAN /\ s_finger_id \in Hands /\ held \in Hands
  /\ \E h \in [0 .. Len(queue) -> Hands] : Chain(h)
  /\ ~torn

LEMMA AfterTyped ==
  ASSUME NEW h \in Hands, NEW e \in Events
  PROVE  After(h, e) \in Hands
<1>1. CASE e \in [type : {"axis"}, of : Axes, value : {-1, 0, 1}] BY <1>1 DEF After
<1>2. CASE e \in [type : {"down", "motion", "up"}, of : Hands, value : {0}] BY <1>2 DEF After, Hands
<1>3. CASE e = Pad!Button BY <1>3 DEF After, Pad!Button
<1> QED BY <1>1, <1>2, <1>3 DEF Events

\* An event that fits what the pump has told so far is added to the chain.
LEMMA Pushed ==
  ASSUME PadIInv, NEW e \in Events, queue' = Append(queue, e), held' = held, ~torn',
         s_finger_down' \in BOOLEAN, s_finger_id' \in Hands,
         Fits(Following, e), Following' = After(Following, e)
  PROVE  PadIInv'
<1> DEFINE n == Len(queue)
<1>1. PICK h \in [0 .. n -> Hands] : Chain(h) BY DEF PadIInv
<1>2. /\ queue \in Seq(Events) /\ n \in Nat
      /\ queue' \in Seq(Events) /\ Len(queue') = n + 1 /\ queue'[n + 1] = e
      /\ \A i \in 1 .. n : queue'[i] = queue[i]
  BY AppendProperties, LenProperties DEF PadIInv
<1> HIDE DEF n
<1>3. h[n] = Following /\ h[n] \in Hands BY <1>1, <1>2 DEF Chain, n
<1>4. After(h[n], e) \in Hands BY <1>3, AfterTyped
<1>5. PICK g \in [0 .. n + 1 -> Hands] : g[n + 1] = After(h[n], e) /\ \A i \in 0 .. n : g[i] = h[i]
  <2> DEFINE f == [i \in 0 .. n + 1 |-> IF i = n + 1 THEN After(h[n], e) ELSE h[i]]
  <2>1. \A i \in 0 .. n + 1 : i = n + 1 \/ i \in 0 .. n BY <1>2
  <2>2. n + 1 \in 0 .. n + 1 /\ \A i \in 0 .. n : i \in 0 .. n + 1 /\ i # n + 1 BY <1>2
  <2>3. f \in [0 .. n + 1 -> Hands] /\ f[n + 1] = After(h[n], e) /\ \A i \in 0 .. n : f[i] = h[i]
    BY <1>4, <2>1, <2>2
  <2> QED BY <2>3
<1>6. ASSUME NEW i \in 1 .. n + 1
      PROVE  Fits(g[i - 1], queue'[i]) /\ g[i] = After(g[i - 1], queue'[i])
  <2>1. CASE i = n + 1
    <3>1. i - 1 = n /\ n \in 0 .. n BY <1>2, <2>1
    <3>2. g[i - 1] = h[n] /\ queue'[i] = e /\ g[i] = After(h[n], e) BY <1>2, <1>5, <2>1, <3>1
    <3> QED BY <1>3, <3>2
  <2>2. CASE i # n + 1
    <3>1. i \in 1 .. n /\ i - 1 \in 0 .. n /\ i \in 0 .. n BY <1>2, <2>2
    <3>2. g[i - 1] = h[i - 1] /\ g[i] = h[i] /\ queue'[i] = queue[i] BY <1>2, <1>5, <3>1
    <3> QED BY <1>1, <3>1, <3>2 DEF Chain, n
  <2> QED BY <2>1, <2>2
<1>7. g[0] = held'
  <2>1. 0 \in 0 .. n BY <1>2
  <2> QED BY <1>1, <1>5, <2>1 DEF Chain
<1>8. Chain(g)' BY <1>2, <1>3, <1>5, <1>6, <1>7 DEF Chain
<1>9. held' \in Hands BY DEF PadIInv
<1> QED BY <1>2, <1>5, <1>8, <1>9 DEF PadIInv

\* The game believes what the first event tells it, and the chain begins there.
LEMMA Shifted ==
  ASSUME PadIInv, queue # <<>>, queue' = Tail(queue),
         held' = After(held, Head(queue)), UNCHANGED <<s_finger_down, s_finger_id>>,
         Fits(held, Head(queue)) => ~torn'
  PROVE  PadIInv'
<1> DEFINE n == Len(queue)
<1>1. PICK h \in [0 .. n -> Hands] : Chain(h) BY DEF PadIInv
<1>2. /\ queue \in Seq(Events) /\ n \in Nat \ {0} /\ Head(queue) = queue[1] /\ Head(queue) \in Events
      /\ queue' \in Seq(Events) /\ Len(queue') = n - 1
      /\ \A i \in 1 .. n - 1 : queue'[i] = queue[i + 1]
  BY HeadTailProperties, EmptySeq DEF PadIInv
<1> HIDE DEF n
<1>3. 1 \in 1 .. n /\ 1 - 1 = 0 BY <1>2
<1>4. Fits(held, Head(queue)) /\ h[1] = After(held, Head(queue))
  BY <1>1, <1>2, <1>3 DEF Chain, n
<1>5. PICK g \in [0 .. n - 1 -> Hands] : \A i \in 0 .. n - 1 : g[i] = h[i + 1]
  <2> DEFINE f == [i \in 0 .. n - 1 |-> h[i + 1]]
  <2>1. \A i \in 0 .. n - 1 : i + 1 \in 0 .. n BY <1>2
  <2>2. f \in [0 .. n - 1 -> Hands] /\ \A i \in 0 .. n - 1 : f[i] = h[i + 1] BY <2>1
  <2> QED BY <2>2
<1>6. ASSUME NEW i \in 1 .. n - 1
      PROVE  Fits(g[i - 1], queue'[i]) /\ g[i] = After(g[i - 1], queue'[i])
  <2>1. i - 1 \in 0 .. n - 1 /\ i \in 0 .. n - 1 /\ i + 1 \in 1 .. n /\ i - 1 + 1 = i /\ i + 1 - 1 = i
    BY <1>2
  <2>2. g[i - 1] = h[i] /\ g[i] = h[i + 1] /\ queue'[i] = queue[i + 1] BY <1>2, <1>5, <2>1
  <2>3. Fits(h[i + 1 - 1], queue[i + 1]) /\ h[i + 1] = After(h[i + 1 - 1], queue[i + 1])
    BY <1>1, <2>1 DEF Chain, n
  <2> QED BY <2>1, <2>2, <2>3
<1>7. g[0] = held' /\ g[n - 1] = Following'
  <2>1. 0 \in 0 .. n - 1 /\ n - 1 \in 0 .. n - 1 /\ 0 + 1 = 1 /\ n - 1 + 1 = n BY <1>2
  <2>2. g[0] = h[1] /\ g[n - 1] = h[n] BY <1>5, <2>1
  <2>3. h[n] = Following BY <1>1 DEF Chain, n
  <2> QED BY <1>4, <2>2, <2>3 DEF Following
<1>8. Chain(g)' BY <1>2, <1>5, <1>6, <1>7 DEF Chain
<1>9. held' \in Hands BY <1>2, AfterTyped DEF PadIInv
<1>10. s_finger_down' \in BOOLEAN /\ s_finger_id' \in Hands BY DEF PadIInv
<1> QED BY <1>2, <1>4, <1>5, <1>8, <1>9, <1>10 DEF PadIInv

\* What the game gets, it believes; it finds it odd only when it does not fit.
LEMMA DeliversBelieved ==
  ASSUME NEW e \in Events, Pad!Delivers(e), ~torn
  PROVE  held' = After(held, e) /\ (Fits(held, e) => ~torn')
<1>1. e.type \in {"axis", "down", "motion", "up", "button"} BY DEF Events, Pad!Button
<1> QED BY <1>1 DEF Pad!Delivers, After, Fits

\* Nothing but the pump and the reader of the queue concerns the fingers.
LEMMA Unmoved ==
  ASSUME PadIInv, UNCHANGED <<queue, s_finger_down, s_finger_id, held>>, ~torn'
  PROVE  PadIInv'
BY DEF PadIInv, Chain, Following

LEMMA PadStep ==
  ASSUME PadIInv, Pad!Next
  PROVE  PadIInv'
<1> USE DEF Pad!finger, Pad!stick, Pad!resync, Pad!game, Pad!bounds, Pad!Push
<1>1. ASSUME NEW a \in Axes, NEW v \in Pad!Pushes \cup {Pad!Rest}, Pad!StickMoves(a, v)
      PROVE  PadIInv'
  <2>1. /\ Pad!Axis(a, v) \in Events /\ Fits(Following, Pad!Axis(a, v))
        /\ After(Following, Pad!Axis(a, v)) = Following
    BY DEF Pad!Axis, Events, Pad!Pushes, Pad!Rest, Fits, After
  <2>2. /\ queue' = Append(queue, Pad!Axis(a, v))
        /\ UNCHANGED <<s_finger_down, s_finger_id, held, torn>>
    BY <1>1 DEF Pad!StickMoves
  <2>3. Following' = Following BY <2>2 DEF Following
  <2> QED BY <2>1, <2>2, <2>3, Pushed DEF PadIInv
<1>2. CASE Pad!ButtonUp
  <2>1. /\ Pad!Button \in Events /\ Fits(Following, Pad!Button)
        /\ After(Following, Pad!Button) = Following
    BY DEF Pad!Button, Events, Fits, After
  <2>2. queue' = Append(queue, Pad!Button) /\ UNCHANGED <<s_finger_down, s_finger_id, held, torn>>
    BY <1>2 DEF Pad!ButtonUp
  <2>3. Following' = Following BY <2>2 DEF Following
  <2> QED BY <2>1, <2>2, <2>3, Pushed DEF PadIInv
<1>3. ASSUME Pad!Lifts, UNCHANGED <<s_finger_id, held, torn>> PROVE PadIInv'
  <2>1. CASE s_finger_down
    <3> DEFINE e == Pad!Finger("up", s_finger_id)
    <3>1. s_finger_id \in Hands BY DEF PadIInv
    <3>2. e \in Events /\ Fits(Following, e) /\ After(Following, e) = Pad!Nobody
      BY <2>1, <3>1 DEF Pad!Finger, Events, Pad!Rest, Fits, After, Following
    <3>3. queue' = Append(queue, e) /\ s_finger_down' = FALSE BY <1>3, <2>1 DEF Pad!Lifts
    <3>4. Following' = Pad!Nobody BY <3>3 DEF Following
    <3> QED BY <1>3, <3>1, <3>2, <3>3, <3>4, Pushed DEF PadIInv
  <2>2. CASE ~s_finger_down BY <1>3, <2>2, Unmoved DEF Pad!Lifts, PadIInv
  <2> QED BY <2>1, <2>2 DEF PadIInv
<1>4. CASE Pad!input_touch_pump
  <2>1. held' = held /\ torn' = torn BY <1>4 DEF Pad!input_touch_pump
  <2>2. CASE Pad!Lifts /\ s_finger_id' = s_finger_id BY <1>3, <2>1, <2>2
  <2>3. ASSUME NEW p \in Pad!Panels, NEW f \in Pad!Followed(p),
               Pad!Push(Pad!Finger(IF s_finger_down THEN "motion" ELSE "down", f)),
               s_finger_id' = f, s_finger_down' = TRUE
        PROVE  PadIInv'
    <3> DEFINE e == Pad!Finger(IF s_finger_down THEN "motion" ELSE "down", f)
    <3>1. f \in Hands
      <4>1. s_finger_id \in Hands BY DEF PadIInv
      <4>2. \A i \in DOMAIN p : p[i] \in Fingers BY DEF Pad!Panels, Pad!SeqOf
      <4> QED BY <4>1, <4>2 DEF Pad!Followed, Hands
    <3>2. s_finger_down => f = s_finger_id BY DEF Pad!Followed
    <3>3. e \in Events /\ Fits(Following, e) /\ After(Following, e) = f
      BY <3>1, <3>2 DEF Pad!Finger, Events, Pad!Rest, Fits, After, Following
    <3>4. Following' = f BY <2>3 DEF Following
    <3> QED BY <2>1, <2>3, <3>1, <3>3, <3>4, Pushed DEF PadIInv
  <2> QED BY <1>3, <1>4, <2>1, <2>2, <2>3 DEF Pad!input_touch_pump
<1>5. ASSUME NEW a \in Axes, NEW v, Pad!Delivers(Pad!Axis(a, v)) PROVE held' = held /\ ~torn'
  BY <1>5 DEF Pad!Delivers, Pad!Axis, PadIInv
<1>6. CASE Pad!resync_next
  <2>1. UNCHANGED <<queue, s_finger_down, s_finger_id>> BY <1>6 DEF Pad!resync_next
  <2>2. held' = held /\ ~torn' BY <1>6 DEF Pad!resync_next, Pad!Delivers, Pad!Axis, PadIInv
  <2> QED BY <2>1, <2>2, Unmoved
<1>7. CASE Pad!Polls
  <2>1. UNCHANGED <<queue, s_finger_down, s_finger_id>> BY <1>7 DEF Pad!Polls
  <2>2. held' = held /\ ~torn' BY <1>5, <1>7 DEF Pad!Polls, Pad!Expired, PadIInv
  <2> QED BY <2>1, <2>2, Unmoved
<1>8. CASE Pad!SDL_PollEvent
  <2>1. UNCHANGED <<s_finger_down, s_finger_id>> BY <1>8 DEF Pad!SDL_PollEvent
  <2>2. CASE queue = <<>> BY <1>8, <2>1, <2>2, Unmoved DEF Pad!SDL_PollEvent, PadIInv
  <2>3. CASE queue # <<>>
    <3>1. Head(queue) \in Events /\ ~torn BY <2>3, HeadTailProperties DEF PadIInv
    <3>2. queue' = Tail(queue) BY <1>8, <2>3 DEF Pad!SDL_PollEvent
    <3>3. CASE Pad!Swallows(Head(queue)) /\ UNCHANGED <<held, torn>>
      <4>1. After(held, Head(queue)) = held BY <3>3 DEF Pad!Swallows, After
      <4> QED BY <2>1, <2>3, <3>1, <3>2, <3>3, <4>1, Shifted
    <3>4. CASE Pad!Delivers(Head(queue))
      BY <2>1, <2>3, <3>1, <3>2, <3>4, DeliversBelieved, Shifted
    <3> QED BY <1>8, <2>3, <3>3, <3>4 DEF Pad!SDL_PollEvent
  <2> QED BY <2>2, <2>3
<1>9. CASE Pad!SDL_PeepEvents
  <2>1. /\ queue # <<>> /\ queue' = Tail(queue) /\ Pad!Delivers(Head(queue))
        /\ UNCHANGED <<s_finger_down, s_finger_id>>
    BY <1>9 DEF Pad!SDL_PeepEvents
  <2>2. Head(queue) \in Events /\ ~torn BY <2>1, HeadTailProperties DEF PadIInv
  <2> QED BY <2>1, <2>2, DeliversBelieved, Shifted
<1>10. CASE Pad!MenuToggles BY <1>10, Unmoved DEF Pad!MenuToggles, PadIInv
<1>11. ASSUME NEW a \in Axes, Pad!HoldPasses(a) PROVE PadIInv'
  BY <1>11, Unmoved DEF Pad!HoldPasses, PadIInv
<1>12. ASSUME NEW i \in Pad!Times, Pad!ResyncComes(i) PROVE PadIInv'
  BY <1>12, Unmoved DEF Pad!ResyncComes, PadIInv
<1> QED BY <1>1, <1>2, <1>4, <1>6, <1>7, <1>8, <1>9, <1>10, <1>11, <1>12
        DEF Pad!Next, Pad!Plays, Pad!Reads, Pad!Passes

LEMMA PadInit ==
  ASSUME Pad!Init
  PROVE  PadIInv
<1> USE DEF Pad!Init
<1>1. queue = <<>> /\ queue \in Seq(Events) /\ Len(queue) = 0 BY EmptySeq
<1> DEFINE h == [i \in 0 .. 0 |-> Pad!Nobody]
<1>2. h \in [0 .. Len(queue) -> Hands] /\ h[0] = Pad!Nobody BY <1>1 DEF Hands
<1>3. Chain(h) BY <1>1, <1>2 DEF Chain, Following
<1> QED BY <1>1, <1>2, <1>3 DEF PadIInv, Hands

\* The fingers the game is told of form a chain with what is still queued for it
\* (input_patch.c:147-260), for every number of fingers and any queue.
THEOREM PadInvariant == Spec => []PadIInv
<1>1. Init => PadIInv BY PadInit DEF Init
<1>2. PadIInv /\ [Next]_vars => PadIInv'
  <2> SUFFICES ASSUME PadIInv, [Next]_vars PROVE PadIInv' OBVIOUS
  <2>1. CASE Pad!Next BY <2>1, PadStep
  <2>2. CASE UNCHANGED pad BY <2>2 DEF pad, PadIInv, Chain, Following
  <2> QED BY <2>1, <2>2 DEF Next, Voices, Loads, Logs, Pads, OnlyVoice, OnlyLoad, OnlyLog, vars
<1> QED BY <1>1, <1>2, PTL DEF Spec

\* The game never sees a second finger land before the first is up, nor one move or leave
\* that is not the one it follows (input_patch.c:213-220).
THEOREM OneFingerFollowed == Spec => []OneFingerAtATime
<1>1. PadIInv => OneFingerAtATime BY DEF PadIInv, OneFingerAtATime, Pad!OneFingerAtATime
<1> QED BY <1>1, PadInvariant, PTL

=============================================================================
