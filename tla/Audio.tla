------------------------------- MODULE Audio --------------------------------
(***************************************************************************)
(* The FMOD the loader puts in the place of the game's: its voices and     *)
(* their ENDs (VoicePool), and one stream from the file's first byte to    *)
(* the mixer (StreamPlay).                                                 *)
(*                                                                         *)
(* VoicePool knows of a stream only who owns it and who feeds it, and      *)
(* StreamPlay of the voices only those of its own stream: each has its own *)
(* variables, and `part' picks whose behaviours these are.                 *)
(***************************************************************************)
EXTENDS VoicePool

CONSTANTS Length, MaxEs, Cap, Budget, HeadFrames, NChans, MaxTurns, MaxPos   \* StreamPlay

VARIABLES
  part,
  \* StreamPlay
  loop, loaded, done, lpc, dpos, deos, base, fill, eos, buf, feeder, restart, players, turn,
  mixer, at, snap, left, w, chunk, got, final, finish

Stream == INSTANCE StreamPlay WITH
  MaxGen <- MaxTurns,
  reader <- feeder, chan <- players, gen <- turn, apc <- mixer

ASSUME AudioAssumption == Stream!StreamAssumption

stream ==
  <<loop, loaded, done, lpc, dpos, deos, base, fill, eos, buf, feeder, restart, players, turn,
    mixer, at, snap, left, w, chunk, got, final, finish>>
all == <<part, vars, stream>>

AudioInit ==
  /\ part \in {"voices", "stream"}
  /\ Init /\ (part # "voices" => running)
  /\ Stream!Init /\ (part # "stream" => ~loop)

Pool == part = "voices" /\ Next /\ UNCHANGED <<part, stream>>
Playing == part = "stream" /\ Stream!Next /\ UNCHANGED <<part, vars>>

AudioNext == Pool \/ Playing

\* The audio thread runs once per grain; the loader runs when the others sleep.
Fair ==
  /\ WF_stream(part = "stream" /\ Stream!Audio)
  /\ WF_stream(part = "stream" /\ Stream!Loader)

AudioSpec == AudioInit /\ [][AudioNext]_all /\ Fair

-----------------------------------------------------------------------------
(* What the parts promise; each is stated, and its code named, in its module. *)

\* The ring's window holds the track, and a voice is never behind it (audio_ring.c:16-63).
WindowExact == Stream!WindowHoldsTrack /\ Stream!ReaderInWindow

\* A voice ends after the last frame, and what the game set during a grain stands
\* (audio_patch.c:935, 1051-1070).
PlaysExact == Stream!EndAfterLastFrame /\ Stream!SeeksStand

\* A voice ends, short or late as its file may be (audio_patch.c:1413-1431).
TracksEnd == Stream!TracksEnd
=============================================================================
