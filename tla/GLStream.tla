------------------------------ MODULE GLStream ------------------------------
(***************************************************************************)
(* What the GL queue promises the game (loader/gl_thread.h): one stream of *)
(* GL calls, executed one at a time, each exactly once and in the order    *)
(* the game made them, whatever thread runs them.  A call that returns a   *)
(* value blocks its caller until it has run, and so until everything       *)
(* before it has run.  An asynchronous present is accepted only when every *)
(* earlier one is on the screen.                                           *)
(*                                                                         *)
(* GLQueue, the ring and its two threads, implements this module.          *)
(***************************************************************************)
EXTENDS Naturals, Sequences

Kinds == {"put", "rpc", "swap"}
Nothing == [id |-> 0, kind |-> "none"]

VARIABLES
  pending,  \* calls accepted and not yet executed, oldest first
  ran,      \* the last call executed; calls are numbered as they are made
  waiting,  \* the call whose return the game is blocked on, or Nothing
  answer    \* the last call that returned a value, 0 before the first

vars == <<pending, ran, waiting, answer>>

Init ==
  /\ pending = <<>>
  /\ ran = 0
  /\ waiting = Nothing
  /\ answer = 0

\* Every present accepted so far has been shown.
Presented == \A i \in DOMAIN pending : pending[i].kind # "swap"

\* The game makes a call. A value-returning call always blocks it; any other
\* may (before the queue starts every call runs on the spot).
Call(kind, blocks) ==
  LET call == [id |-> ran + Len(pending) + 1, kind |-> kind]
  IN  /\ waiting = Nothing
      /\ kind = "rpc" => blocks
      /\ kind = "swap" => Presented
      /\ pending' = Append(pending, call)
      /\ waiting' = IF blocks THEN call ELSE Nothing
      /\ UNCHANGED <<ran, answer>>

\* The oldest call that has not run yet runs.
Run ==
  /\ pending # <<>>
  /\ ran' = Head(pending).id
  /\ pending' = Tail(pending)
Execute == Run /\ UNCHANGED <<waiting, answer>>

\* The blocked call returns; a value-returning one hands over its own answer.
Unblock ==
  /\ waiting # Nothing
  /\ answer' = IF waiting.kind = "rpc" THEN waiting.id ELSE answer
  /\ waiting' = Nothing
Return ==
  /\ waiting.id = ran /\ pending = <<>>
  /\ Unblock
  /\ UNCHANGED <<pending, ran>>

\* The blocked call runs on its caller's own thread and returns.
RunInPlace == Len(pending) = 1 /\ Run /\ Unblock

Next ==
  \/ \E kind \in Kinds, blocks \in BOOLEAN : Call(kind, blocks)
  \/ Execute
  \/ Return
  \/ RunInPlace

\* A call somebody is blocked on is reached and returns. Nothing promises that
\* an unblocked call runs: it may sit unpublished until the next flush.
Fairness ==
  /\ WF_vars(waiting # Nothing /\ (Execute \/ RunInPlace))
  /\ WF_vars(Return)

Spec == Init /\ [][Next]_vars
FairSpec == Spec /\ Fairness
=============================================================================
