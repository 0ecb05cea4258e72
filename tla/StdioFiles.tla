----------------------------- MODULE StdioFiles -----------------------------
(***************************************************************************)
(* What the game asks of the files it opens for reading: each handle is    *)
(* its own position in an unchanging file, whoever else reads that file.   *)
(* A read hands over the bytes from the position on, as many as there are  *)
(* up to the number asked for, and moves the position past them; a read    *)
(* that hands over fewer sets the end of file mark.                        *)
(*                                                                         *)
(* ObbFiles, which shares one descriptor, an index and a RAM ring between  *)
(* all the handles of an archive, implements this module.                  *)
(***************************************************************************)
EXTENDS Integers, Sequences

CONSTANTS
  Handles,
  Files,
  FileSize,   \* bytes of each
  Positions,  \* where handles are moved to
  Lens        \* how much is read at once

VARIABLES
  open,  \* for each handle, [file, pos, eof] or Closed
  got    \* what the call just made handed over

vars == <<open, got>>

Closed == [file |-> "closed"]

Init ==
  /\ open = [h \in Handles |-> Closed]
  /\ got = <<>>

Open(h, f) ==
  /\ open[h] = Closed
  /\ open' = [open EXCEPT ![h] = [file |-> f, pos |-> 0, eof |-> FALSE]]
  /\ got' = <<>>

Close(h) ==
  /\ open' = [open EXCEPT ![h] = Closed]
  /\ got' = <<>>

Seek(h, pos) ==
  /\ open' = [open EXCEPT ![h].pos = pos, ![h].eof = FALSE]
  /\ got' = <<>>

\* What a read of n bytes of f from pos on hands over; a byte is a file and an
\* offset.
Bytes(f, pos, n) ==
  LET end == IF pos + n <= FileSize[f] THEN pos + n ELSE FileSize[f]
  IN  [i \in 1 .. end - pos |-> <<f, pos + i - 1>>]

Read(h, n) ==
  /\ got' = Bytes(open[h].file, open[h].pos, n)
  /\ open' = [open EXCEPT ![h].pos = @ + Len(got'), ![h].eof = @ \/ Len(got') < n]

\* The card refuses: nothing is handed over.
ReadError(h) ==
  /\ got' = <<>>
  /\ open' = [open EXCEPT ![h].eof = TRUE]

\* A call about some other file, or one that is refused.
Elsewhere ==
  /\ got' = <<>>
  /\ UNCHANGED open

\* The console is switched off and on.
Restart == Init'

Next ==
  \/ \E h \in Handles :
       \/ \E f \in Files : Open(h, f)
       \/ /\ open[h] # Closed
          /\ \/ Close(h)
             \/ \E pos \in Positions : Seek(h, pos)
             \/ \E n \in Lens : Read(h, n)
             \/ ReadError(h)
  \/ Elsewhere
  \/ Restart

Spec == Init /\ [][Next]_vars
=============================================================================
