------------------------------- MODULE MCHeap -------------------------------
(* Heap for TLC: what the two threads ask for, and the assets' decoded sizes. *)
EXTENDS Heap

CONSTANT loader

MCSizes == [t \in Threads |-> IF t = loader THEN {3} ELSE {1, 3}]
MCClips == <<2, 6>>
=============================================================================
