----------------------------- MODULE MCStorage ------------------------------
(***************************************************************************)
(* Storage for TLC.                                                        *)
(***************************************************************************)
EXTENDS Storage, TLC
CONSTANTS a1, a2, t1, t2

\* One archive of three bytes and an empty one, which has no index.
MCFileSize == [f \in Files |-> IF f = a1 THEN 3 ELSE 0]

\* Five files, of which two hash to the same slot in the set.
MCPaths == {"tlk", "vert", "tga", "mod", "sav"}
MCCacheable == MCPaths \ {"sav"}
MCFiles == ({"tga"} \X {"set"}) \cup (MCPaths \X {"root"})
MCHome == [f \in MCFiles |-> IF f[2] = "set" THEN 2 ELSE IF f[1] = "sav" THEN 3 ELSE 0]

\* TablesTellTrue says nothing once a read was disturbed: those behaviours end there.
MCUndisturbed == ~tainted
MCSymmetry == Permutations(Threads)
=============================================================================
