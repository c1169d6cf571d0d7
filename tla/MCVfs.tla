------------------------------- MODULE MCVfs --------------------------------
(***************************************************************************)
(* Vfs for TLC: a FAT32 partition d with a directory e with a file f, a    *)
(* file h beside d, a bind mount of d at m and a semaphore s.  With h/x a  *)
(* search fails at a file, with d/n an entry is made, m/e leads through    *)
(* the mount; d/E/f spells the directory otherwise and needs more new      *)
(* nodes than a search may make.                                           *)
(***************************************************************************)
EXTENDS Vfs, TLC

CONSTANTS p, q     \* two processes

MCEntries ==
    (<< >> :> "dir") @@ (<<"d">> :> "dir") @@ (<<"h">> :> "file") @@
    (<<"d", "e">> :> "dir") @@ (<<"d", "e", "f">> :> "file")

MCName == {"d", "e", "E", "f", "h", "m", "n", "s", "x"}
MCFold(a) == IF a = "E" THEN "e" ELSE a

MCPaths == {<<"d", "E", "f">>, <<"d", "e">>, <<"h", "x">>, <<"m", "e">>, <<"d", "n">>}
Symmetry == Permutations(Process)
MCSemPaths == {<<"s">>}
MCMounts == {<<<<"d">>, <<"m">>>>}
=============================================================================
