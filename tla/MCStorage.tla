----------------------------- MODULE MCStorage ------------------------------
(***************************************************************************)
(* Storage for TLC: datanodes and clusters of two bytes, texts that leave  *)
(* one unfilled, fill it and run over it, two descriptors; two files, one  *)
(* of whose names takes two slots and the other one, and a directory; and  *)
(* names of four characters in long slots of three.                        *)
(***************************************************************************)
EXTENDS Storage

CONSTANTS fd1, fd2, fileA, fileB

RW == {"read", "write"}
WA == {"write", "append"}

MCModes == {RW, WA}
MCSeeks == {<<"absolute", 0>>, <<"absolute", 3>>, <<"relative", -1>>, <<"bottom", 0>>}
MCTexts == {<<1>>, <<2, 1>>, <<1, 2, 1>>}

MCName == {fileA, fileB}
Symmetry == Permutations(Fd)
MCDirName == {"d"}
(* The first cluster of the root directory has three free slots left. *)
MCResidents == <<"LABEL", "r1", "r2">>
(* "data" stands for what a cluster of a file holds. *)
MCLfn ==
    [n \in MCName \cup MCDirName \cup {"data", ".", "..", "LABEL", "r1", "r2"} |->
        CASE n \in {".", "..", "LABEL", "data", fileB} -> 0
          [] n \in {"r1", "r2"} -> 5
          [] OTHER -> 1]

MCOthers == {<<"A">>, <<"a", ".", "+">>, <<"A", ".", "A">>, <<"a", "a", "a", "A">>, <<"A", "a", "a">>}
=============================================================================
