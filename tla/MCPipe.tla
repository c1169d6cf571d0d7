------------------------------- MODULE MCPipe -------------------------------
(***************************************************************************)
(* Instances of Pipe for TLC.                                              *)
(***************************************************************************)
EXTENDS Pipe, TLC

CONSTANTS r1, r2, w1, w2, b1, b2, null

MCSymmetry == Permutations({r1, r2}) \cup Permutations({w1, w2}) \cup Permutations(Byte)
=============================================================================
