----------------------------- MODULE MCSemaphore -----------------------------
(***************************************************************************)
(* Instances of Semaphore for TLC: the idle process, kmain and one or two  *)
(* further control blocks.                                                 *)
(***************************************************************************)
EXTENDS Semaphore, TLC

CONSTANTS idle, kmain, p1, p2, null, sem1, sem2

MCProc3 == {idle, kmain, p1}
MCProc4 == {idle, kmain, p1, p2}
MCSem1 == {sem1}
MCSem2 == {sem1, sem2}
MCCount == [s \in Sem |-> 1]
MCSymmetry == Permutations({p1, p2})
=============================================================================
