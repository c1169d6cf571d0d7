----------------------------- MODULE MCMachine -----------------------------
(***************************************************************************)
(* Machine for TLC: two user processes and two threads, a drive of three   *)
(* sectors of two words, dates around the ends of months and years.        *)
(***************************************************************************)
EXTENDS Machine
UserProcesses == {"u1", "u2"}
KernelThreads == {"idle", "kmain"}
PartitionTable == <<0, 1, 2>>
StartTimes ==
    {<<2000, 2, 28, 23, 2, 2>>, <<2024, 2, 29, 22, 2, 2>>, <<2023, 12, 31, 23, 2, 2>>,
     <<2099, 12, 31, 19, 2, 2>>, <<2010, 4, 29, 11, 2, 2>>, <<2010, 7, 30, 0, 1, 3>>,
     <<2009, 10, 30, 19, 2, 3>>}
=============================================================================
