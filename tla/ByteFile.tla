------------------------------ MODULE ByteFile ------------------------------
(***************************************************************************)
(* What an open file promises: an array of bytes and a position for every  *)
(* descriptor.  kernel/src/filesystem/file_op.c offers this whatever file  *)
(* system is below it.                                                     *)
(***************************************************************************)
EXTENDS Integers, Sequences

CONSTANTS
    Fd,       \* descriptors
    Byte

VARIABLES
    content,  \* the bytes of the file
    pos,      \* position of each descriptor
    got       \* what the last call returned, if it was a read

vars == <<content, pos, got>>

Init ==
    /\ content = << >>
    /\ pos = [f \in Fd |-> 0]
    /\ got = << >>

Least(a, b) == IF a < b THEN a ELSE b

(* Array old with t stored at offset p is s, but for the bytes in lost.     *)
(* Bytes between the old end and p are nobody's: they may be anything.      *)
StoredBut(lost, old, s, t, p) ==
    /\ Len(s) = (IF t = << >> \/ p + Len(t) < Len(old) THEN Len(old) ELSE p + Len(t))
    /\ \A i \in (1..Len(s)) \ lost :
          IF i \in p + 1..p + Len(t) THEN s[i] = t[i - p]
          ELSE i <= Len(old) => s[i] = old[i]

(* Open, and close. *)
Open(f) == pos' = [pos EXCEPT ![f] = 0] /\ got' = << >> /\ UNCHANGED content

(* A position past the end may be kept or cut. *)
Seek(f, q) ==
    /\ pos' = [pos EXCEPT ![f] = q] \/ (q > Len(content) /\ pos' = [pos EXCEPT ![f] = Len(content)])
    /\ got' = << >>
    /\ UNCHANGED content

Read(f, n) ==
    /\ got' = SubSeq(content, pos[f] + 1, Least(pos[f] + n, Len(content)))
    /\ pos' = [pos EXCEPT ![f] = @ + Len(got')]
    /\ UNCHANGED content

(* A read from behind the end that does not say that it is the end. *)
ReadBehind(f) ==
    /\ pos[f] > Len(content)
    /\ pos' = [pos EXCEPT ![f] = @ + Len(got')]
    /\ UNCHANGED content

(* A write at p, which is the position or, to append, the end; the bytes in *)
(* lost are not what they should be.                                        *)
Write(f, t, p, lost) ==
    /\ got' = << >>
    /\ pos' = [pos EXCEPT ![f] = p + Len(t)]
    /\ StoredBut(lost, content, content', t, p)

(* A write at p that fails moves nothing; it may have replaced bytes.       *)
Fail(f, t, p, lost) ==
    /\ got' = << >>
    /\ UNCHANGED pos
    /\ \E n \in 0..Least(Len(t), Len(content) - p) :
          StoredBut(lost, content, content', SubSeq(t, 1, n), p)

=============================================================================
