------------------------------ MODULE PipeSpec ------------------------------
(***************************************************************************)
(* What a pipe promises its readers and writers: a bounded first-in        *)
(* first-out queue of bytes.  A write puts a prefix of its bytes, not      *)
(* mixed with another writer's (none of them only if memory runs out); a   *)
(* read takes at least one.                                                *)
(***************************************************************************)
EXTENDS Naturals, Sequences

CONSTANTS
    Reader, Writer,
    Byte,
    PIPE_SIZE     \* how many bytes the pipe holds

VARIABLES
    pipe,         \* bytes written and not yet read
    buf,          \* buf[w]: the bytes w's write call was given
    out           \* out[r]: the bytes r's read call is about to return

vars == <<pipe, buf, out>>

Init ==
    /\ pipe = <<>>
    /\ buf = [w \in Writer |-> <<>>]
    /\ out = [r \in Reader |-> <<>>]

CallWrite(w) ==
    /\ buf[w] = <<>>
    /\ buf'[w] \in Seq(Byte)
    /\ buf' = [buf EXCEPT ![w] = buf'[w]]
    /\ UNCHANGED <<pipe, out>>

Write(w) ==
    /\ \E n \in 0..Len(buf[w]) : pipe' = pipe \o SubSeq(buf[w], 1, n)
    /\ Len(pipe') <= PIPE_SIZE
    /\ buf' = [buf EXCEPT ![w] = <<>>]
    /\ UNCHANGED out

Read(r) ==
    /\ \E n \in 1..Len(pipe) :
          /\ out' = [out EXCEPT ![r] = SubSeq(pipe, 1, n)]
          /\ pipe' = SubSeq(pipe, n + 1, Len(pipe))
    /\ UNCHANGED buf

ReturnRead(r) == out' = [out EXCEPT ![r] = <<>>] /\ UNCHANGED <<pipe, buf>>

Next ==
    \/ \E w \in Writer : CallWrite(w) \/ Write(w)
    \/ \E r \in Reader : ReturnRead(r) \/ Read(r)

Spec == Init /\ [][Next]_vars
=============================================================================
