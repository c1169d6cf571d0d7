--------------------------- MODULE FrameAllocator ---------------------------
(***************************************************************************)
(* What the physical memory manager promises: a request for cnt frames is  *)
(* given a run of cnt free frames whenever there is one, a frame has one   *)
(* owner at a time, and 0 is never the address of a frame handed out.      *)
(***************************************************************************)
EXTENDS Integers

CONSTANTS Frame, Counts

VARIABLES
    free,     \* frames that may be handed out
    owned,    \* frames that have been
    result    \* what the last request asked for and was given, 0 for failure

vars == <<free, owned, result>>

Init == free \subseteq Frame \ {0} /\ owned = {} /\ result = [cnt |-> 0, frame |-> 0]

Run(first, cnt) == first..first + cnt - 1

Fits(cnt) == {first \in free : Run(first, cnt) \subseteq free}

Alloc(cnt) ==
    \/ /\ cnt = 0 \/ Fits(cnt) = {}
       /\ result' = [cnt |-> cnt, frame |-> 0]
       /\ UNCHANGED <<free, owned>>
    \/ \E first \in Fits(cnt) :
          /\ cnt > 0
          /\ result' = [cnt |-> cnt, frame |-> first]
          /\ free' = free \ Run(first, cnt)
          /\ owned' = owned \cup Run(first, cnt)

Free(frames) ==
    /\ frames \subseteq owned
    /\ free' = free \cup frames
    /\ owned' = owned \ frames
    /\ UNCHANGED result

Next ==
    \/ \E cnt \in Counts : Alloc(cnt)
    \/ \E frames \in SUBSET owned : Free(frames)

Spec == Init /\ [][Next]_vars
=============================================================================
