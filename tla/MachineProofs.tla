---------------------------- MODULE MachineProofs ----------------------------
(***************************************************************************)
(* Proofs about Machine for every set of processes and any number of       *)
(* events: a process goes on exactly where it was interrupted, and its     *)
(* kernel stack is empty when it runs its own code.                        *)
(*                                                                         *)
(* ContextInv is inductive.  It says where on a kernel stack the frame of  *)
(* each interrupted context lies, which depends on the ring of the         *)
(* outermost context and on whether an interrupt came between the          *)
(* processor's part of a page fault's frame and the stub's, and that the   *)
(* frames hold those contexts.  The stub's second half then pops the       *)
(* innermost one (PopsContext) and leaves a stack of the same form         *)
(* (ResumeRuns).                                                           *)
(*                                                                         *)
(* The second part is about the drive: an access that reports success has  *)
(* moved what it was asked to, for drives of any size.  DiskInv says, for  *)
(* each place where the driver waits, what the drive may be doing there    *)
(* (Phases, Flushing) and which words have been moved already (Moved), and *)
(* how far disk_init has come (Booted).                                    *)
(***************************************************************************)
EXTENDS Machine, TLAPS

(* What the processor executes and what it pushes, as types. *)
At == {"code", "stub", "handler"}
Context == [at : At, ring : {0, 3}, if : BOOLEAN, eax : {0, 1}, vec : Int, pos : Nat]

Tag == {"ss", "useresp", "eflags", "cs", "eip", "err_code", "int_no", "regs"}
Word == Tag \X (Int \cup BOOLEAN \cup Processor!Proc \cup (At \X Int \X Nat))

(* w is the sequence of the contexts a process is to go on with, the        *)
(* outermost first.  Where the frame of the i-th one begins, its eflags     *)
(* being the next word: behind ss and esp if the first came from ring 3;    *)
(* frames have six words, but the stub's two are missing from the first     *)
(* when the second is the stub of a page fault.                             *)
Bottom(w) == IF w[1].ring = 3 THEN 2 ELSE 0
Gap(w, i) == IF i > 1 /\ w[2].at = "stub" THEN 2 ELSE 0
Base(w, i) == Bottom(w) + 6 * (i - 1) - Gap(w, i)
Top(w) == Base(w, Len(w)) + 6

(* The words with which the processor saves context c, from word b on. *)
Entry(s, b, c) ==
    /\ s[b + 1] = <<"eflags", c.if>>
    /\ s[b + 2] = <<"cs", c.ring>>
    /\ s[b + 3] = <<"eip", <<c.at, c.vec, c.pos>>>>

(* The stub was interrupted before it pushed the registers. *)
Half(w, i) == i = 1 /\ Len(w) > 1 /\ w[2].at = "stub"

(* Stack s holds the first n contexts of w. *)
Frames(s, w, n) ==
    \A i \in 1..n : /\ Entry(s, Base(w, i), w[i])
                    /\ ~Half(w, i) => s[Base(w, i) + 6] = <<"regs", w[i].eax>>

(* The outermost context is the process's own code; those inside are        *)
(* handlers with interrupts off, or the stub of a page fault.               *)
Resumable(p, c) ==
    /\ c.at = "code" /\ c.ring = (IF p \in Users THEN 3 ELSE 0)
    /\ c.if = TRUE /\ c.vec = -1 /\ c.pos = 0

Nested(w, i) ==
    /\ w[i].ring = 0
    /\ \/ w[i].at = "handler" /\ w[i].if = FALSE /\ w[i].pos = Base(w, i)
       \/ w[i].at = "stub" /\ i = 2 /\ w[i].vec = Processor!PAGE_FAULT /\ w[i].eax = w[1].eax

Nest(p, w) ==
    /\ w \in Seq(Context)
    /\ Len(w) > 0 => Resumable(p, w[1])
    /\ \A i \in 2..Len(w) : Nested(w, i)
    /\ Len(w) > 2 /\ w[2].at = "stub" => w[3].vec # Processor!SYSCALL

(* What the processor executes fits what is on the stack. *)
RunsCode(c, s, w, p) == c.at = "code" /\ w = << >> /\ s = << >> /\ Resumable(p, c)

RunsStub(c, s, w) ==
    LET n == Len(w)
    IN /\ c.at = "stub" /\ n > 0 /\ c.ring = 0 /\ c.eax = w[n].eax
       /\ c.if = TRUE => n = 1 /\ c.vec = Processor!PAGE_FAULT
       /\ Len(s) = Base(w, n) + (IF c.vec \in Processor!CpuPushesError THEN 4 ELSE 3)
       /\ Frames(s, w, n - 1) /\ Entry(s, Base(w, n), w[n])
       /\ n = 2 /\ w[2].at = "stub" => c.vec # Processor!SYSCALL

RunsHandler(c, s, w) ==
    LET n == Len(w)
    IN /\ c.at = "handler" /\ n > 0 /\ c.ring = 0 /\ c.if = FALSE
       /\ c.pos = Top(w) /\ Len(s) = Top(w)
       /\ Frames(s, w, n)
       /\ n = 2 /\ w[2].at = "stub" => c.vec # Processor!SYSCALL

Runs(c, s, w, p) == RunsCode(c, s, w, p) \/ RunsStub(c, s, w) \/ RunsHandler(c, s, w)

(* The stack of a process that does not run ends with a whole frame. *)
Parked(e, s, w) == w # << >> => e = Top(w) /\ Len(s) = Top(w) /\ Frames(s, w, Len(w))

(* The inductive invariant. *)
ContextInv ==
    /\ cur \in Processor!Proc /\ ready \subseteq Processor!Proc \ {cur}
    /\ cpu \in Context
    /\ kstack \in [Processor!Proc -> Seq(Word)]
    /\ want \in [Processor!Proc -> Seq(Context)]
    /\ saved_esp \in [Processor!Proc -> Nat]
    /\ \A p \in Processor!Proc : Nest(p, want[p])
    /\ Runs(cpu, kstack[cur], want[cur], cur)
    /\ \A p \in Processor!Proc \ {cur} : Parked(saved_esp[p], kstack[p], want[p])
    /\ \A p \in ready : want[p] # << >>
    /\ cur \in Users => esp0 = cur

(* Cutting a stack. *)
LEMMA CutFacts ==
    ASSUME NEW S, NEW s \in Seq(S), NEW n \in 0..Len(s)
    PROVE  /\ Processor!Cut(s, n) \in Seq(S)
           /\ Len(Processor!Cut(s, n)) = n
           /\ \A i \in 1..n : Processor!Cut(s, n)[i] = s[i]
BY DEF Processor!Cut

(* Nothing is cut off. *)
LEMMA CutAll ==
    ASSUME NEW S, NEW s \in Seq(S)
    PROVE  Processor!Cut(s, Len(s)) = s
<1> DEFINE t == Processor!Cut(s, Len(s))
<1>1. Len(s) \in 0..Len(s)
  OBVIOUS
<1>2. t \in Seq(S) /\ Len(t) = Len(s) /\ \A i \in 1..Len(s) : t[i] = s[i]
  BY <1>1, CutFacts
<1> HIDE DEF t
<1>3. t = s
  BY <1>2
<1> QED
  BY <1>3 DEF t

(* Where the frames are. *)
LEMMA Places ==
    ASSUME NEW p, NEW w, Nest(p, w), NEW i \in 1..Len(w)
    PROVE  /\ Base(w, i) \in Nat /\ Top(w) \in Nat
           /\ i = 1 => Base(w, i) = Bottom(w)
           /\ Bottom(w) \in {0, 2}
           /\ Base(w, i) + 6 <= Top(w)
           /\ \A j \in 1..Len(w) : i < j =>
                 /\ Base(w, i) + 4 <= Base(w, j)
                 /\ ~Half(w, i) => Base(w, i) + 6 <= Base(w, j)
<1>1. w \in Seq(Context) /\ Len(w) \in Nat
  BY DEF Nest
<1>2. \A j \in 1..Len(w) : Gap(w, j) \in {0, 2} /\ (j = 1 => Gap(w, j) = 0)
  BY DEF Gap
<1>3. Bottom(w) \in {0, 2}
  BY DEF Bottom
<1>4. \A j \in 1..Len(w) : Base(w, j) = Bottom(w) + 6 * (j - 1) - Gap(w, j)
  BY DEF Base
<1>5. \A j \in 1..Len(w) : j > 1 => Gap(w, j) = IF w[2].at = "stub" THEN 2 ELSE 0
  BY DEF Gap
<1>6. \A j \in 1..Len(w) : Base(w, j) \in Nat
  BY <1>1, <1>2, <1>3, <1>4
<1>7. ASSUME NEW j \in 1..Len(w), i < j
      PROVE  Base(w, i) + 4 <= Base(w, j) /\ (~Half(w, i) => Base(w, i) + 6 <= Base(w, j))
  <2>1. CASE i > 1
    <3>1. Gap(w, i) = Gap(w, j) /\ Gap(w, i) \in {0, 2}
      BY <1>2, <1>5, <1>7, <2>1
    <3> QED
      BY <1>1, <1>3, <1>4, <1>7, <3>1, SMTT(30)
  <2>2. CASE i = 1
    <3>1. Gap(w, i) = 0 /\ Base(w, i) = Bottom(w)
      BY <1>2, <1>3, <1>4, <2>2
    <3>2. ~Half(w, i) => Gap(w, j) = 0
      BY <1>1, <1>5, <1>7, <2>2 DEF Half
    <3> QED
      BY <1>1, <1>2, <1>3, <1>4, <1>7, <2>2, <3>1, <3>2
  <2> QED
    BY <1>1, <2>1, <2>2
<1>8. Base(w, i) + 6 <= Top(w) /\ Top(w) \in Nat
  <2>1. CASE i = Len(w)
    BY <1>6, <2>1 DEF Top
  <2>2. CASE i < Len(w)
    <3>1. Len(w) \in 1..Len(w)
      BY <1>1
    <3>2. Base(w, i) + 4 <= Base(w, Len(w)) /\ Base(w, Len(w)) \in Nat
      BY <1>6, <1>7, <2>2, <3>1
    <3> QED
      BY <1>6, <3>2 DEF Top
  <2> QED
    BY <1>1, <2>1, <2>2
<1> QED
  BY <1>1, <1>2, <1>3, <1>4, <1>6, <1>7, <1>8

(* The places depend on the contexts below only. *)
LEMMA SamePlaces ==
    ASSUME NEW w, NEW v, NEW n \in Nat, \A i \in 1..n : v[i] = w[i]
    PROVE  \A i \in 1..n : Base(v, i) = Base(w, i) /\ (Nested(v, i) <=> Nested(w, i))
<1> SUFFICES ASSUME NEW i \in 1..n
             PROVE  Base(v, i) = Base(w, i) /\ (Nested(v, i) <=> Nested(w, i))
  OBVIOUS
<1>1. v[1] = w[1] /\ v[i] = w[i] /\ (i > 1 => v[2] = w[2])
  OBVIOUS
<1>2. Bottom(v) = Bottom(w) /\ Gap(v, i) = Gap(w, i)
  BY <1>1 DEF Bottom, Gap
<1>3. Base(v, i) = Base(w, i)
  BY <1>2 DEF Base
<1>4. Nested(v, i) <=> Nested(w, i)
  BY <1>1, <1>3 DEF Nested
<1> QED
  BY <1>3, <1>4

(* A stack keeps its frames when it is cut above them or pushed onto. *)
LEMMA KeepFrames ==
    ASSUME NEW p, NEW w, Nest(p, w), NEW n \in 0..Len(w), NEW s, NEW t, NEW m \in Nat,
           Frames(s, w, n), \A k \in 1..m : t[k] = s[k],
           \A i \in 1..n : Base(w, i) + (IF Half(w, i) THEN 4 ELSE 6) <= m
    PROVE  Frames(t, w, n)
<1> SUFFICES ASSUME NEW i \in 1..n
             PROVE  /\ Entry(t, Base(w, i), w[i])
                    /\ ~Half(w, i) => t[Base(w, i) + 6] = <<"regs", w[i].eax>>
  BY DEF Frames
<1>0. i \in 1..Len(w)
  BY DEF Nest
<1> DEFINE b == Base(w, i)
<1>1. b \in Nat /\ b + (IF Half(w, i) THEN 4 ELSE 6) <= m
  BY <1>0, Places
<1>2. Entry(s, b, w[i]) /\ (~Half(w, i) => s[b + 6] = <<"regs", w[i].eax>>)
  BY DEF Frames
<1> HIDE DEF b
<1>3. b + 1 \in 1..m /\ b + 2 \in 1..m /\ b + 3 \in 1..m /\ (~Half(w, i) => b + 6 \in 1..m)
  BY <1>1
<1>4. Entry(t, b, w[i])
  BY <1>2, <1>3 DEF Entry
<1>5. ~Half(w, i) => t[b + 6] = s[b + 6]
  BY <1>3
<1> QED
  BY <1>2, <1>4, <1>5 DEF b

(* ... and when contexts are added or taken off above. *)
LEMMA SameFrames ==
    ASSUME NEW s, NEW w, NEW v, NEW n \in Nat, \A i \in 1..n : v[i] = w[i],
           Frames(s, w, n), n > 0 => (Half(w, 1) => Half(v, 1))
    PROVE  Frames(s, v, n)
<1> SUFFICES ASSUME NEW i \in 1..n
             PROVE  /\ Entry(s, Base(v, i), v[i])
                    /\ ~Half(v, i) => s[Base(v, i) + 6] = <<"regs", v[i].eax>>
  BY DEF Frames
<1>1. Base(v, i) = Base(w, i) /\ v[i] = w[i]
  BY SamePlaces
<1>2. Half(w, i) => Half(v, i)
  BY DEF Half
<1> QED
  BY <1>1, <1>2 DEF Frames

(* The contexts below an inner one are nested as well. *)
LEMMA NestBelow ==
    ASSUME NEW p, NEW w, Nest(p, w), NEW n \in 0..Len(w)
    PROVE  Nest(p, Processor!Cut(w, n))
<1> DEFINE v == Processor!Cut(w, n)
<1>1. w \in Seq(Context)
  BY DEF Nest
<1>2. v \in Seq(Context) /\ Len(v) = n /\ \A i \in 1..n : v[i] = w[i]
  BY <1>1, CutFacts
<1> HIDE DEF v
<1>3. n \in Nat /\ n <= Len(w) /\ Len(w) \in Nat
  BY <1>1
<1>4. \A i \in 2..n : Nested(v, i)
  <2> SUFFICES ASSUME NEW i \in 2..n PROVE Nested(v, i)
    OBVIOUS
  <2>1. i \in 1..n /\ i \in 2..Len(w)
    BY <1>3
  <2> QED
    BY <1>2, <1>3, <2>1, SamePlaces DEF Nest
<1>5. n > 0 => Resumable(p, v[1])
  <2>1. n > 0 => v[1] = w[1] /\ Len(w) > 0
    BY <1>2, <1>3
  <2> QED
    BY <2>1 DEF Nest
<1>6. n > 2 /\ v[2].at = "stub" => v[3].vec # Processor!SYSCALL
  <2>1. n > 2 => v[2] = w[2] /\ v[3] = w[3] /\ Len(w) > 2
    BY <1>2, <1>3
  <2> QED
    BY <2>1 DEF Nest
<1>7. Nest(p, v)
  BY <1>2, <1>4, <1>5, <1>6 DEF Nest
<1> QED
  BY <1>7 DEF v

(* The second half of the stub finds the context that was interrupted. *)
LEMMA PopsContext ==
    ASSUME NEW p, NEW w, Nest(p, w), w # << >>, NEW s \in Seq(Word), Len(s) = Top(w),
           Frames(s, w, Len(w))
    PROVE  LET n == Len(w)
               r == Processor!Popped(s, p)
           IN  /\ ~r.lost
               /\ r.cpu = w[n]
               /\ r.rest = Processor!Cut(s, IF n = 1 THEN 0 ELSE Base(w, n))
<1> DEFINE n == Len(w)
           b == Base(w, n)
           c == w[n]
           r == Processor!Popped(s, p)
<1>1. w \in Seq(Context) /\ n \in Nat /\ n > 0 /\ n \in 1..n
  BY DEF Nest
<1>2. c \in Context
  BY <1>1
<1>3. b \in Nat /\ Len(s) = b + 6 /\ Bottom(w) \in {0, 2} /\ (n = 1 => b = Bottom(w))
  BY <1>1, Places DEF Top
<1>4. ~Half(w, n)
  BY <1>1 DEF Half
<1>5. /\ s[b + 1] = <<"eflags", c.if>> /\ s[b + 2] = <<"cs", c.ring>>
      /\ s[b + 3] = <<"eip", <<c.at, c.vec, c.pos>>>> /\ s[b + 6] = <<"regs", c.eax>>
  BY <1>1, <1>4 DEF Frames, Entry
<1>6. /\ n = 1 => c.ring = (IF Bottom(w) = 2 THEN 3 ELSE 0)
      /\ n # 1 => c.ring = 0
  <2>1. CASE n = 1
    <3>1. c = w[1] /\ c.ring \in {0, 3}
      BY <1>2, <2>1 DEF Context
    <3>2. Bottom(w) = IF c.ring = 3 THEN 2 ELSE 0
      BY <3>1 DEF Bottom
    <3>3. c.ring = (IF Bottom(w) = 2 THEN 3 ELSE 0)
      <4> HIDE DEF c
      <4>1. CASE c.ring = 3
        BY <3>2, <4>1
      <4>2. CASE c.ring = 0
        BY <3>2, <4>2
      <4> QED
        BY <3>1, <4>1, <4>2
    <3> QED
      BY <2>1, <3>3
  <2>2. CASE n # 1
    <3>1. n \in 2..n
      <4> HIDE DEF n
      <4> QED
        BY <1>1, <2>2
    <3> QED
      BY <2>2, <3>1 DEF Nest, Nested
  <2> QED
    BY <2>1, <2>2
<1> DEFINE m == Len(s)
<1>7. m - 3 = b + 3 /\ m - 4 = b + 2 /\ m - 5 = b + 1 /\ m = b + 6 /\ m >= 6
  BY <1>3
<1>8. /\ s[m] = <<"regs", c.eax>> /\ s[m - 3] = <<"eip", <<c.at, c.vec, c.pos>>>>
      /\ s[m - 4] = <<"cs", c.ring>> /\ s[m - 5] = <<"eflags", c.if>>
  BY <1>5, <1>7
<1> DEFINE words == IF c.ring = 3 THEN 8 ELSE 6
           k == IF n = 1 THEN 0 ELSE b
<1>9. words <= m /\ m - words = k
  BY <1>1, <1>3, <1>6, <1>7, SMTT(30)
<1> HIDE DEF b, c, k, n
<1>10. r = [lost |-> FALSE,
            cpu  |-> [at |-> c.at, vec |-> c.vec, pos |-> c.pos, ring |-> c.ring, if |-> c.if,
                      eax |-> c.eax],
            rest |-> Processor!Cut(s, k)]
  <2>1. s[m][1] = "regs" /\ s[m - 3][1] = "eip" /\ s[m - 4][1] = "cs" /\ s[m - 4][2] = c.ring
    BY <1>8
  <2>2. /\ s[m - 3][2][1] = c.at /\ s[m - 3][2][2] = c.vec /\ s[m - 3][2][3] = c.pos
        /\ s[m - 5][2] = c.if /\ s[m][2] = c.eax
    BY <1>8
  <2> QED
    BY <1>7, <1>9, <2>1, <2>2 DEF Processor!Popped
<1>11. c = [at |-> c.at, vec |-> c.vec, pos |-> c.pos, ring |-> c.ring, if |-> c.if, eax |-> c.eax]
  BY <1>2 DEF Context
<1>12. ~r.lost /\ r.cpu = c /\ r.rest = Processor!Cut(s, k)
  <2> HIDE DEF r
  <2> QED
    BY <1>10, <1>11
<1> QED
  BY <1>12 DEF b, c, k, n

(* A context that is gone on with runs on what was below its frame. *)
LEMMA ResumeRuns ==
    ASSUME NEW p, NEW w, Nest(p, w), w # << >>, NEW s \in Seq(Word), Len(s) = Top(w),
           Frames(s, w, Len(w))
    PROVE  LET n == Len(w)
               rest == Processor!Cut(s, IF n = 1 THEN 0 ELSE Base(w, n))
               v == Processor!Cut(w, n - 1)
           IN  /\ w[n] \in Context /\ rest \in Seq(Word) /\ v \in Seq(Context)
               /\ Nest(p, v) /\ Runs(w[n], rest, v, p) /\ Len(v) = n - 1
<1> DEFINE n == Len(w)
           b == Base(w, n)
           k == IF n = 1 THEN 0 ELSE b
           rest == Processor!Cut(s, k)
           v == Processor!Cut(w, n - 1)
           c == w[n]
<1>1. w \in Seq(Context) /\ n \in Nat /\ n > 0 /\ n \in 1..n /\ n - 1 \in 0..n
  BY DEF Nest
<1>2. c \in Context
  BY <1>1
<1>3. b \in Nat /\ Len(s) = b + 6 /\ k \in 0..Len(s)
  BY <1>1, Places DEF Top
<1>4. rest \in Seq(Word) /\ Len(rest) = k /\ \A i \in 1..k : rest[i] = s[i]
  <2> HIDE DEF k
  <2> QED
    BY <1>3, CutFacts
<1>5. v \in Seq(Context) /\ Len(v) = n - 1 /\ \A i \in 1..n - 1 : v[i] = w[i]
  <2> HIDE DEF n
  <2> QED
    BY <1>1, CutFacts DEF n
<1>6. Nest(p, v)
  <2> HIDE DEF n
  <2> QED
    BY <1>1, NestBelow DEF n
<1> HIDE DEF rest, v, n
<1>7. CASE n = 1
  <2>1. v = << >> /\ rest = << >>
    BY <1>4, <1>5, <1>7
  <2>2. Resumable(p, c)
    BY <1>1, <1>7 DEF Nest, n
  <2>3. RunsCode(c, rest, v, p)
    BY <2>1, <2>2 DEF RunsCode, Resumable
  <2> QED
    BY <1>2, <1>4, <1>5, <1>6, <2>3 DEF Runs, rest, v, n
<1>8. CASE n > 1
  <2>1. k = b /\ n \in 2..n /\ n - 1 \in 1..n /\ n - 1 \in Nat /\ n - 1 > 0
    BY <1>1, <1>8
  <2>2. Nested(w, n)
    BY <2>1 DEF Nest, n
  <2>3. \A i \in 1..n - 1 : Base(v, i) = Base(w, i)
    BY <1>5, <2>1, SamePlaces
  <2>4. ~Half(w, n - 1) => Base(w, n - 1) + 6 <= b
    BY <1>1, <2>1, Places, SMTT(30) DEF n
  <2>5. \A i \in 1..n - 1 : Base(w, i) + (IF Half(w, i) THEN 4 ELSE 6) <= b
    <3> SUFFICES ASSUME NEW i \in 1..n - 1
                 PROVE  Base(w, i) + (IF Half(w, i) THEN 4 ELSE 6) <= b
      OBVIOUS
    <3>1. i \in 1..n /\ i < n
      BY <1>1
    <3>2. Base(w, i) + 4 <= b /\ (~Half(w, i) => Base(w, i) + 6 <= b)
      BY <1>1, <3>1, Places DEF n
    <3> QED
      BY <3>2
  <2>6. Frames(rest, w, n - 1)
    <3>1. Frames(s, w, n - 1)
      BY <1>1 DEF Frames, n
    <3>2. n - 1 \in 0..Len(w)
      <4>1. n = Len(w)
        BY DEF n
      <4> QED
        BY <1>1, <4>1
    <3>3. \A i \in 1..b : rest[i] = s[i]
      BY <1>4, <2>1
    <3> DEFINE m == n - 1
    <3>4. m \in 0..Len(w) /\ Frames(s, w, m)
          /\ \A i \in 1..m : Base(w, i) + (IF Half(w, i) THEN 4 ELSE 6) <= b
      BY <2>5, <3>1, <3>2
    <3> HIDE DEF m, b
    <3>5. Frames(rest, w, m)
      BY <1>3, <3>3, <3>4, KeepFrames
    <3> QED
      BY <3>5 DEF m
  <2>7. CASE w[n].at = "handler"
    <3>1. c.if = FALSE /\ c.pos = b /\ c.ring = 0 /\ c.at = "handler"
      BY <2>2, <2>7 DEF Nested
    <3>2. n = 2 => ~Half(w, 1)
      BY <2>7 DEF Half
    <3>3. Half(w, 1) => Half(v, 1)
      <4>1. n > 2 => v[2] = w[2] /\ Len(v) > 1
        BY <1>1, <1>5
      <4> QED
        BY <1>1, <1>8, <3>2, <4>1 DEF Half
    <3>4. Frames(rest, v, n - 1)
      BY <1>5, <2>1, <2>6, <3>3, SameFrames
    <3>5. Top(v) = b
      <4>1. Top(v) = Base(v, n - 1) + 6 /\ Base(v, n - 1) = Base(w, n - 1)
        BY <1>5, <2>1, <2>3 DEF Top
      <4>2. Base(w, n - 1) + 6 = b
        <5>1. Gap(w, n - 1) = Gap(w, n) /\ Gap(w, n) \in {0, 2}
          BY <1>1, <1>8, <2>7 DEF Gap
        <5>2. Bottom(w) \in {0, 2}
          BY DEF Bottom
        <5> QED
          BY <1>1, <1>8, <5>1, <5>2 DEF Base
      <4> QED
        BY <4>1, <4>2
    <3>6. n - 1 = 2 /\ v[2].at = "stub" => c.vec # Processor!SYSCALL
      <4> SUFFICES ASSUME n - 1 = 2, v[2].at = "stub" PROVE c.vec # Processor!SYSCALL
        OBVIOUS
      <4>1. n = 3 /\ 2 \in 1..n - 1
        BY <1>1
      <4>2. v[2] = w[2]
        BY <1>5, <4>1
      <4> QED
        BY <4>1, <4>2 DEF Nest, n
    <3>7. RunsHandler(c, rest, v)
      <4>1. Len(v) = n - 1 /\ Len(v) > 0 /\ Len(rest) = Top(v) /\ c.pos = Top(v)
        BY <1>4, <1>5, <2>1, <3>1, <3>5
      <4> HIDE DEF c
      <4> QED
        BY <3>1, <3>4, <3>6, <4>1 DEF RunsHandler
    <3> QED
      BY <1>2, <1>4, <1>5, <1>6, <3>7 DEF Runs, rest, v, n
  <2>8. CASE w[n].at = "stub"
    <3>1. n = 2 /\ c.vec = Processor!PAGE_FAULT /\ c.eax = w[1].eax /\ c.ring = 0 /\ c.at = "stub"
      BY <2>2, <2>8 DEF Nested
    <3>2. b = Bottom(w) + 4 /\ Base(w, 1) = Bottom(w)
      <4>1. Gap(w, n) = 2 /\ Gap(w, 1) = 0 /\ Bottom(w) \in {0, 2}
        BY <2>8, <3>1 DEF Gap, Bottom
      <4> QED
        BY <3>1, <4>1 DEF Base
    <3>3. Len(v) = 1 /\ v[1] = w[1] /\ Base(v, 1) = Base(w, 1)
      BY <1>5, <2>3, <3>1
    <3>4. Entry(rest, Base(v, 1), v[1])
      BY <2>6, <3>1, <3>3 DEF Frames
    <3>5. Frames(rest, v, 0)
      BY DEF Frames
    <3>6. c.vec \in Processor!CpuPushesError
      BY <3>1 DEF Processor!CpuPushesError, Processor!PAGE_FAULT
    <3>7. Len(rest) = Base(v, 1) + 4
      BY <1>4, <2>1, <3>2, <3>3
    <3>8. RunsStub(c, rest, v)
      <4>1. Len(v) - 1 = 0 /\ c.eax = v[Len(v)].eax /\ Len(v) > 0
        BY <3>1, <3>3
      <4> HIDE DEF c
      <4> QED
        BY <3>1, <3>3, <3>4, <3>5, <3>6, <3>7, <4>1 DEF RunsStub
    <3> QED
      BY <1>2, <1>4, <1>5, <1>6, <3>8 DEF Runs, rest, v, n
  <2> QED
    BY <2>2, <2>7, <2>8 DEF Nested
<1> QED
  BY <1>1, <1>7, <1>8

(* A context put on top of others. *)
LEMMA InnerPlace ==
    ASSUME NEW w \in Seq(Context), NEW c \in Context, w # << >>
    PROVE  LET v == Append(w, c)
               n == Len(w)
           IN  /\ v \in Seq(Context) /\ Len(v) = n + 1 /\ v[n + 1] = c
               /\ \A i \in 1..n : v[i] = w[i]
               /\ n = 1 => Base(v, n + 1) = Bottom(w) + (IF c.at = "stub" THEN 4 ELSE 6)
               /\ n > 1 \/ c.at # "stub" => Base(v, n + 1) = Top(w)
               /\ Half(w, 1) => Half(v, 1)
<1> DEFINE v == Append(w, c)
           n == Len(w)
<1>1. /\ v \in Seq(Context) /\ Len(v) = n + 1 /\ v[n + 1] = c /\ n \in Nat /\ n > 0
      /\ \A i \in 1..n : v[i] = w[i]
  OBVIOUS
<1> HIDE DEF v, n
<1>2. Bottom(v) = Bottom(w) /\ Bottom(w) \in {0, 2}
  BY <1>1 DEF Bottom
<1>3. n = 1 => Gap(v, n + 1) = IF c.at = "stub" THEN 2 ELSE 0
  BY <1>1 DEF Gap
<1>4. n > 1 => Gap(v, n + 1) = Gap(w, n) /\ Gap(w, n) \in {0, 2}
  BY <1>1 DEF Gap
<1>5. Base(v, n + 1) = Bottom(w) + 6 * n - Gap(v, n + 1)
  BY <1>1, <1>2 DEF Base
<1>6. Top(w) = (Bottom(w) + 6 * (n - 1) - Gap(w, n)) + 6
  BY DEF Top, Base, n
<1>7. n = 1 => Gap(w, n) = 0
  BY DEF Gap
<1>8. n = 1 => Base(v, n + 1) = Bottom(w) + (IF c.at = "stub" THEN 4 ELSE 6)
  BY <1>2, <1>3, <1>5
<1>9. n > 1 \/ c.at # "stub" => Base(v, n + 1) = Top(w)
  <2>1. CASE n > 1
    BY <1>1, <1>2, <1>4, <1>5, <1>6, <2>1
  <2>2. CASE n = 1 /\ c.at # "stub"
    BY <1>2, <1>6, <1>7, <1>8, <2>2
  <2> QED
    BY <1>1, <2>1, <2>2
<1>10. Half(w, 1) => Half(v, 1)
  <2>1. n > 1 => v[2] = w[2] /\ Len(v) > 1
    BY <1>1
  <2> QED
    BY <2>1 DEF Half, n
<1> QED
  BY <1>1, <1>8, <1>9, <1>10 DEF v, n

(* What a concatenation consists of. *)
LEMMA ConcatFacts ==
    ASSUME NEW S, NEW a \in Seq(S), NEW b \in Seq(S)
    PROVE  /\ a \o b \in Seq(S) /\ Len(a \o b) = Len(a) + Len(b)
           /\ \A i \in 1..Len(a) : (a \o b)[i] = a[i]
           /\ \A i \in 1..Len(b) : (a \o b)[Len(a) + i] = b[i]
OBVIOUS

(* The middle one of three. *)
LEMMA MiddlePart ==
    ASSUME NEW S, NEW a \in Seq(S), NEW b \in Seq(S), NEW c \in Seq(S)
    PROVE  /\ a \o b \o c \in Seq(S) /\ Len(a \o b \o c) = Len(a) + Len(b) + Len(c)
           /\ \A i \in 1..Len(b) : (a \o b \o c)[Len(a) + i] = b[i]
<1> DEFINE x == a \o b
<1>1. /\ x \in Seq(S) /\ Len(x) = Len(a) + Len(b)
      /\ \A i \in 1..Len(b) : x[Len(a) + i] = b[i]
  BY ConcatFacts
<1> HIDE DEF x
<1>2. /\ x \o c \in Seq(S) /\ Len(x \o c) = Len(x) + Len(c)
      /\ \A i \in 1..Len(x) : (x \o c)[i] = x[i]
  <2>1. x \in Seq(S)
    BY <1>1
  <2> QED
    BY <2>1, ConcatFacts
<1>3. ASSUME NEW i \in 1..Len(b) PROVE Len(a) + i \in 1..Len(x)
  BY <1>1
<1> QED
  BY <1>1, <1>2, <1>3 DEF x

(* What the processor pushes. *)
LEMMA FramePushed ==
    ASSUME cpu \in Context, cur \in Processor!Proc, NEW s \in Seq(Word), NEW vec \in Int
    PROVE  LET t == s \o Processor!CpuFrame(vec)
               o == IF cpu.ring = 3 THEN 2 ELSE 0
               e == IF vec \in Processor!CpuPushesError THEN 4 ELSE 3
           IN  /\ t \in Seq(Word) /\ Len(t) = Len(s) + o + e
               /\ \A i \in 1..Len(s) : t[i] = s[i]
               /\ Entry(t, Len(s) + o, cpu)
<1> DEFINE o == IF cpu.ring = 3 THEN 2 ELSE 0
           e == IF vec \in Processor!CpuPushesError THEN 4 ELSE 3
           f == Processor!CpuFrame(vec)
           t == s \o f
           u == IF cpu.ring = 3 THEN <<<<"ss", 3>>, <<"useresp", cur>>>> ELSE << >>
           m == <<<<"eflags", cpu.if>>, <<"cs", cpu.ring>>, <<"eip", <<cpu.at, cpu.vec, cpu.pos>>>>>>
           l == IF vec \in Processor!CpuPushesError THEN <<<<"err_code", vec>>>> ELSE << >>
<1>1. f = u \o m \o l
  BY DEF Processor!CpuFrame
<1>2. /\ cpu.at \in At /\ cpu.ring \in {0, 3} /\ cpu.if \in BOOLEAN /\ cpu.vec \in Int
      /\ cpu.pos \in Nat
  BY DEF Context
<1>3. /\ <<"ss", 3>> \in Word /\ <<"useresp", cur>> \in Word /\ <<"eflags", cpu.if>> \in Word
      /\ <<"cs", cpu.ring>> \in Word /\ <<"err_code", vec>> \in Word
  BY <1>2 DEF Word, Tag
<1>4. <<"eip", <<cpu.at, cpu.vec, cpu.pos>>>> \in Word
  BY <1>2 DEF Word, Tag
<1>5. u \in Seq(Word) /\ Len(u) = o
  BY <1>3
<1>6. m \in Seq(Word) /\ Len(m) = 3
  BY <1>3, <1>4
<1>7. l \in Seq(Word) /\ Len(l) = e - 3
  BY <1>3
<1>8. /\ m[1] = <<"eflags", cpu.if>> /\ m[2] = <<"cs", cpu.ring>>
      /\ m[3] = <<"eip", <<cpu.at, cpu.vec, cpu.pos>>>>
  OBVIOUS
<1>9. o \in {0, 2} /\ e \in {3, 4}
  OBVIOUS
<1> HIDE DEF u, m, l, o, e, f
<1>10. /\ f \in Seq(Word) /\ Len(f) = o + e
       /\ f[o + 1] = m[1] /\ f[o + 2] = m[2] /\ f[o + 3] = m[3]
  <2>1. u \in Seq(Word) /\ m \in Seq(Word) /\ l \in Seq(Word)
    BY <1>5, <1>6, <1>7
  <2>2. /\ f \in Seq(Word) /\ Len(f) = Len(u) + Len(m) + Len(l)
        /\ \A i \in 1..Len(m) : f[Len(u) + i] = m[i]
    BY <1>1, <2>1, MiddlePart
  <2> QED
    BY <1>5, <1>6, <1>7, <1>9, <2>2
<1>11. /\ t \in Seq(Word) /\ Len(t) = Len(s) + Len(f) /\ \A i \in 1..Len(s) : t[i] = s[i]
       /\ \A i \in 1..Len(f) : t[Len(s) + i] = f[i]
  BY <1>10
<1>12. Len(s) \in Nat
  OBVIOUS
<1> HIDE DEF t
<1>13. t[Len(s) + (o + 1)] = m[1] /\ t[Len(s) + (o + 2)] = m[2] /\ t[Len(s) + (o + 3)] = m[3]
  <2>1. o + 1 \in 1..Len(f) /\ o + 2 \in 1..Len(f) /\ o + 3 \in 1..Len(f)
    BY <1>9, <1>10
  <2> QED
    BY <1>10, <1>11, <2>1
<1>14. /\ Len(s) + (o + 1) = Len(s) + o + 1 /\ Len(s) + (o + 2) = Len(s) + o + 2
       /\ Len(s) + (o + 3) = Len(s) + o + 3
  BY <1>9, <1>12
<1>15. Entry(t, Len(s) + o, cpu)
  BY <1>8, <1>13, <1>14 DEF Entry
<1>16. Len(t) = Len(s) + o + e
  BY <1>9, <1>10, <1>11, <1>12
<1> QED
  BY <1>11, <1>15, <1>16 DEF t, o, e, f

(* On the way into the kernel from code, from a stub that a page fault      *)
(* started, and from a handler.                                             *)
LEMMA EnterRuns ==
    ASSUME NEW p \in Processor!Proc, p = cur, NEW s \in Seq(Word), NEW w, Nest(p, w), cpu \in Context,
           Runs(cpu, s, w, p), NEW vec \in Int, NEW c \in Context,
           cpu.at = "stub" => cpu.if = TRUE /\ vec # Processor!SYSCALL /\ ~Processor!TrapGate(vec),
           Processor!TrapGate(vec) => vec = Processor!PAGE_FAULT,
           c = [cpu EXCEPT !.at = "stub", !.ring = 0, !.if = @ /\ Processor!TrapGate(vec),
                           !.vec = vec, !.pos = 0]
    PROVE  LET t == s \o Processor!CpuFrame(vec)
               v == Append(w, cpu)
           IN  t \in Seq(Word) /\ v \in Seq(Context) /\ Nest(p, v) /\ Runs(c, t, v, p)
<1> DEFINE t == s \o Processor!CpuFrame(vec)
           v == Append(w, cpu)
           o == IF cpu.ring = 3 THEN 2 ELSE 0
           e == IF vec \in Processor!CpuPushesError THEN 4 ELSE 3
           n == Len(w)
<1>1. /\ t \in Seq(Word) /\ Len(t) = Len(s) + o + e
      /\ \A i \in 1..Len(s) : t[i] = s[i]
      /\ Entry(t, Len(s) + o, cpu)
  BY FramePushed
<1>2. w \in Seq(Context) /\ n \in Nat /\ Len(s) \in Nat
  BY DEF Nest
<1>3. /\ v \in Seq(Context) /\ Len(v) = n + 1 /\ v[n + 1] = cpu
      /\ \A i \in 1..n : v[i] = w[i]
  BY <1>2
<1>4. /\ c.at = "stub" /\ c.ring = 0 /\ c.eax = cpu.eax /\ c.vec = vec
      /\ c.if = (cpu.if /\ Processor!TrapGate(vec))
  BY DEF Context
<1>5. o \in {0, 2} /\ e \in {3, 4} /\ (cpu.ring = 0 => o = 0)
  OBVIOUS
<1> HIDE DEF t, v, o, n
<1>6. CASE cpu.at = "code"
  <2>1. w = << >> /\ s = << >> /\ Resumable(p, cpu)
    BY <1>6 DEF Runs, RunsCode, RunsStub, RunsHandler
  <2>2. n = 0 /\ Len(s) = 0 /\ Len(v) = 1 /\ v[1] = cpu
    BY <1>3, <2>1 DEF n
  <2>3. Nest(p, v)
    BY <1>3, <2>1, <2>2 DEF Nest
  <2>4. Base(v, 1) = o
    <3>1. Bottom(v) = o /\ Gap(v, 1) = 0
      BY <2>2 DEF Bottom, Gap, o
    <3> QED
      BY <1>5, <3>1 DEF Base
  <2>5. Len(t) = Base(v, 1) + e /\ Entry(t, Base(v, 1), v[1])
    BY <1>1, <1>5, <2>2, <2>4
  <2>6. Frames(t, v, 0)
    BY DEF Frames
  <2>7. RunsStub(c, t, v)
    <3>1. Len(v) - 1 = 0 /\ Len(v) > 0 /\ c.eax = v[Len(v)].eax
      BY <1>4, <2>2
    <3>2. c.if = TRUE => vec = Processor!PAGE_FAULT
      BY <1>4
    <3>3. /\ Len(t) = Base(v, Len(v)) + (IF c.vec \in Processor!CpuPushesError THEN 4 ELSE 3)
          /\ Entry(t, Base(v, Len(v)), v[Len(v)])
      BY <1>4, <2>2, <2>5
    <3> HIDE DEF e
    <3> QED
      BY <1>4, <2>2, <2>6, <3>1, <3>2, <3>3 DEF RunsStub
  <2> QED
    BY <1>1, <1>3, <2>3, <2>7 DEF Runs, t, v
<1>7. CASE cpu.at = "stub"
  <2>1. RunsStub(cpu, s, w) /\ cpu.if = TRUE
    BY <1>7 DEF Runs, RunsCode, RunsStub, RunsHandler
  <2>2. n = 1 /\ cpu.vec = Processor!PAGE_FAULT /\ cpu.ring = 0 /\ cpu.eax = w[1].eax
    BY <2>1 DEF RunsStub, n
  <2>3. Len(s) = Base(w, 1) + 4 /\ Entry(s, Base(w, 1), w[1])
    <3>1. Processor!PAGE_FAULT \in Processor!CpuPushesError
      BY DEF Processor!PAGE_FAULT, Processor!CpuPushesError
    <3> QED
      BY <2>1, <2>2, <3>1 DEF RunsStub, n
  <2>4. 1 \in 1..Len(w) /\ w # << >>
    <3>1. Len(w) = 1
      BY <2>2 DEF n
    <3>2. w = << >> => Len(w) = 0
      OBVIOUS
    <3> QED
      BY <3>1, <3>2
  <2>5. Base(w, 1) = Bottom(w) /\ Bottom(w) \in {0, 2}
    BY <2>4, Places
  <2>6. Len(v) = 2 /\ v[2] = cpu /\ v[1] = w[1]
    BY <1>3, <2>2
  <2>7. Base(v, 2) = Bottom(w) + 4
    <3>1. n = 1 => Base(v, n + 1) = Bottom(w) + (IF cpu.at = "stub" THEN 4 ELSE 6)
      BY <1>2, <2>4, InnerPlace DEF v, n
    <3>2. n + 1 = 2
      BY <2>2
    <3> QED
      BY <1>7, <2>2, <3>1, <3>2
  <2>8. Base(v, 1) = Base(w, 1)
    <3>1. \A i \in 1..n : Base(v, i) = Base(w, i)
      BY <1>2, <1>3, SamePlaces
    <3> QED
      BY <2>2, <3>1
  <2>9. Nest(p, v)
    <3>1. Nested(v, 2)
      BY <1>7, <2>2, <2>6 DEF Nested
    <3>2. Resumable(p, v[1])
      BY <2>2, <2>6 DEF Nest, n
    <3>3. \A i \in 2..2 : i = 2
      OBVIOUS
    <3> QED
      BY <1>3, <2>6, <3>1, <3>2, <3>3 DEF Nest
  <2>10. Len(t) = Base(v, 2) + e /\ Entry(t, Base(v, 2), v[2])
    <3>1. Len(s) + o = Base(v, 2) /\ Base(v, 2) \in Nat
      BY <1>5, <2>2, <2>3, <2>5, <2>7
    <3> QED
      BY <1>1, <2>6, <3>1
  <2>11. Frames(t, v, 1)
    <3>1. Half(v, 1)
      BY <1>7, <2>6 DEF Half
    <3>2. Entry(t, Base(v, 1), v[1])
      <4> DEFINE b == Base(w, 1)
      <4>1. b \in Nat /\ Len(s) = b + 4
        BY <2>3, <2>5
      <4> HIDE DEF b
      <4>2. t[b + 1] = s[b + 1] /\ t[b + 2] = s[b + 2] /\ t[b + 3] = s[b + 3]
        BY <1>1, <4>1
      <4>3. Entry(t, b, w[1])
        BY <2>3, <4>2 DEF Entry, b
      <4> QED
        BY <2>6, <2>8, <4>3 DEF b
    <3>3. \A i \in 1..1 : i = 1
      OBVIOUS
    <3> QED
      BY <3>1, <3>2, <3>3 DEF Frames
  <2>12. RunsStub(c, t, v)
    <3>1. Len(v) - 1 = 1 /\ Len(v) > 0
      BY <2>6
    <3>2. c.if = FALSE
      BY <1>4, <1>7
    <3>3. c.eax = v[Len(v)].eax
      BY <1>4, <2>6
    <3> QED
      BY <1>4, <1>7, <2>6, <2>10, <2>11, <3>1, <3>2, <3>3 DEF RunsStub
  <2> QED
    BY <1>1, <1>3, <2>9, <2>12 DEF Runs, t, v
<1>8. CASE cpu.at = "handler"
  <2>1. RunsHandler(cpu, s, w)
    BY <1>8 DEF Runs, RunsCode, RunsStub, RunsHandler
  <2>2. /\ n > 0 /\ cpu.ring = 0 /\ cpu.if = FALSE /\ cpu.pos = Top(w) /\ Len(s) = Top(w)
        /\ Frames(s, w, n)
    BY <2>1 DEF RunsHandler, n
  <2>3. w # << >> /\ 1 \in 1..n /\ n \in 0..Len(w) /\ n + 1 \in 1..n + 1
    BY <1>2, <2>2 DEF n
  <2>4. Base(v, n + 1) = Top(w) /\ (Half(w, 1) => Half(v, 1))
    BY <1>2, <1>8, <2>3, InnerPlace DEF v, n
  <2>5. \A i \in 1..n : Base(v, i) = Base(w, i) /\ (Nested(v, i) <=> Nested(w, i))
    BY <1>2, <1>3, SamePlaces
  <2>6. Nest(p, v)
    <3>1. Resumable(p, v[1])
      BY <1>3, <2>2, <2>3 DEF Nest, n
    <3>2. Nested(v, n + 1)
      BY <1>3, <1>8, <2>2, <2>4 DEF Nested
    <3>3. ASSUME NEW i \in 2..n + 1 PROVE Nested(v, i)
      <4>1. CASE i = n + 1
        BY <3>2, <4>1
      <4>2. CASE i < n + 1
        <5>1. i \in 1..n /\ i \in 2..n
          BY <1>2, <4>2
        <5> QED
          BY <2>5, <5>1 DEF Nest, n
      <4> QED
        BY <1>2, <4>1, <4>2
    <3>4. n + 1 > 2 /\ v[2].at = "stub" => v[3].vec # Processor!SYSCALL
      <4> SUFFICES ASSUME n + 1 > 2, v[2].at = "stub" PROVE v[3].vec # Processor!SYSCALL
        OBVIOUS
      <4>1. v[2] = w[2]
        BY <1>2, <1>3
      <4>2. CASE n = 2
        BY <1>3, <2>1, <4>1, <4>2 DEF RunsHandler, n
      <4>3. CASE n > 2
        <5>1. v[3] = w[3]
          BY <1>2, <1>3, <4>3
        <5> QED
          BY <4>1, <4>3, <5>1 DEF Nest, n
      <4> QED
        BY <1>2, <4>2, <4>3
    <3> QED
      BY <1>3, <3>1, <3>3, <3>4 DEF Nest
  <2>7. Frames(t, v, n)
    <3>1. \A i \in 1..n : Base(w, i) + (IF Half(w, i) THEN 4 ELSE 6) <= Top(w)
      <4> SUFFICES ASSUME NEW i \in 1..n
                   PROVE  Base(w, i) + (IF Half(w, i) THEN 4 ELSE 6) <= Top(w)
        OBVIOUS
      <4>1. Base(w, i) \in Nat /\ Top(w) \in Nat /\ Base(w, i) + 6 <= Top(w)
        BY Places DEF n
      <4> QED
        BY <4>1
    <3>2. Frames(t, w, n)
      <4>1. Len(s) \in Nat /\ \A i \in 1..n : Base(w, i) + (IF Half(w, i) THEN 4 ELSE 6) <= Len(s)
        BY <1>2, <2>2, <3>1
      <4> QED
        BY <1>1, <2>2, <2>3, <4>1, KeepFrames
    <3> QED
      BY <1>2, <1>3, <2>4, <3>2, SameFrames
  <2>8. Len(t) = Base(v, n + 1) + e /\ Entry(t, Base(v, n + 1), v[n + 1])
    <3>1. Len(s) + o = Base(v, n + 1) /\ Base(v, n + 1) \in Nat
      BY <1>2, <1>5, <2>2, <2>4
    <3> QED
      BY <1>1, <1>3, <3>1
  <2>9. RunsStub(c, t, v)
    <3>1. Len(v) - 1 = n /\ Len(v) = n + 1 /\ Len(v) > 0
      BY <1>2, <1>3
    <3>2. c.if = FALSE /\ c.eax = v[n + 1].eax
      BY <1>3, <1>4, <2>2
    <3>3. Len(v) = 2 => v[2].at # "stub"
      BY <1>2, <1>3, <1>8
    <3> QED
      BY <1>4, <2>7, <2>8, <3>1, <3>2, <3>3 DEF RunsStub
  <2> QED
    BY <1>1, <1>3, <2>6, <2>9 DEF Runs, t, v
<1> QED
  BY <1>6, <1>7, <1>8 DEF Context, At

(* The first half of the stub leads to a handler on a whole frame. *)
LEMMA StubRuns ==
    ASSUME NEW p, NEW s \in Seq(Word), NEW w, Nest(p, w), cpu \in Context, RunsStub(cpu, s, w)
    PROVE  LET t == s \o (IF cpu.vec \in Processor!ErrStubs THEN << >> ELSE <<<<"err_code", 0>>>>)
                      \o <<<<"int_no", cpu.vec>>, <<"regs", cpu.eax>>>>
               c == [cpu EXCEPT !.at = "handler", !.if = FALSE, !.pos = Len(t)]
           IN  t \in Seq(Word) /\ c \in Context /\ RunsHandler(c, t, w)
<1> DEFINE u == IF cpu.vec \in Processor!ErrStubs THEN << >> ELSE <<<<"err_code", 0>>>>
           l == <<<<"int_no", cpu.vec>>, <<"regs", cpu.eax>>>>
           e == IF cpu.vec \in Processor!CpuPushesError THEN 4 ELSE 3
           x == s \o u
           t == x \o l
           c == [cpu EXCEPT !.at = "handler", !.if = FALSE, !.pos = Len(t)]
           n == Len(w)
           b == Base(w, n)
<1>1. /\ cpu.at = "stub" /\ n > 0 /\ cpu.ring = 0 /\ cpu.eax = w[n].eax
      /\ Len(s) = b + e /\ Frames(s, w, n - 1) /\ Entry(s, b, w[n])
      /\ n = 2 /\ w[2].at = "stub" => cpu.vec # Processor!SYSCALL
  BY DEF RunsStub
<1>2. w \in Seq(Context) /\ n \in Nat /\ Len(s) \in Nat
  BY DEF Nest
<1>3. cpu.vec \in Int /\ cpu.eax \in {0, 1} /\ e \in {3, 4}
  BY DEF Context
<1>4. <<"err_code", 0>> \in Word /\ <<"int_no", cpu.vec>> \in Word /\ <<"regs", cpu.eax>> \in Word
  BY <1>3 DEF Word, Tag
<1>5. u \in Seq(Word) /\ Len(u) = 4 - e
  <2>1. Processor!ErrStubs = Processor!CpuPushesError
    BY DEF Processor!ErrStubs, Processor!CpuPushesError
  <2> QED
    BY <1>4, <2>1
<1>6. l \in Seq(Word) /\ Len(l) = 2 /\ l[2] = <<"regs", cpu.eax>>
  BY <1>4
<1>7. n \in 1..n
  <2> HIDE DEF n
  <2> QED
    BY <1>1, <1>2
<1>8. b \in Nat /\ Top(w) = b + 6
  BY <1>7, Places DEF Top
<1> HIDE DEF u, l
<1>9. x \in Seq(Word) /\ Len(x) = Len(s) + Len(u) /\ \A i \in 1..Len(s) : x[i] = s[i]
  <2>1. u \in Seq(Word)
    BY <1>5
  <2> QED
    BY <2>1, ConcatFacts
<1> HIDE DEF x
<1>10. /\ t \in Seq(Word) /\ Len(t) = Len(x) + Len(l) /\ \A i \in 1..Len(x) : t[i] = x[i]
       /\ \A i \in 1..Len(l) : t[Len(x) + i] = l[i]
  <2>1. x \in Seq(Word) /\ l \in Seq(Word)
    BY <1>6, <1>9
  <2> QED
    BY <2>1, ConcatFacts
<1> HIDE DEF t, e, b, n
<1>11. Len(x) = b + 4 /\ Len(t) = b + 6
  BY <1>1, <1>2, <1>3, <1>5, <1>6, <1>8, <1>9, <1>10
<1>12. t[b + 6] = <<"regs", w[n].eax>>
  <2>1. Len(x) + 2 = b + 6 /\ 2 \in 1..Len(l)
    BY <1>6, <1>8, <1>11
  <2> QED
    BY <1>1, <1>6, <1>10, <2>1
<1>13. \A i \in 1..Len(s) : t[i] = s[i]
  <2> SUFFICES ASSUME NEW i \in 1..Len(s) PROVE t[i] = s[i]
    OBVIOUS
  <2>1. i \in 1..Len(x)
    BY <1>1, <1>2, <1>3, <1>8, <1>11
  <2> QED
    BY <1>9, <1>10, <2>1
<1>14. Entry(t, b, w[n])
  <2>1. b + 1 \in 1..Len(s) /\ b + 2 \in 1..Len(s) /\ b + 3 \in 1..Len(s)
    <3>1. b \in Nat /\ e \in {3, 4} /\ Len(s) = b + e
      BY <1>1, <1>3, <1>8
    <3>2. CASE e = 3
      BY <3>1, <3>2
    <3>3. CASE e = 4
      BY <3>1, <3>3
    <3> QED
      BY <3>1, <3>2, <3>3
  <2>2. t[b + 1] = s[b + 1] /\ t[b + 2] = s[b + 2] /\ t[b + 3] = s[b + 3]
    BY <1>13, <2>1
  <2> QED
    BY <1>1, <2>2 DEF Entry
<1> DEFINE m == n - 1
<1>15. Frames(t, w, m)
  <2>1. m \in Nat /\ m \in 0..Len(w) /\ Frames(s, w, m)
    <3>1. n = Len(w)
      BY DEF n
    <3> QED
      BY <1>1, <1>2, <3>1
  <2>2. ASSUME NEW i \in 1..m PROVE Base(w, i) + (IF Half(w, i) THEN 4 ELSE 6) <= Len(s)
    <3>1. i \in 1..n /\ i < n
      BY <1>2
    <3>2. /\ Base(w, i) \in Nat /\ Base(w, i) + 4 <= b
          /\ ~Half(w, i) => Base(w, i) + 6 <= b
      BY <1>7, <3>1, Places DEF n, b
    <3> QED
      BY <1>1, <1>2, <1>3, <1>8, <3>2
  <2> HIDE DEF m
  <2> QED
    BY <1>2, <1>13, <2>1, <2>2, KeepFrames
<1>16. Frames(t, w, n)
  <2> SUFFICES ASSUME NEW i \in 1..n
               PROVE  /\ Entry(t, Base(w, i), w[i])
                      /\ ~Half(w, i) => t[Base(w, i) + 6] = <<"regs", w[i].eax>>
    BY DEF Frames
  <2>1. CASE i = n
    BY <1>12, <1>14, <2>1 DEF b
  <2>2. CASE i < n
    <3>1. i \in 1..m
      BY <1>2, <2>2
    <3> HIDE DEF m
    <3> QED
      BY <1>15, <3>1 DEF Frames
  <2> QED
    BY <1>2, <2>1, <2>2
<1>17. c \in Context /\ c.at = "handler" /\ c.ring = 0 /\ c.if = FALSE /\ c.pos = Len(t)
       /\ c.vec = cpu.vec
  <2>1. Len(t) \in Nat
    BY <1>8, <1>11
  <2> QED
    BY <1>1, <2>1 DEF Context, At
<1>18. RunsHandler(c, t, w)
  <2> HIDE DEF c
  <2> QED
    BY <1>1, <1>8, <1>11, <1>16, <1>17 DEF RunsHandler, n
<1> QED
  BY <1>10, <1>17, <1>18 DEF t, x, u, l

(* The innermost context, and the registers in its frame, with a result. *)
Answered(c, result) == [c EXCEPT !.eax = result]
WithResult(w, result) == [w EXCEPT ![Len(w)] = Answered(w[Len(w)], result)]
PutResult(s, pos, result) == [Processor!Cut(s, pos) EXCEPT ![pos] = <<"regs", result>>]

(* What a handler returns to when it has put its result there. *)
HasResult(p, w, s, pos, result) ==
    LET n == Len(w)
        x == WithResult(w, result)
        t == PutResult(s, pos, result)
    IN  /\ Nest(p, x) /\ Len(x) = n /\ x # << >> /\ n \in Nat \ {0}
        /\ x[n] = Answered(w[n], result)
        /\ \A i \in 1..n - 1 : x[i] = w[i]
        /\ t \in Seq(Word) /\ Len(t) = Top(x) /\ Frames(t, x, n)

(* The result of a system call is put into the frame that it came by. *)
LEMMA ResultPut ==
    ASSUME NEW p, NEW w, Nest(p, w), cpu \in Context, NEW s \in Seq(Word), RunsHandler(cpu, s, w),
           NEW result \in {0, 1},
           cpu.vec # Processor!SYSCALL => result = w[Len(w)].eax
    PROVE  HasResult(p, w, s, cpu.pos, result)
<1> DEFINE n == Len(w)
           d == Answered(w[n], result)
           z == <<"regs", result>>
           m == Len(s)
           x == WithResult(w, result)
           t == PutResult(s, cpu.pos, result)
<1>0. x = [w EXCEPT ![n] = d] /\ t = [Processor!Cut(s, cpu.pos) EXCEPT ![cpu.pos] = z]
  BY DEF WithResult, PutResult
<1> HIDE DEF x, t
<1>1. /\ n > 0 /\ cpu.pos = Top(w) /\ m = Top(w) /\ Frames(s, w, n)
      /\ n = 2 /\ w[2].at = "stub" => cpu.vec # Processor!SYSCALL
  BY DEF RunsHandler
<1>2. w \in Seq(Context) /\ n \in Nat /\ m \in Nat /\ n \in 1..n
  <2>1. w \in Seq(Context) /\ n \in Nat /\ m \in Nat
    BY DEF Nest
  <2> HIDE DEF n
  <2> QED
    BY <1>1, <2>1
<1>3. w[n] \in Context
  BY <1>2
<1>4. /\ d \in Context /\ d.at = w[n].at /\ d.ring = w[n].ring /\ d.if = w[n].if
      /\ d.vec = w[n].vec /\ d.pos = w[n].pos /\ d.eax = result
  <2> DEFINE a == w[n]
  <2>1. a \in Context
    BY <1>3
  <2> HIDE DEF a
  <2>2. /\ [a EXCEPT !.eax = result] \in Context
        /\ [a EXCEPT !.eax = result].at = a.at /\ [a EXCEPT !.eax = result].ring = a.ring
        /\ [a EXCEPT !.eax = result].if = a.if /\ [a EXCEPT !.eax = result].vec = a.vec
        /\ [a EXCEPT !.eax = result].pos = a.pos /\ [a EXCEPT !.eax = result].eax = result
    BY <2>1 DEF Context
  <2> QED
    BY <2>2 DEF a, Answered
<1>5. cpu.vec # Processor!SYSCALL => d = w[n]
  <2> DEFINE a == w[n]
  <2>1. a \in Context
    BY <1>3
  <2> HIDE DEF a
  <2>2. [a EXCEPT !.eax = a.eax] = a
    BY <2>1 DEF Context
  <2> QED
    BY <2>2 DEF a, Answered
<1> HIDE DEF d
<1>6. /\ x \in Seq(Context) /\ Len(x) = n /\ x[n] = d
      /\ \A i \in 1..n : i # n => x[i] = w[i]
  BY <1>0, <1>2, <1>4
<1>7. cpu.vec # Processor!SYSCALL => x = w
  <2>1. d = w[n] => x = w
    BY <1>0, <1>2
  <2> QED
    BY <1>5, <2>1
<1> HIDE DEF n
<1>8. \A i \in 1..n : /\ x[i].at = w[i].at /\ x[i].ring = w[i].ring /\ x[i].if = w[i].if
                      /\ x[i].vec = w[i].vec /\ x[i].pos = w[i].pos
                      /\ i # n => x[i].eax = w[i].eax
  BY <1>4, <1>6
<1>9. n > 1 /\ w[2].at = "stub" => n > 2 \/ x = w
  BY <1>1, <1>2, <1>7
<1>10. \A i \in 1..n : Gap(x, i) = Gap(w, i) /\ Bottom(x) = Bottom(w) /\ Base(x, i) = Base(w, i)
  <2> SUFFICES ASSUME NEW i \in 1..n
               PROVE  Gap(x, i) = Gap(w, i) /\ Bottom(x) = Bottom(w) /\ Base(x, i) = Base(w, i)
    OBVIOUS
  <2>1. 1 \in 1..n /\ (i > 1 => 2 \in 1..n)
    BY <1>2
  <2>2. x[1].ring = w[1].ring /\ (i > 1 => x[2].at = w[2].at)
    BY <1>8, <2>1
  <2>3. Gap(x, i) = Gap(w, i) /\ Bottom(x) = Bottom(w)
    BY <2>2 DEF Gap, Bottom
  <2> QED
    BY <2>3 DEF Base
<1>11. Nest(p, x)
  <2>1. CASE x = w
    BY <2>1
  <2>2. CASE x # w
    <3>1. Resumable(p, x[1])
      <4>1. Resumable(p, w[1]) /\ 1 \in 1..n
        BY <1>1, <1>2 DEF Nest, n
      <4> QED
        BY <1>8, <4>1 DEF Resumable
    <3>2. ASSUME NEW i \in 2..n PROVE Nested(x, i)
      <4>1. Nested(w, i)
        BY DEF Nest, n
      <4>2. i \in 1..n /\ 1 \in 1..n /\ 1 # n
        BY <1>2
      <4>3. i = 2 /\ w[i].at = "stub" => i # n
        BY <1>9, <2>2, <4>2
      <4>4. x[1].eax = w[1].eax
        BY <1>8, <4>2
      <4> QED
        BY <1>8, <1>10, <4>1, <4>2, <4>3, <4>4 DEF Nested
    <3>3. n > 2 /\ x[2].at = "stub" => x[3].vec # Processor!SYSCALL
      <4>1. n > 2 => 2 \in 1..n /\ 3 \in 1..n
        BY <1>2
      <4> QED
        BY <1>8, <4>1 DEF Nest, n
    <3> QED
      BY <1>6, <3>1, <3>2, <3>3 DEF Nest
  <2> QED
    BY <2>1, <2>2
<1>12. Top(x) = Top(w)
  BY <1>2, <1>6, <1>10 DEF Top, n
<1>13. m = Base(w, n) + 6 /\ Base(w, n) \in Nat
  <2>1. Top(w) = Base(w, n) + 6
    BY DEF Top, n
  <2> QED
    BY <1>1, <1>2, <2>1, Places DEF n
<1>14. Processor!Cut(s, cpu.pos) = s
  BY <1>1, CutAll
<1>15. t = [s EXCEPT ![m] = z]
  BY <1>0, <1>1, <1>14
<1>16. z \in Word
  BY DEF Word, Tag
<1> HIDE DEF z
<1>17. t \in Seq(Word) /\ Len(t) = m /\ t[m] = z /\ \A i \in 1..m : i # m => t[i] = s[i]
  BY <1>13, <1>15, <1>16
<1> HIDE DEF m
<1>18. Frames(t, x, n)
  <2> SUFFICES ASSUME NEW i \in 1..n
               PROVE  /\ Entry(t, Base(x, i), x[i])
                      /\ ~Half(x, i) => t[Base(x, i) + 6] = <<"regs", x[i].eax>>
    BY DEF Frames
  <2> DEFINE b == Base(w, i)
  <2>1. b \in Nat /\ b + 6 <= m
    BY <1>1, Places DEF n
  <2>2. Base(x, i) = b
    BY <1>10
  <2>3. Entry(s, b, w[i]) /\ (~Half(w, i) => s[b + 6] = <<"regs", w[i].eax>>)
    BY <1>1 DEF Frames
  <2>4. ~Half(x, i) => ~Half(w, i)
    <3>1. i = 1 /\ n > 1 => x[2].at = w[2].at
      BY <1>2, <1>8
    <3> QED
      BY <1>6, <3>1 DEF Half, n
  <2>5. i < n /\ ~Half(w, i) => b + 6 <= Base(w, n)
    BY <1>2, Places DEF n
  <2> HIDE DEF b
  <2>6. /\ b + 1 \in 1..m /\ b + 2 \in 1..m /\ b + 3 \in 1..m
        /\ b + 1 # m /\ b + 2 # m /\ b + 3 # m
    BY <1>2, <2>1
  <2>7. t[b + 1] = s[b + 1] /\ t[b + 2] = s[b + 2] /\ t[b + 3] = s[b + 3]
    BY <1>17, <2>6
  <2>8. Entry(t, b, x[i])
    BY <1>8, <2>3, <2>7 DEF Entry
  <2>9. CASE i = n
    <3>1. b + 6 = m
      BY <1>13, <2>9 DEF b
    <3>2. x[n].eax = result
      BY <1>4, <1>6
    <3> QED
      BY <1>17, <2>2, <2>8, <2>9, <3>1, <3>2 DEF z
  <2>10. CASE i # n
    <3>1. i < n
      BY <1>2, <2>10
    <3>2. ~Half(w, i) => b + 6 \in 1..m /\ b + 6 # m
      BY <1>2, <1>13, <2>1, <2>5, <3>1
    <3>3. x[i].eax = w[i].eax
      BY <1>8, <2>10
    <3> QED
      BY <1>17, <2>2, <2>3, <2>4, <2>8, <3>2, <3>3
  <2> QED
    BY <2>9, <2>10
<1>19. x # << >>
  <2>1. x = << >> => Len(x) = 0
    OBVIOUS
  <2> QED
    BY <1>1, <1>6, <2>1
<1>20. n \in Nat \ {0} /\ \A i \in 1..n - 1 : i \in 1..n /\ i # n
  BY <1>1, <1>2
<1>21. Len(t) = Top(x)
  BY <1>1, <1>12, <1>17 DEF m
<1> QED
  BY <1>6, <1>11, <1>17, <1>18, <1>19, <1>20, <1>21 DEF d, z, n, x, t, HasResult

(* One step of ContextRestored. *)
Restored ==
    Len(want'[cur']) < Len(want[cur']) =>
        LET old == Processor!Last(want[cur'])
        IN \/ cpu' = old
           \/ cpu' = [old EXCEPT !.eax = 1] /\ cpu.vec = Processor!SYSCALL /\ cur' = cur

(* The frame that process_new makes is that of a context that was           *)
(* interrupted at its start.                                                *)
LEMMA NewFrameFacts ==
    ASSUME NEW p \in Processor!Proc
    PROVE  LET s == Processor!NewFrame(p)
               w == <<Processor!Code(p)>>
           IN  /\ s \in Seq(Word) /\ Len(s) \in Nat /\ w \in Seq(Context) /\ w # << >>
               /\ Nest(p, w) /\ Len(w) = 1
               /\ Len(s) = Top(w) /\ Frames(s, w, 1)
<1> DEFINE c == Processor!Code(p)
           w == <<c>>
           s == Processor!NewFrame(p)
           u == IF p \in Users THEN <<<<"ss", 3>>, <<"useresp", p>>>> ELSE << >>
           r == IF p \in Users THEN 3 ELSE 0
           o == IF p \in Users THEN 2 ELSE 0
           m == <<<<"eflags", TRUE>>, <<"cs", c.ring>>, <<"eip", <<"code", -1, 0>>>>,
                  <<"err_code", 0>>, <<"int_no", 0>>, <<"regs", 0>>>>
<1>1. s = u \o m
  BY DEF Processor!NewFrame
<1>2. /\ c.at = "code" /\ c.ring = r /\ c.if = TRUE /\ c.eax = 0 /\ c.vec = -1 /\ c.pos = 0
      /\ c \in Context
  BY DEF Processor!Code, Context, At
<1>3. r \in {0, 3} /\ o \in {0, 2} /\ o = IF r = 3 THEN 2 ELSE 0
  OBVIOUS
<1> HIDE DEF c
<1>4. /\ <<"ss", 3>> \in Word /\ <<"useresp", p>> \in Word /\ <<"eflags", TRUE>> \in Word
      /\ <<"err_code", 0>> \in Word /\ <<"int_no", 0>> \in Word /\ <<"regs", 0>> \in Word
  <2>1. ASSUME NEW y \in BOOLEAN PROVE <<"eflags", y>> \in Word
    BY DEF Word, Tag
  <2>2. TRUE \in BOOLEAN
    OBVIOUS
  <2>3. /\ <<"ss", 3>> \in Word /\ <<"useresp", p>> \in Word
        /\ <<"err_code", 0>> \in Word /\ <<"int_no", 0>> \in Word /\ <<"regs", 0>> \in Word
    BY DEF Word, Tag
  <2> QED
    BY <2>1, <2>2, <2>3
<1>5. <<"eip", <<"code", -1, 0>>>> \in Word /\ <<"cs", c.ring>> \in Word
  BY <1>2, <1>3 DEF Word, Tag, At
<1>6. u \in Seq(Word) /\ Len(u) = o
  BY <1>4
<1>7. m \in Seq(Word) /\ Len(m) = 6
  BY <1>4, <1>5
<1>8. /\ m[1] = <<"eflags", TRUE>> /\ m[2] = <<"cs", c.ring>> /\ m[6] = <<"regs", 0>>
      /\ m[3] = <<"eip", <<"code", -1, 0>>>>
  OBVIOUS
<1> HIDE DEF u, m, o, r, s
<1>9. s \in Seq(Word) /\ Len(s) = Len(u) + Len(m) /\ \A i \in 1..Len(m) : s[Len(u) + i] = m[i]
  <2>1. u \in Seq(Word) /\ m \in Seq(Word)
    BY <1>6, <1>7
  <2> QED
    BY <1>1, <2>1, ConcatFacts
<1>10. /\ s[o + 1] = m[1] /\ s[o + 2] = m[2] /\ s[o + 3] = m[3] /\ s[o + 6] = m[6]
       /\ Len(s) = o + 6 /\ Len(s) \in Nat
  BY <1>3, <1>6, <1>7, <1>9
<1>11. w \in Seq(Context) /\ Len(w) = 1 /\ w[1] = c /\ w # << >>
  BY <1>2
<1> HIDE DEF w
<1>12. Resumable(p, c)
  BY <1>2 DEF Resumable, r
<1>13. Nest(p, w)
  BY <1>11, <1>12 DEF Nest
<1>14. Base(w, 1) = o
  <2>1. Bottom(w) = o /\ Gap(w, 1) = 0
    BY <1>2, <1>3, <1>11 DEF Bottom, Gap
  <2> QED
    BY <1>3, <2>1 DEF Base
<1>15. Top(w) = o + 6
  BY <1>11, <1>14 DEF Top
<1>16. Entry(s, o, c) /\ s[o + 6] = <<"regs", c.eax>>
  BY <1>2, <1>8, <1>10 DEF Entry
<1>17. Frames(s, w, 1)
  <2>1. \A i \in 1..1 : i = 1
    OBVIOUS
  <2> QED
    BY <1>11, <1>14, <1>16, <2>1 DEF Frames
<1> QED
  BY <1>9, <1>10, <1>11, <1>13, <1>15, <1>17 DEF w, c, s

(* A step of the running process that changes only its own stack. *)
LEMMA CurChanges ==
    ASSUME ContextInv, NEW s \in Seq(Word), NEW w \in Seq(Context), Nest(cur, w),
           cpu' \in Context, Runs(cpu', s, w, cur),
           kstack' = [kstack EXCEPT ![cur] = s], want' = [want EXCEPT ![cur] = w],
           cur' = cur, ready' = ready, cur \in Users => esp0' = cur,
           saved_esp' \in [Processor!Proc -> Nat],
           \A q \in Processor!Proc \ {cur} : saved_esp'[q] = saved_esp[q]
    PROVE  ContextInv'
<1>1. /\ cur \in Processor!Proc /\ ready \subseteq Processor!Proc \ {cur}
      /\ kstack \in [Processor!Proc -> Seq(Word)] /\ want \in [Processor!Proc -> Seq(Context)]
  BY DEF ContextInv
<1>2. /\ kstack' \in [Processor!Proc -> Seq(Word)] /\ want' \in [Processor!Proc -> Seq(Context)]
      /\ kstack'[cur] = s /\ want'[cur] = w
      /\ \A q \in Processor!Proc \ {cur} : kstack'[q] = kstack[q] /\ want'[q] = want[q]
  BY <1>1
<1>3. \A q \in Processor!Proc : Nest(q, want'[q])
  BY <1>2 DEF ContextInv
<1>4. \A q \in Processor!Proc \ {cur} : Parked(saved_esp'[q], kstack'[q], want'[q])
  BY <1>2 DEF ContextInv
<1>5. \A q \in ready : want'[q] # << >>
  BY <1>1, <1>2 DEF ContextInv
<1> QED
  BY <1>1, <1>2, <1>3, <1>4, <1>5 DEF ContextInv

(* Another process is gone on with. *)
LEMMA Arrive ==
    ASSUME ContextInv, NEW p \in Processor!Proc \ {cur}, want[p] # << >>, cpu.at = "handler",
           NEW v \in {want[cur], << >>},
           Processor!ReturnTo(p, Processor!Cut(kstack[p], saved_esp[p])), Processor!SetStack(p),
           want' = [want EXCEPT ![p] = Processor!Cut(@, Len(@) - 1), ![cur] = v],
           saved_esp' \in [Processor!Proc -> Nat],
           \A q \in Processor!Proc \ {cur} : saved_esp'[q] = saved_esp[q],
           v # << >> => saved_esp'[cur] = cpu.pos,
           ready' \subseteq Processor!Proc \ {p},
           \A q \in ready' : q \in ready \/ (q = cur /\ v # << >>)
    PROVE  ContextInv' /\ Restored
<1> DEFINE s == kstack[p]
           w == want[p]
           n == Len(w)
           rest == Processor!Cut(s, IF n = 1 THEN 0 ELSE Base(w, n))
           x == Processor!Cut(w, n - 1)
           r == Processor!Popped(s, p)
<1>1. /\ cur \in Processor!Proc /\ p \in Processor!Proc /\ p # cur
      /\ kstack \in [Processor!Proc -> Seq(Word)] /\ want \in [Processor!Proc -> Seq(Context)]
      /\ cpu \in Context
      /\ \A q \in Processor!Proc : Nest(q, want[q])
  BY DEF ContextInv
<1>2. Nest(p, w) /\ s \in Seq(Word) /\ w \in Seq(Context)
  BY <1>1
<1>3. saved_esp[p] = Top(w) /\ Len(s) = Top(w) /\ Frames(s, w, n)
  BY <1>1 DEF ContextInv, Parked
<1>4. Processor!Cut(kstack[p], saved_esp[p]) = s
  BY <1>2, <1>3, CutAll
<1>5. ~r.lost /\ r.cpu = w[n] /\ r.rest = rest
  BY <1>2, <1>3, PopsContext
<1>6. /\ w[n] \in Context /\ rest \in Seq(Word) /\ x \in Seq(Context) /\ Nest(p, x)
      /\ Runs(w[n], rest, x, p) /\ Len(x) = n - 1
  BY <1>2, <1>3, ResumeRuns
<1>7. /\ cur' = p /\ cpu' = w[n]
      /\ kstack' = [kstack EXCEPT ![cur] = Processor!Cut(kstack[cur], cpu.pos), ![p] = rest]
  <2> HIDE DEF r, rest
  <2>1. /\ cur' = p /\ cpu' = (IF r.lost THEN [cpu EXCEPT !.at = "lost"] ELSE r.cpu)
        /\ kstack' = [kstack EXCEPT ![cur] = Processor!Cut(@, cpu.pos),
                                    ![p] = IF r.lost THEN s ELSE r.rest]
    BY <1>4 DEF Processor!ReturnTo, r
  <2> QED
    BY <1>5, <2>1
<1>8. want' = [want EXCEPT ![p] = x, ![cur] = v]
  OBVIOUS
<1>9. RunsHandler(cpu, kstack[cur], want[cur])
  BY DEF ContextInv, Runs, RunsCode, RunsStub
<1>10. Processor!Cut(kstack[cur], cpu.pos) = kstack[cur]
  <2>1. cpu.pos = Len(kstack[cur]) /\ kstack[cur] \in Seq(Word)
    BY <1>1, <1>9 DEF RunsHandler
  <2> QED
    BY <2>1, CutAll
<1>11. v \in Seq(Context) /\ Nest(cur, v)
  <2>1. CASE v = want[cur]
    BY <1>1, <2>1
  <2>2. CASE v = << >>
    BY <2>2 DEF Nest
  <2> QED
    BY <2>1, <2>2
<1> HIDE DEF rest, x
<1>12. /\ kstack' \in [Processor!Proc -> Seq(Word)] /\ want' \in [Processor!Proc -> Seq(Context)]
       /\ kstack'[p] = rest /\ want'[p] = x /\ kstack'[cur] = kstack[cur] /\ want'[cur] = v
       /\ \A q \in Processor!Proc \ {p, cur} : kstack'[q] = kstack[q] /\ want'[q] = want[q]
  BY <1>1, <1>6, <1>7, <1>8, <1>10, <1>11
<1>13. \A q \in Processor!Proc : Nest(q, want'[q])
  <2> SUFFICES ASSUME NEW q \in Processor!Proc PROVE Nest(q, want'[q])
    OBVIOUS
  <2>1. CASE q = p
    BY <1>6, <1>12, <2>1
  <2>2. CASE q = cur
    BY <1>11, <1>12, <2>2
  <2>3. CASE q # p /\ q # cur
    BY <1>1, <1>12, <2>3
  <2> QED
    BY <2>1, <2>2, <2>3
<1>14. \A q \in Processor!Proc \ {p} : Parked(saved_esp'[q], kstack'[q], want'[q])
  <2> SUFFICES ASSUME NEW q \in Processor!Proc \ {p}
               PROVE  Parked(saved_esp'[q], kstack'[q], want'[q])
    OBVIOUS
  <2>1. CASE q = cur
    <3>1. v # << >> => v = want[cur]
      OBVIOUS
    <3> QED
      BY <1>9, <1>12, <2>1, <3>1 DEF Parked, RunsHandler
  <2>2. CASE q # cur
    <3>1. Parked(saved_esp[q], kstack[q], want[q])
      BY <2>2 DEF ContextInv
    <3>2. saved_esp'[q] = saved_esp[q] /\ kstack'[q] = kstack[q] /\ want'[q] = want[q]
      BY <1>12, <2>2
    <3> QED
      BY <3>1, <3>2
  <2> QED
    BY <2>1, <2>2
<1>15. \A q \in ready' : want'[q] # << >>
  <2> SUFFICES ASSUME NEW q \in ready' PROVE want'[q] # << >>
    OBVIOUS
  <2>1. CASE q = cur
    BY <1>12, <2>1 DEF ContextInv
  <2>2. CASE q # cur
    BY <1>12, <2>2 DEF ContextInv
  <2> QED
    BY <2>1, <2>2
<1>16. Runs(cpu', kstack'[p], want'[p], p) /\ cpu' \in Context
  BY <1>6, <1>7, <1>12
<1>17. p \in Users => esp0' = p
  BY DEF Processor!SetStack
<1>18. ContextInv'
  BY <1>1, <1>7, <1>12, <1>13, <1>14, <1>15, <1>16, <1>17 DEF ContextInv
<1>19. Restored
  BY <1>7 DEF Restored, Processor!Last
<1> QED
  BY <1>18, <1>19

(* The processor enters the kernel. *)
LEMMA EnterStep ==
    ASSUME ContextInv, NEW vec \in Int, Processor!Enter(vec),
           cpu.at = "stub" => cpu.if = TRUE /\ vec # Processor!SYSCALL /\ ~Processor!TrapGate(vec),
           Processor!TrapGate(vec) => vec = Processor!PAGE_FAULT,
           UNCHANGED <<cur, saved_esp, esp0, ready>>
    PROVE  ContextInv' /\ Restored
<1> DEFINE s == kstack[cur]
           w == want[cur]
           t == s \o Processor!CpuFrame(vec)
           v == Append(w, cpu)
<1>1. /\ cur \in Processor!Proc /\ cpu \in Context
      /\ kstack \in [Processor!Proc -> Seq(Word)] /\ want \in [Processor!Proc -> Seq(Context)]
      /\ saved_esp \in [Processor!Proc -> Nat]
      /\ Nest(cur, w) /\ Runs(cpu, s, w, cur) /\ (cur \in Users => esp0 = cur)
  BY DEF ContextInv
<1>2. s \in Seq(Word) /\ w \in Seq(Context)
  BY <1>1
<1>3. cpu.ring = 3 => s = << >> /\ esp0 = cur
  <2> SUFFICES ASSUME cpu.ring = 3 PROVE s = << >> /\ esp0 = cur
    OBVIOUS
  <2>1. RunsCode(cpu, s, w, cur)
    BY <1>1 DEF Runs, RunsStub, RunsHandler
  <2> QED
    BY <1>1, <2>1 DEF RunsCode, Resumable
<1>4. kstack' = [kstack EXCEPT ![cur] = t]
  BY <1>3 DEF Processor!Enter
<1>5. want' = [want EXCEPT ![cur] = v]
  BY DEF Processor!Enter
<1>6. cpu' = [cpu EXCEPT !.at = "stub", !.ring = 0, !.if = @ /\ Processor!TrapGate(vec), !.vec = vec,
                         !.pos = 0]
  BY DEF Processor!Enter
<1>7. cpu' \in Context
  <2>1. Processor!TrapGate(vec) \in BOOLEAN
    BY DEF Processor!TrapGate
  <2>2. (cpu.if /\ Processor!TrapGate(vec)) \in BOOLEAN
    OBVIOUS
  <2>3. ASSUME NEW g \in BOOLEAN
        PROVE  [cpu EXCEPT !.at = "stub", !.ring = 0, !.if = g, !.vec = vec, !.pos = 0] \in Context
    BY <1>1 DEF Context, At
  <2> QED
    BY <1>6, <2>2, <2>3
<1>8. t \in Seq(Word) /\ v \in Seq(Context) /\ Nest(cur, v) /\ Runs(cpu', t, v, cur)
  BY <1>1, <1>2, <1>6, <1>7, EnterRuns
<1>9. Len(v) = Len(w) + 1 /\ Len(w) \in Nat
  BY <1>1, <1>2
<1> HIDE DEF t, v
<1>10. ContextInv'
  <2>1. cur' = cur /\ ready' = ready /\ (cur \in Users => esp0' = cur)
    BY <1>1
  <2>2. /\ saved_esp' \in [Processor!Proc -> Nat]
        /\ \A q \in Processor!Proc \ {cur} : saved_esp'[q] = saved_esp[q]
    BY <1>1
  <2> QED
    BY <1>4, <1>5, <1>7, <1>8, <2>1, <2>2, CurChanges
<1>11. Restored
  <2>1. want'[cur'] = v /\ want[cur'] = w
    BY <1>1, <1>5
  <2> QED
    BY <1>9, <2>1 DEF Restored
<1> QED
  BY <1>10, <1>11

(* Its stub goes on to the handler. *)
LEMMA StubStep ==
    ASSUME ContextInv, Processor!Stub
    PROVE  ContextInv' /\ Restored
<1> DEFINE s == kstack[cur]
           w == want[cur]
           t == s \o (IF cpu.vec \in Processor!ErrStubs THEN << >> ELSE <<<<"err_code", 0>>>>)
                  \o <<<<"int_no", cpu.vec>>, <<"regs", cpu.eax>>>>
           c == [cpu EXCEPT !.at = "handler", !.if = FALSE, !.pos = Len(t)]
<1>1. /\ cur \in Processor!Proc /\ cpu \in Context
      /\ kstack \in [Processor!Proc -> Seq(Word)] /\ want \in [Processor!Proc -> Seq(Context)]
      /\ saved_esp \in [Processor!Proc -> Nat]
      /\ Nest(cur, w) /\ Runs(cpu, s, w, cur) /\ (cur \in Users => esp0 = cur)
  BY DEF ContextInv
<1>2. s \in Seq(Word) /\ w \in Seq(Context)
  BY <1>1
<1>3. RunsStub(cpu, s, w)
  BY <1>1 DEF Processor!Stub, Runs, RunsCode, RunsHandler
<1>4. t \in Seq(Word) /\ c \in Context /\ RunsHandler(c, t, w)
  BY <1>1, <1>2, <1>3, StubRuns
<1>5. /\ kstack' = [kstack EXCEPT ![cur] = t] /\ cpu' = c
      /\ cur' = cur /\ saved_esp' = saved_esp /\ esp0' = esp0 /\ ready' = ready /\ want' = want
  BY DEF Processor!Stub
<1> HIDE DEF t, c
<1>6. want' = [want EXCEPT ![cur] = w]
  BY <1>1, <1>5
<1>7. Runs(cpu', t, w, cur) /\ cpu' \in Context
  BY <1>4, <1>5 DEF Runs
<1>8. ContextInv'
  BY <1>1, <1>2, <1>4, <1>5, <1>6, <1>7, CurChanges
<1>9. Restored
  <2>1. want'[cur'] = w /\ want[cur'] = w /\ Len(w) \in Nat
    BY <1>2, <1>5
  <2> QED
    BY <2>1 DEF Restored
<1> QED
  BY <1>8, <1>9

(* The handler returns to the frame it was called with. *)
LEMMA BackStep ==
    ASSUME ContextInv, cpu.at = "handler", NEW result \in {0, 1},
           cpu.vec # Processor!SYSCALL => result = want[cur][Len(want[cur])].eax,
           result = want[cur][Len(want[cur])].eax \/ result = 1,
           Processor!ReturnTo(cur, PutResult(kstack[cur], cpu.pos, result)),
           want' = [want EXCEPT ![cur] = Processor!Cut(@, Len(@) - 1)],
           ready' = ready, cur \in Users => esp0' = cur,
           saved_esp' \in [Processor!Proc -> Nat],
           \A q \in Processor!Proc \ {cur} : saved_esp'[q] = saved_esp[q]
    PROVE  ContextInv' /\ Restored
<1> DEFINE s == kstack[cur]
           w == want[cur]
           n == Len(w)
           x == WithResult(w, result)
           t == PutResult(s, cpu.pos, result)
           rest == Processor!Cut(t, IF Len(x) = 1 THEN 0 ELSE Base(x, Len(x)))
           v == Processor!Cut(x, Len(x) - 1)
           r == Processor!Popped(t, cur)
<1>1. /\ cur \in Processor!Proc /\ cpu \in Context
      /\ kstack \in [Processor!Proc -> Seq(Word)] /\ want \in [Processor!Proc -> Seq(Context)]
      /\ Nest(cur, w) /\ Runs(cpu, s, w, cur)
  BY DEF ContextInv
<1>2. s \in Seq(Word) /\ w \in Seq(Context) /\ Len(w) \in Nat
  BY <1>1
<1>3. RunsHandler(cpu, s, w)
  BY <1>1 DEF Runs, RunsCode, RunsStub
<1>4. /\ Nest(cur, x) /\ Len(x) = n /\ x # << >> /\ n \in Nat \ {0}
      /\ x[n] = Answered(w[n], result)
      /\ \A i \in 1..n - 1 : x[i] = w[i]
      /\ t \in Seq(Word) /\ Len(t) = Top(x) /\ Frames(t, x, n)
  <2>1. cpu.vec # Processor!SYSCALL => result = w[Len(w)].eax
    OBVIOUS
  <2> HIDE DEF s, w
  <2>2. Nest(cur, w) /\ cpu \in Context /\ s \in Seq(Word)
    BY <1>1, <1>2
  <2> QED
    <3>1. HasResult(cur, w, s, cpu.pos, result)
      BY <1>3, <2>1, <2>2, ResultPut
    <3> QED
      BY <3>1 DEF HasResult
<1> HIDE DEF x, t
<1>5. ~r.lost /\ r.cpu = x[n] /\ r.rest = rest
  BY <1>4, PopsContext
<1>6. /\ x[n] \in Context /\ rest \in Seq(Word) /\ v \in Seq(Context) /\ Nest(cur, v)
      /\ Runs(x[n], rest, v, cur) /\ Len(v) = n - 1
  BY <1>4, ResumeRuns
<1>7. v = Processor!Cut(w, n - 1)
  <2> DEFINE m == n - 1
             y == Processor!Cut(w, m)
  <2>1. m \in 0..Len(w) /\ m \in 0..Len(x) /\ m \in Nat
    BY <1>4
  <2>2. x \in Seq(Context)
    BY <1>4 DEF Nest
  <2>3. v = Processor!Cut(x, m)
    BY <1>4
  <2> HIDE DEF m, v, y
  <2>4. y \in Seq(Context) /\ Len(y) = m /\ \A i \in 1..m : y[i] = w[i]
    BY <1>2, <2>1, CutFacts DEF y
  <2>5. v \in Seq(Context) /\ Len(v) = m /\ \A i \in 1..m : v[i] = x[i]
    BY <2>1, <2>2, <2>3, CutFacts
  <2>6. \A i \in 1..m : x[i] = w[i]
    BY <1>4 DEF m
  <2>7. v = y
    BY <2>4, <2>5, <2>6
  <2> QED
    BY <2>7 DEF m, y
<1>8. want' = [want EXCEPT ![cur] = v]
  BY <1>7
<1>9. cur' = cur /\ cpu' = x[n] /\ kstack' = [kstack EXCEPT ![cur] = rest]
  <2> HIDE DEF r, rest
  <2>1. /\ cur' = cur /\ cpu' = (IF r.lost THEN [cpu EXCEPT !.at = "lost"] ELSE r.cpu)
        /\ kstack' = [kstack EXCEPT ![cur] = Processor!Cut(@, cpu.pos),
                                    ![cur] = IF r.lost THEN t ELSE r.rest]
    BY DEF Processor!ReturnTo, r, t
  <2>2. kstack' = [kstack EXCEPT ![cur] = Processor!Cut(@, cpu.pos), ![cur] = rest]
    BY <1>5, <2>1
  <2> QED
    BY <1>1, <1>5, <2>1, <2>2
<1> HIDE DEF rest, v
<1>10. ContextInv'
  <2>1. cpu' \in Context /\ Runs(cpu', rest, v, cur)
    BY <1>6, <1>9
  <2> QED
    BY <1>6, <1>8, <1>9, <2>1, CurChanges
<1>11. Restored
  <2> DEFINE a == w[n]
  <2>1. a \in Context
    BY <1>2, <1>4
  <2>2. a = Processor!Last(want[cur'])
    BY <1>9 DEF Processor!Last
  <2>3. cpu' = [a EXCEPT !.eax = result]
    BY <1>4, <1>9 DEF Answered
  <2>4. result = a.eax => cpu' = a
    <3> HIDE DEF a
    <3>1. [a EXCEPT !.eax = a.eax] = a
      BY <2>1 DEF Context
    <3> QED
      BY <2>3, <3>1
  <2>5. result # a.eax => result = 1 /\ cpu.vec = Processor!SYSCALL
    OBVIOUS
  <2> QED
    BY <1>9, <2>2, <2>3, <2>4, <2>5 DEF Restored
<1> QED
  BY <1>10, <1>11

(* Stay: with the result of a system call or without. *)
LEMMA StayStep ==
    ASSUME ContextInv, Processor!Stay
    PROVE  ContextInv' /\ Restored
<1> DEFINE s == kstack[cur]
           w == want[cur]
           n == Len(w)
           result == IF cpu.vec = Processor!SYSCALL THEN 1 ELSE s[cpu.pos][2]
<1>1. /\ cur \in Processor!Proc /\ kstack \in [Processor!Proc -> Seq(Word)]
      /\ want \in [Processor!Proc -> Seq(Context)] /\ saved_esp \in [Processor!Proc -> Nat]
      /\ Nest(cur, w) /\ Runs(cpu, s, w, cur) /\ (cur \in Users => esp0 = cur)
  BY DEF ContextInv
<1>2. cpu.at = "handler" /\ saved_esp' = saved_esp /\ esp0' = esp0 /\ ready' = ready
  BY DEF Processor!Stay
<1>3. RunsHandler(cpu, s, w)
  BY <1>1, <1>2 DEF Runs, RunsCode, RunsStub
<1>4. n \in 1..n /\ w \in Seq(Context)
  <2>1. n > 0 /\ n \in Nat /\ w \in Seq(Context)
    BY <1>1, <1>3 DEF RunsHandler
  <2> HIDE DEF n
  <2> QED
    BY <2>1
<1>5. s[cpu.pos] = <<"regs", w[n].eax>>
  <2>1. ~Half(w, n) /\ Frames(s, w, n) /\ cpu.pos = Base(w, n) + 6
    BY <1>3 DEF Half, RunsHandler, Top
  <2> QED
    BY <1>4, <2>1 DEF Frames
<1>6. w[n].eax \in {0, 1}
  <2>1. w[n] \in Context
    BY <1>4
  <2> QED
    BY <2>1 DEF Context
<1>7. result \in {0, 1} /\ (cpu.vec # Processor!SYSCALL => result = w[n].eax)
      /\ (result = w[n].eax \/ result = 1)
  BY <1>5, <1>6
<1>8. /\ Processor!ReturnTo(cur, PutResult(s, cpu.pos, result))
      /\ want' = [want EXCEPT ![cur] = Processor!Cut(@, Len(@) - 1)]
  BY DEF Processor!Stay, PutResult
<1> HIDE DEF result
<1> QED
  BY <1>1, <1>2, <1>7, <1>8, BackStep

(* Switch: to another process or back to the same one. *)
LEMMA SwitchStep ==
    ASSUME ContextInv, NEW p \in Processor!Proc, NEW stays \in BOOLEAN, Processor!Switch(p, stays)
    PROVE  ContextInv' /\ Restored
<1> DEFINE s == kstack[cur]
           w == want[cur]
           n == Len(w)
<1>1. /\ cur \in Processor!Proc /\ kstack \in [Processor!Proc -> Seq(Word)]
      /\ want \in [Processor!Proc -> Seq(Context)] /\ saved_esp \in [Processor!Proc -> Nat]
      /\ Nest(cur, w) /\ Runs(cpu, s, w, cur) /\ cpu \in Context
      /\ ready \subseteq Processor!Proc \ {cur} /\ \A q \in ready : want[q] # << >>
  BY DEF ContextInv
<1>2. /\ cpu.at = "handler" /\ p \in (IF stays THEN ready \cup {cur} ELSE ready)
      /\ ready' = (IF stays THEN ready \cup {cur} ELSE ready) \ {p}
      /\ saved_esp' = [saved_esp EXCEPT ![cur] = cpu.pos]
      /\ Processor!ReturnTo(p, IF p = cur THEN Processor!Cut(kstack[p], cpu.pos)
                               ELSE Processor!Cut(kstack[p], saved_esp[p]))
      /\ Processor!SetStack(p)
      /\ want' = [want EXCEPT ![p] = Processor!Cut(@, Len(@) - 1)]
  BY DEF Processor!Switch
<1>3. RunsHandler(cpu, s, w)
  BY <1>1, <1>2 DEF Runs, RunsCode, RunsStub
<1>4. cpu.pos \in Nat
  BY <1>1 DEF Context
<1>5. /\ saved_esp' \in [Processor!Proc -> Nat] /\ saved_esp'[cur] = cpu.pos
      /\ \A q \in Processor!Proc \ {cur} : saved_esp'[q] = saved_esp[q]
  BY <1>1, <1>2, <1>4
<1>6. n \in 1..n /\ w \in Seq(Context) /\ s \in Seq(Word) /\ w # << >>
  <2>1. n > 0 /\ n \in Nat /\ w \in Seq(Context) /\ s \in Seq(Word)
    BY <1>1, <1>3 DEF RunsHandler
  <2>2. w = << >> => n = 0
    OBVIOUS
  <2> HIDE DEF n
  <2> QED
    BY <2>1, <2>2
<1>7. CASE p = cur
  <2> DEFINE result == w[n].eax
  <2>1. result \in {0, 1}
    <3>1. w[n] \in Context
      BY <1>6
    <3> QED
      BY <3>1 DEF Context
  <2>2. ready' = ready
    BY <1>1, <1>2, <1>7
  <2>3. Processor!Cut(s, cpu.pos) = s /\ cpu.pos = Len(s)
    <3>1. cpu.pos = Len(s)
      BY <1>3 DEF RunsHandler
    <3> QED
      BY <1>6, <3>1, CutAll
  <2>4. s[cpu.pos] = <<"regs", result>>
    <3>1. ~Half(w, n) /\ Frames(s, w, n) /\ cpu.pos = Base(w, n) + 6
      BY <1>3 DEF Half, RunsHandler, Top
    <3> QED
      BY <1>6, <3>1 DEF Frames
  <2>5. PutResult(s, cpu.pos, result) = s
    <3> HIDE DEF result
    <3>1. PutResult(s, cpu.pos, result) = [s EXCEPT ![cpu.pos] = s[cpu.pos]]
      BY <2>3, <2>4 DEF PutResult
    <3> QED
      BY <1>6, <3>1
  <2>6. Processor!ReturnTo(cur, PutResult(s, cpu.pos, result))
    BY <1>2, <1>7, <2>3, <2>5
  <2>7. cur \in Users => esp0' = cur
    BY <1>2, <1>7 DEF Processor!SetStack
  <2>8. want' = [want EXCEPT ![cur] = Processor!Cut(@, Len(@) - 1)]
    BY <1>2, <1>7
  <2>9. result = want[cur][Len(want[cur])].eax
    OBVIOUS
  <2> HIDE DEF result
  <2> QED
    BY <1>1, <1>2, <1>5, <2>1, <2>2, <2>6, <2>7, <2>8, <2>9, BackStep
<1>8. CASE p # cur
  <2>1. p \in ready /\ want[p] # << >> /\ p \in Processor!Proc \ {cur}
    BY <1>1, <1>2, <1>8
  <2>2. Processor!ReturnTo(p, Processor!Cut(kstack[p], saved_esp[p]))
    BY <1>2, <1>8
  <2>3. want' = [want EXCEPT ![p] = Processor!Cut(@, Len(@) - 1), ![cur] = w]
    BY <1>1, <1>2, <1>8
  <2>4. ready' \subseteq Processor!Proc \ {p} /\ \A q \in ready' : q \in ready \/ (q = cur /\ w # << >>)
    BY <1>1, <1>2, <1>6
  <2>5. w \in {want[cur], << >>}
    OBVIOUS
  <2> HIDE DEF w
  <2> QED
    BY <1>2, <1>5, <2>1, <2>2, <2>3, <2>4, <2>5, Arrive
<1> QED
  BY <1>7, <1>8

(* Kill: nothing is left to go on with. *)
LEMMA KillStep ==
    ASSUME ContextInv, NEW p \in Processor!Proc, Processor!Kill(p)
    PROVE  ContextInv' /\ Restored
<1>1. /\ cur \in Processor!Proc /\ saved_esp \in [Processor!Proc -> Nat]
      /\ ready \subseteq Processor!Proc \ {cur} /\ \A q \in ready : want[q] # << >>
  BY DEF ContextInv
<1>2. /\ cpu.at = "handler" /\ p \in ready /\ ready' = ready \ {p} /\ saved_esp' = saved_esp
      /\ Processor!ReturnTo(p, Processor!Cut(kstack[p], saved_esp[p])) /\ Processor!SetStack(p)
      /\ want' = [want EXCEPT ![p] = Processor!Cut(@, Len(@) - 1), ![cur] = << >>]
  BY DEF Processor!Kill
<1>3. want[p] # << >> /\ p \in Processor!Proc \ {cur}
  BY <1>1, <1>2
<1> DEFINE v == << >>
<1>4. /\ want' = [want EXCEPT ![p] = Processor!Cut(@, Len(@) - 1), ![cur] = v]
      /\ v \in {want[cur], << >>} /\ v = << >>
  BY <1>2
<1> HIDE DEF v
<1>5. ready' \subseteq Processor!Proc \ {p} /\ \A q \in ready' : q \in ready
  BY <1>1, <1>2
<1> QED
  BY <1>1, <1>2, <1>3, <1>4, <1>5, Arrive

(* A process that waited is ready again. *)
LEMMA WakeStep ==
    ASSUME ContextInv, NEW p \in Processor!Proc, Processor!Wake(p)
    PROVE  ContextInv' /\ Restored
<1>1. ContextInv'
  BY DEF Processor!Wake, ContextInv
<1>2. want' = want /\ cur' = cur
  BY DEF Processor!Wake
<1>3. Len(want[cur]) \in Nat
  BY DEF ContextInv
<1> QED
  BY <1>1, <1>2, <1>3 DEF Restored

(* A process is made. *)
LEMMA NewStep ==
    ASSUME ContextInv, NEW p \in Processor!Proc, Processor!ProcessNew(p)
    PROVE  ContextInv' /\ Restored
<1> DEFINE s == Processor!NewFrame(p)
           w == <<Processor!Code(p)>>
<1>1. /\ cur \in Processor!Proc /\ cpu \in Context /\ ready \subseteq Processor!Proc \ {cur}
      /\ kstack \in [Processor!Proc -> Seq(Word)] /\ want \in [Processor!Proc -> Seq(Context)]
      /\ saved_esp \in [Processor!Proc -> Nat]
  BY DEF ContextInv
<1>2. /\ p # cur /\ cur' = cur /\ cpu' = cpu /\ esp0' = esp0 /\ ready' = ready \cup {p}
      /\ kstack' = [kstack EXCEPT ![p] = s] /\ want' = [want EXCEPT ![p] = w]
      /\ saved_esp' = [saved_esp EXCEPT ![p] = Len(s)]
  BY DEF Processor!ProcessNew
<1>3. /\ s \in Seq(Word) /\ Len(s) \in Nat /\ w \in Seq(Context) /\ w # << >>
      /\ Nest(p, w) /\ Len(w) = 1 /\ Len(s) = Top(w) /\ Frames(s, w, 1)
  BY NewFrameFacts
<1> HIDE DEF s, w
<1>4. /\ kstack' \in [Processor!Proc -> Seq(Word)] /\ want' \in [Processor!Proc -> Seq(Context)]
      /\ saved_esp' \in [Processor!Proc -> Nat]
      /\ kstack'[p] = s /\ want'[p] = w /\ saved_esp'[p] = Len(s)
      /\ \A q \in Processor!Proc \ {p} : /\ kstack'[q] = kstack[q] /\ want'[q] = want[q]
                                         /\ saved_esp'[q] = saved_esp[q]
  BY <1>1, <1>2, <1>3
<1>5. \A q \in Processor!Proc : Nest(q, want'[q])
  BY <1>3, <1>4 DEF ContextInv
<1>6. Parked(saved_esp'[p], kstack'[p], want'[p])
  BY <1>3, <1>4 DEF Parked
<1>7. \A q \in Processor!Proc \ {cur} : Parked(saved_esp'[q], kstack'[q], want'[q])
  <2> SUFFICES ASSUME NEW q \in Processor!Proc \ {cur}
               PROVE  Parked(saved_esp'[q], kstack'[q], want'[q])
    OBVIOUS
  <2>1. CASE q = p
    BY <1>6, <2>1
  <2>2. CASE q # p
    <3>1. Parked(saved_esp[q], kstack[q], want[q])
      BY DEF ContextInv
    <3> QED
      BY <1>4, <2>2, <3>1
  <2> QED
    BY <2>1, <2>2
<1>8. \A q \in ready' : want'[q] # << >>
  BY <1>1, <1>2, <1>3, <1>4 DEF ContextInv
<1>9. Runs(cpu', kstack'[cur], want'[cur], cur) /\ want'[cur] = want[cur]
  BY <1>1, <1>2, <1>4 DEF ContextInv
<1>10. ContextInv'
  BY <1>1, <1>2, <1>4, <1>5, <1>7, <1>8, <1>9 DEF ContextInv
<1>11. Len(want[cur]) \in Nat
  BY <1>1
<1>12. Restored
  BY <1>2, <1>9, <1>11 DEF Restored
<1> QED
  BY <1>10, <1>12

(* A step of the other parts, or of a line that is raised. *)
LEMMA ContextKept ==
    ASSUME ContextInv,
           UNCHANGED <<cpu, cur, kstack, saved_esp, esp0, ready, want>>
    PROVE  ContextInv' /\ Restored
<1>1. ContextInv'
  BY DEF ContextInv
<1>2. want' = want /\ cur' = cur
  OBVIOUS
<1>3. Len(want[cur]) \in Nat
  BY DEF ContextInv
<1> QED
  BY <1>1, <1>2, <1>3 DEF Restored

(* kinit leaves two processes: itself and kmain. *)
LEMMA ContextStart ==
    ASSUME Processor!Init PROVE ContextInv
<1> DEFINE P == Processor!Proc
           s == Processor!NewFrame(Kmain)
           w == <<Processor!Code(Kmain)>>
<1>1. /\ Boot \in P /\ Kmain \in P /\ Boot # Kmain /\ Boot \notin Users
  BY ThreadsAssumption DEF Processor!ProcessAssumption, Processor!Proc
<1>2. /\ s \in Seq(Word) /\ Len(s) \in Nat /\ w \in Seq(Context) /\ w # << >>
      /\ Nest(Kmain, w) /\ Len(w) = 1 /\ Len(s) = Top(w) /\ Frames(s, w, 1)
  BY <1>1, NewFrameFacts
<1>3. /\ cur = Boot /\ cpu = Processor!Code(Boot) /\ ready = {Kmain}
      /\ kstack = [p \in P |-> IF p = Kmain THEN s ELSE << >>]
      /\ saved_esp = [p \in P |-> IF p = Kmain THEN Len(s) ELSE 0]
      /\ want = [p \in P |-> IF p = Kmain THEN w ELSE << >>]
  BY DEF Processor!Init
<1>4. cpu \in Context /\ Resumable(Boot, cpu) /\ cpu.at = "code"
  BY <1>1, <1>3 DEF Processor!Code, Context, At, Resumable
<1> HIDE DEF P, s, w
<1>5. << >> \in Seq(Word) /\ << >> \in Seq(Context)
  OBVIOUS
<1>6. /\ kstack \in [P -> Seq(Word)] /\ want \in [P -> Seq(Context)] /\ saved_esp \in [P -> Nat]
      /\ kstack[Kmain] = s /\ want[Kmain] = w /\ saved_esp[Kmain] = Len(s)
      /\ \A p \in P \ {Kmain} : kstack[p] = << >> /\ want[p] = << >>
  BY <1>1, <1>2, <1>3, <1>5
<1>7. \A p : Nest(p, << >>)
  BY DEF Nest
<1>8. \A p \in P : Nest(p, want[p])
  BY <1>2, <1>6, <1>7
<1>9. Parked(saved_esp[Kmain], kstack[Kmain], want[Kmain])
  BY <1>2, <1>6 DEF Parked
<1>10. \A p \in P \ {cur} : Parked(saved_esp[p], kstack[p], want[p])
  BY <1>6, <1>9 DEF Parked
<1>11. Runs(cpu, kstack[cur], want[cur], cur)
  BY <1>1, <1>3, <1>4, <1>6 DEF Runs, RunsCode
<1>12. \A p \in ready : want[p] # << >>
  BY <1>2, <1>3, <1>6
<1>13. cur \notin Users /\ cur \in P /\ ready \subseteq P \ {cur}
  BY <1>1, <1>3
<1> QED
  BY <1>4, <1>6, <1>8, <1>10, <1>11, <1>12, <1>13 DEF ContextInv, P

(* Every step of the processor keeps the invariant, and every return is to  *)
(* what was interrupted.                                                    *)
LEMMA ProcessorStep ==
    ASSUME ContextInv, Processor!Next
    PROVE  ContextInv' /\ Restored
<1>1. cpu \in Context /\ Runs(cpu, kstack[cur], want[cur], cur)
  BY DEF ContextInv
<1>2. ASSUME NEW line \in Processor!Lines, Processor!Raise(line)
      PROVE  ContextInv' /\ Restored
  BY <1>2, ContextKept DEF Processor!Raise
<1>3. ASSUME NEW line \in Processor!Lines, Processor!Deliver(line)
      PROVE  ContextInv' /\ Restored
  <2> DEFINE vec == Processor!Vector(line)
  <2>1. vec \in Int /\ vec # Processor!SYSCALL /\ ~Processor!TrapGate(vec)
    BY DEF Processor!Vector, Processor!Lines, Processor!SYSCALL, Processor!TrapGate
  <2>2. cpu.if = TRUE
    BY <1>1, <1>3 DEF Processor!Deliver, Context
  <2>3. Processor!Enter(vec) /\ UNCHANGED <<cur, saved_esp, esp0, ready>>
    BY <1>3 DEF Processor!Deliver
  <2> HIDE DEF vec
  <2> QED
    BY <2>1, <2>2, <2>3, EnterStep
<1>4. ASSUME Processor!Fault PROVE ContextInv' /\ Restored
  <2> DEFINE vec == Processor!PAGE_FAULT
  <2>1. vec \in Int /\ vec = Processor!PAGE_FAULT
    BY DEF Processor!PAGE_FAULT
  <2>2. /\ cpu.at # "stub" /\ Processor!Enter(vec)
        /\ UNCHANGED <<cur, saved_esp, esp0, ready>>
    BY <1>4 DEF Processor!Fault
  <2> HIDE DEF vec
  <2> QED
    BY <2>1, <2>2, EnterStep
<1>5. ASSUME Processor!Int80 PROVE ContextInv' /\ Restored
  <2> DEFINE vec == Processor!SYSCALL
  <2>1. vec \in Int /\ ~Processor!TrapGate(vec)
    BY DEF Processor!SYSCALL, Processor!TrapGate
  <2>2. /\ cpu.at # "stub" /\ Processor!Enter(vec)
        /\ UNCHANGED <<cur, saved_esp, esp0, ready>>
    BY <1>5 DEF Processor!Int80
  <2> HIDE DEF vec
  <2> QED
    BY <2>1, <2>2, EnterStep
<1>6. ASSUME Processor!Handler PROVE ContextInv' /\ Restored
  <2>1. CASE Processor!Stub
    BY <2>1, StubStep
  <2>2. CASE Processor!Stay
    BY <2>2, StayStep
  <2>3. ASSUME NEW p \in Processor!Proc,
               Processor!Switch(p, TRUE) \/ Processor!Switch(p, FALSE) \/ Processor!Kill(p)
        PROVE  ContextInv' /\ Restored
    <3>1. CASE \E stays \in BOOLEAN : Processor!Switch(p, stays)
      BY <3>1, SwitchStep
    <3>2. CASE Processor!Kill(p)
      BY <3>2, KillStep
    <3> QED
      BY <2>3, <3>1, <3>2
  <2> QED
    BY <1>6, <2>1, <2>2, <2>3 DEF Processor!Handler
<1>7. ASSUME NEW p \in Processor!Proc, Processor!Wake(p) \/ Processor!ProcessNew(p)
      PROVE  ContextInv' /\ Restored
  BY <1>7, WakeStep, NewStep
<1> QED
  BY <1>2, <1>3, <1>4, <1>5, <1>6, <1>7 DEF Processor!Next

(* Every step of the machine. *)
LEMMA MachineStep ==
    ASSUME ContextInv, [MachineNext]_machineVars
    PROVE  ContextInv' /\ Restored
<1>1. CASE CpuStep(Processor!Next)
  BY <1>1, ProcessorStep DEF CpuStep
<1>2. CASE DiskStep(Ata!Next)
  BY <1>2, ContextKept DEF DiskStep, cpuVars
<1>3. CASE ClockStep(Rtc!Next)
  BY <1>3, ContextKept DEF ClockStep, cpuVars
<1>4. CASE UNCHANGED machineVars
  BY <1>4, ContextKept DEF machineVars, cpuVars
<1> QED
  BY <1>1, <1>2, <1>3, <1>4 DEF MachineNext

(* While a process runs its own code its kernel stack is empty. *)
LEMMA Unwound ==
    ASSUME ContextInv PROVE Processor!StackUnwound
<1> SUFFICES ASSUME cpu.at = "code", want[cur] = << >>
             PROVE  /\ kstack[cur] = << >>
                    /\ cpu = [Processor!Code(cur) EXCEPT !.eax = cpu.eax]
                    /\ cpu.ring = 3 => esp0 = cur
  BY DEF Processor!StackUnwound
<1>1. RunsCode(cpu, kstack[cur], want[cur], cur) /\ cpu \in Context
  BY DEF ContextInv, Runs, RunsStub, RunsHandler
<1>2. cpu = [Processor!Code(cur) EXCEPT !.eax = cpu.eax]
  <2> DEFINE r == IF cur \in Users THEN 3 ELSE 0
  <2>1. /\ cpu.at = "code" /\ cpu.ring = r /\ cpu.if = TRUE /\ cpu.vec = -1 /\ cpu.pos = 0
    BY <1>1 DEF RunsCode, Resumable
  <2>2. Processor!Code(cur) = [at |-> "code", ring |-> r, if |-> TRUE, eax |-> 0, vec |-> -1,
                               pos |-> 0]
    BY DEF Processor!Code
  <2> HIDE DEF r
  <2>3. cpu = [at |-> cpu.at, ring |-> cpu.ring, if |-> cpu.if, eax |-> cpu.eax, vec |-> cpu.vec,
               pos |-> cpu.pos]
    BY <1>1 DEF Context
  <2>4. [Processor!Code(cur) EXCEPT !.eax = cpu.eax]
          = [at |-> "code", ring |-> r, if |-> TRUE, eax |-> cpu.eax, vec |-> -1, pos |-> 0]
    <3> DEFINE f == [at |-> "code", ring |-> r, if |-> TRUE, eax |-> 0, vec |-> -1, pos |-> 0]
               g == [at |-> "code", ring |-> r, if |-> TRUE, eax |-> cpu.eax, vec |-> -1, pos |-> 0]
               h == [f EXCEPT !.eax = cpu.eax]
    <3>1. DOMAIN h = DOMAIN g
      OBVIOUS
    <3>2. \A k \in DOMAIN g : h[k] = g[k]
      <4>1. DOMAIN g = {"at", "ring", "if", "eax", "vec", "pos"}
        OBVIOUS
      <4>2. /\ h["at"] = g["at"] /\ h["ring"] = g["ring"] /\ h["vec"] = g["vec"]
            /\ h["pos"] = g["pos"] /\ h["eax"] = g["eax"]
        OBVIOUS
      <4>3. h["if"] = g["if"]
        <5>1. h["if"] = f["if"]
          OBVIOUS
        <5>2. f["if"] = TRUE /\ g["if"] = TRUE
          OBVIOUS
        <5> QED
          BY <5>1, <5>2
      <4> HIDE DEF f, g, h
      <4> QED
        BY <4>1, <4>2, <4>3
    <3>3. h = [k \in DOMAIN h |-> h[k]] /\ g = [k \in DOMAIN g |-> g[k]]
      OBVIOUS
    <3>4. h = g
      <4> HIDE DEF g, h
      <4> QED
        BY <3>1, <3>2, <3>3
    <3> QED
      BY <2>2, <3>4
  <2> QED
    BY <2>1, <2>3, <2>4
<1>3. cpu.ring = 3 => esp0 = cur
  BY <1>1 DEF RunsCode, Resumable, ContextInv
<1> QED
  BY <1>1, <1>2, <1>3 DEF RunsCode

(* The invariant holds in every state of the machine. *)
THEOREM ContextInvariant == MachineSpec => []ContextInv
<1>1. MachineInit => ContextInv
  BY ContextStart DEF MachineInit
<1>2. ContextInv /\ [MachineNext]_machineVars => ContextInv'
  BY MachineStep
<1> QED
  BY <1>1, <1>2, PTL DEF MachineSpec

(* Whatever interrupts, faults, system calls and switches are nested on the *)
(* kernel stacks, a process goes on where it was interrupted, in its ring,  *)
(* with its interrupt flag and registers, only the caller of a system call  *)
(* finding a result in eax; and while it runs its own code its kernel stack *)
(* is empty and tss.esp0 names it: isr.asm, isr_handler, the scheduler's    *)
(* switch and the frame of process_new together.                            *)
THEOREM ContextsAreKept == MachineSpec => ContextsKept
<1>1. ContextInv /\ [MachineNext]_machineVars =>
         [Restored]_Processor!vars
  BY MachineStep
<1>2. ContextInv => Processor!StackUnwound
  BY Unwound
<1>3. Processor!ContextRestored <=> [][Restored]_Processor!vars
  BY DEF Processor!ContextRestored, Restored
<1> QED
  BY <1>1, <1>2, <1>3, ContextInvariant, PTL DEF MachineSpec, ContextsKept

-----------------------------------------------------------------------------
(* The drive.  InCall: an access is going on; Moving: its words are.  End   *)
(* is what boot is when disk_init has returned.                             *)
InCall == pc \in {"select", "wait", "data", "ready", "last"}
Moving == pc \in {"data", "ready", "last"}
End == Len(Partitions) + 1

DriveType ==
    [kind : Ata!Kinds, state : {"idle", "settling", "busy", "drq"}, err : BOOLEAN,
     cmd : {"none", "reset", "identify", "read", "write", "flush"}, lba : Nat, left : Int, word : Nat]

CallType ==
    [read : BOOLEAN, lba : Ata!Lba, cnt : Nat, buff : Seq(Values) \cup Seq(Ata!Sector), i : Nat,
     err : BOOLEAN]

DiskTypes ==
    /\ drive \in DriveType /\ call \in CallType
    /\ medium \in [Ata!Lba -> Ata!Sector] /\ expect \in [Ata!Lba -> SUBSET Ata!Sector]
    /\ pc \in {"off", "reset", "identify", "no disk", "idle"} \/ InCall
    /\ ata_lock <=> InCall
    /\ usable \in BOOLEAN /\ asked \in BOOLEAN /\ fault \in BOOLEAN
    /\ calls \in Nat /\ boot \in 0..End /\ fs0 \in Ata!Lba

(* What the drive does while the driver waits for it.  An access of more    *)
(* than one sector gets no further than its first.                          *)
Phases ==
    /\ InCall => usable = TRUE /\ call.cnt > 0 /\ call.lba + call.cnt <= SECTORS
    /\ pc = "select" => call.i = 0
    /\ pc = "wait" => /\ drive.lba = call.lba /\ drive.left = call.cnt /\ drive.word = 1
                      /\ drive.cmd \in {"read", "write"} /\ call.i = 0
                      /\ drive.state # "settling" => (drive.state = "idle" <=> drive.err = TRUE)
    /\ pc = "data" => /\ drive.lba = call.lba /\ drive.left = call.cnt /\ drive.word = call.i + 1
                      /\ drive.cmd \in {"read", "write"} /\ call.i < WORDS
                      /\ drive.state = "drq" /\ drive.err = FALSE
    /\ pc = "ready" => /\ call.i = WORDS /\ drive.left = call.cnt - 1
                       /\ drive.cmd \in {"read", "write"} /\ drive.state # "settling"
                       /\ drive.state = "idle" /\ drive.err = FALSE => call.cnt = 1
    /\ pc = "last" => call.cnt = 1 /\ call.i = WORDS

(* The drive flushes only what the driver has written and waits for.        *)
Flushing ==
    /\ drive.cmd = "flush" =>
          /\ drive.state # "drq"
          /\ drive.state # "idle" => pc = "last" /\ call.read = FALSE
    /\ pc = "last" /\ drive.state # "idle" => drive.err = FALSE

(* The words that have been moved are the same on both sides, until a flush *)
(* fails; every other sector holds what it must.                            *)
Moved ==
    /\ ~Moving \/ call.read = TRUE => \A l \in Ata!Lba : medium[l] \in expect[l]
    /\ InCall /\ call.read = FALSE =>
          /\ call.buff \in [1..call.cnt -> Ata!Sector]
          /\ \A l \in Ata!Lba \ {call.lba} : medium[l] \in expect[l]
          /\ Moving /\ (pc = "last" => drive.err = FALSE) =>
                \A w \in 1..call.i : medium[call.lba][w] = call.buff[1][w]
    /\ InCall /\ call.read = TRUE =>
          /\ call.buff \in Seq(Values) /\ Len(call.buff) = call.i
          /\ \A w \in 1..call.i : call.buff[w] = medium[call.lba][w]
    /\ pc = "idle" /\ call.read = TRUE /\ call.err = FALSE /\ call.cnt > 0 =>
          \A l \in DOMAIN Ata!ReadBack : Ata!ReadBack[l] = medium[l]

(* How far disk_init has come. *)
Has(k) == Partitions[k] # 0 /\ Ata!Signature(medium[Partitions[k]])

Mounted(b) ==
    IF \E k \in 1..b - 1 : usable = TRUE /\ Ata!Signature(medium[0]) /\ Has(k)
    THEN CHOOSE l \in Ata!Lba \ {0} : Ata!Signature(medium[l]) ELSE 0

OnePartition == \A l, m \in Ata!Lba \ {0} :
                   Ata!Signature(medium[l]) /\ Ata!Signature(medium[m]) => l = m

Asks == /\ boot < End /\ call.read = TRUE /\ call.cnt = 1
        /\ call.lba = (IF boot = 0 THEN 0 ELSE Partitions[boot])
        /\ boot > 0 => Partitions[boot] # 0
        /\ call.err = FALSE => usable = TRUE
        /\ InCall \/ pc = "idle"

Booted ==
    /\ pc \in {"off", "reset", "identify"} =>
          usable = FALSE /\ boot = 0 /\ asked = FALSE /\ fs0 = 0 /\ call.cnt = 0
    /\ pc = "no disk" => usable = FALSE /\ boot = End /\ asked = FALSE /\ fs0 = 0
    /\ boot < End => calls = 0
    /\ asked = TRUE => Asks
    /\ boot < End /\ asked = FALSE => ~InCall
    /\ calls = 0 /\ InCall => call.read = TRUE
    /\ calls = 0 => OnePartition
    /\ boot = 0 => fs0 = 0
    /\ calls = 0 /\ fault = FALSE =>
          /\ boot > 0 => fs0 = Mounted(boot)
          /\ boot \in 1..End - 1 => usable = TRUE /\ Ata!Signature(medium[0])

DiskInv == DiskTypes /\ Phases /\ Flushing /\ Moved /\ Booted

(* The drive goes on by itself: only its own state changes, and the sector  *)
(* that was written if the flush fails.                                     *)
LEMMA DriveStep ==
    ASSUME DiskInv, Ata!Drive
    PROVE  DiskInv'
<1>1. UNCHANGED <<pc, call, ata_lock, usable, calls, expect, boot, asked, fs0, fault>>
  BY DEF Ata!Drive, Ata!DriveBusy, Ata!DriveReady, Ata!DriveFails, Ata!bootVars
<1>2. drive \in DriveType
  BY DEF DiskInv, DiskTypes
<1>3. drive' \in DriveType /\ Phases' /\ Flushing'
  <2>1. CASE Ata!DriveBusy
    <3>1. drive.state = "settling" /\ drive' = [drive EXCEPT !.state = "busy", !.err = FALSE]
      BY <2>1 DEF Ata!DriveBusy
    <3>2. /\ drive' \in DriveType /\ drive'.state = "busy" /\ drive'.err = FALSE
          /\ drive'.cmd = drive.cmd /\ drive'.lba = drive.lba /\ drive'.left = drive.left
          /\ drive'.word = drive.word
      BY <1>2, <3>1 DEF DriveType
    <3> QED
      BY <1>1, <3>1, <3>2 DEF DiskInv, Phases, Flushing, InCall
  <2>2. CASE Ata!DriveReady
    <3> DEFINE s == IF drive.cmd \notin {"reset", "flush"} /\ drive.left > 0 THEN "drq" ELSE "idle"
    <3>1. drive.state = "busy" /\ drive' = [drive EXCEPT !.state = s, !.word = 1]
      BY <2>2 DEF Ata!DriveReady, Ata!BSY
    <3>2. s \in {"idle", "drq"}
      OBVIOUS
    <3>3. drive.cmd \in {"read", "write"} => s = IF drive.left > 0 THEN "drq" ELSE "idle"
      OBVIOUS
    <3>8. drive.cmd = "flush" => s = "idle"
      OBVIOUS
    <3> HIDE DEF s
    <3>4. /\ drive' \in DriveType /\ drive'.state = s /\ drive'.err = drive.err
          /\ drive'.cmd = drive.cmd /\ drive'.lba = drive.lba /\ drive'.left = drive.left
          /\ drive'.word = 1
      BY <1>2, <3>1, <3>2 DEF DriveType
    <3>5. pc = "wait" => s = "drq" /\ drive.err = FALSE
      <4> SUFFICES ASSUME pc = "wait" PROVE s = "drq" /\ drive.err = FALSE
        OBVIOUS
      <4>1. drive.left = call.cnt /\ call.cnt > 0 /\ drive.cmd \in {"read", "write"} /\ drive.err # TRUE
        BY <3>1 DEF DiskInv, Phases, InCall
      <4>2. drive.err \in BOOLEAN
        BY <1>2 DEF DriveType
      <4> QED
        BY <3>3, <4>1, <4>2
    <3>6. pc = "ready" /\ s = "idle" => call.cnt = 1
      <4> SUFFICES ASSUME pc = "ready", s = "idle" PROVE call.cnt = 1
        OBVIOUS
      <4>1. drive.left = call.cnt - 1 /\ call.cnt > 0 /\ drive.cmd \in {"read", "write"}
        BY DEF DiskInv, Phases, InCall
      <4>2. call.cnt \in Nat
        BY DEF DiskInv, DiskTypes, CallType
      <4> QED
        BY <3>3, <4>1, <4>2
    <3>7. pc # "data"
      BY <3>1 DEF DiskInv, Phases
    <3> QED
      BY <1>1, <3>1, <3>2, <3>4, <3>5, <3>6, <3>7, <3>8 DEF DiskInv, Phases, Flushing, InCall
  <2>3. CASE Ata!DriveFails
    <3>1. drive.state = "busy" /\ drive' = [drive EXCEPT !.state = "idle", !.err = TRUE]
      BY <2>3 DEF Ata!DriveFails, Ata!BSY
    <3>2. /\ drive' \in DriveType /\ drive'.state = "idle" /\ drive'.err = TRUE
          /\ drive'.cmd = drive.cmd /\ drive'.lba = drive.lba /\ drive'.left = drive.left
          /\ drive'.word = drive.word
      BY <1>2, <3>1 DEF DriveType
    <3>3. pc # "data"
      BY <3>1 DEF DiskInv, Phases
    <3> QED
      BY <1>1, <3>1, <3>2, <3>3 DEF DiskInv, Phases, Flushing, InCall
  <2> QED
    BY <2>1, <2>2, <2>3 DEF Ata!Drive
<1>4. CASE medium' = medium /\ (pc = "last" /\ drive'.err = FALSE => drive.err = FALSE)
  <2>1. DiskTypes'
    BY <1>1, <1>3, <1>4 DEF DiskInv, DiskTypes, InCall
  <2>2. Moved'
    BY <1>1, <1>4 DEF DiskInv, Moved, InCall, Moving, Ata!ReadBack
  <2>3. Booted'
    BY <1>1, <1>4 DEF DiskInv, Booted, InCall, Asks, OnePartition, Mounted, Has
  <2> QED
    BY <1>3, <2>1, <2>2, <2>3 DEF DiskInv
<1>5. CASE /\ pc = "last" /\ call.read = FALSE /\ drive'.err = TRUE
           /\ \E x \in Ata!Sector : medium' = [medium EXCEPT ![call.lba] = x]
  <2>1. PICK x \in Ata!Sector : medium' = [medium EXCEPT ![call.lba] = x]
    BY <1>5
  <2>2. medium \in [Ata!Lba -> Ata!Sector] /\ call.lba \in Ata!Lba /\ call.read = FALSE
    BY <1>5 DEF DiskInv, DiskTypes, CallType
  <2>3. medium' \in [Ata!Lba -> Ata!Sector] /\ \A l \in Ata!Lba \ {call.lba} : medium'[l] = medium[l]
    BY <2>1, <2>2
  <2>4. InCall /\ Moving /\ InCall' /\ Moving' /\ pc' = "last" /\ call' = call /\ expect' = expect
    BY <1>1, <1>5 DEF InCall, Moving
  <2>5. DiskTypes'
    BY <1>1, <1>3, <2>3 DEF DiskInv, DiskTypes, InCall
  <2>6. Moved'
    <3>1. /\ call.buff \in [1..call.cnt -> Ata!Sector]
          /\ \A l \in Ata!Lba \ {call.lba} : medium[l] \in expect[l]
      BY <2>2, <2>4 DEF DiskInv, Moved
    <3> QED
      BY <1>5, <2>2, <2>3, <2>4, <3>1 DEF Moved
  <2>7. Booted'
    <3>1. calls # 0 /\ ~(boot < End) /\ asked # TRUE
      BY <2>2, <2>4 DEF DiskInv, Booted, Asks
    <3> QED
      BY <1>1, <2>4, <3>1 DEF DiskInv, Booted
  <2> QED
    BY <1>3, <2>5, <2>6, <2>7 DEF DiskInv
<1>6. \/ medium' = medium /\ (pc = "last" /\ drive'.err = FALSE => drive.err = FALSE)
      \/ /\ pc = "last" /\ call.read = FALSE /\ drive'.err = TRUE
         /\ \E x \in Ata!Sector : medium' = [medium EXCEPT ![call.lba] = x]
  <2>1. CASE Ata!DriveBusy
    <3>1. medium' = medium /\ drive.state = "settling"
      BY <2>1 DEF Ata!DriveBusy
    <3> QED
      BY <3>1 DEF DiskInv, Flushing
  <2>2. CASE Ata!DriveReady
    <3>1. medium' = medium /\ drive.state = "busy"
      BY <2>2 DEF Ata!DriveReady, Ata!BSY
    <3> QED
      BY <3>1 DEF DiskInv, Flushing
  <2>3. CASE Ata!DriveFails
    <3>1. drive.state = "busy" /\ drive' = [drive EXCEPT !.state = "idle", !.err = TRUE]
      BY <2>3 DEF Ata!DriveFails, Ata!BSY
    <3>2. drive'.err = TRUE
      BY <1>2, <3>1 DEF DriveType
    <3>3. CASE drive.cmd = "flush"
      <4>1. \E x \in Ata!Sector : medium' = [medium EXCEPT ![call.lba] = x]
        BY <2>3, <3>3 DEF Ata!DriveFails
      <4> QED
        BY <3>1, <3>2, <3>3, <4>1 DEF DiskInv, Flushing
    <3>4. CASE drive.cmd # "flush"
      BY <2>3, <3>2, <3>4 DEF Ata!DriveFails
    <3> QED
      BY <3>3, <3>4
  <2> QED
    BY <2>1, <2>2, <2>3 DEF Ata!Drive
<1> QED
  BY <1>4, <1>5, <1>6

(* A command leaves the rest of the drive as it is. *)
LEMMA CommandFacts ==
    ASSUME drive \in DriveType, NEW c \in {"reset", "identify", "read", "write", "flush"},
           NEW lba \in Nat, NEW cnt \in Nat, Ata!Command(c, lba, cnt)
    PROVE  /\ drive' \in DriveType /\ drive'.state = "settling" /\ drive'.cmd = c
           /\ drive'.lba = lba /\ drive'.left = cnt /\ drive'.word = 1
<1>1. /\ c \in {"none", "reset", "identify", "read", "write", "flush"} /\ cnt \in Int
      /\ drive' = [drive EXCEPT !.state = "settling", !.cmd = c, !.lba = lba, !.left = cnt, !.word = 1]
  BY DEF Ata!Command
<1>2. /\ drive'.state = "settling" /\ drive'.cmd = c
      /\ drive'.lba = lba /\ drive'.left = cnt /\ drive'.word = 1
  BY <1>1 DEF DriveType
<1>3. drive' \in DriveType
  BY <1>1 DEF DriveType
<1> QED
  BY <1>2, <1>3

(* ata_pio_init *)
LEMMA InitStep ==
    ASSUME DiskInv, Ata!InitReset \/ Ata!InitIdentify \/ Ata!InitDone
    PROVE  DiskInv'
<1>1. UNCHANGED <<medium, call, ata_lock, calls, expect, asked, fs0, fault>>
  BY DEF Ata!InitReset, Ata!InitIdentify, Ata!InitDone
<1>2. /\ drive \in DriveType /\ pc \in {"off", "reset", "identify"}
      /\ usable = FALSE /\ boot = 0 /\ asked = FALSE /\ fs0 = 0
  BY DEF DiskInv, DiskTypes, Booted, Ata!InitReset, Ata!InitIdentify, Ata!InitDone
<1>3. Partitions \in Seq(0..SECTORS - 1) /\ Len(Partitions) \in Nat
  BY SectorsAssumption DEF Ata!DriveAssumption
<1>4. \/ pc' = "no disk" /\ boot' = End /\ drive' = drive /\ usable' = usable
      \/ /\ pc' \in {"reset", "identify"} /\ boot' = boot /\ usable' = usable
         /\ drive' \in DriveType /\ drive'.cmd # "flush"
      \/ /\ pc' = "idle" /\ boot' = boot /\ usable' \in BOOLEAN
         /\ drive' = [drive EXCEPT !.state = "idle"]
  <2>1. CASE Ata!InitReset
    <3>1. CASE Ata!NoDisk
      BY <3>1 DEF Ata!NoDisk, Ata!Goto, End
    <3>2. CASE Ata!Goto("reset") /\ Ata!Command("reset", 0, 0) /\ UNCHANGED <<usable, boot>>
      BY <1>2, <3>2, CommandFacts DEF Ata!Goto
    <3> QED
      BY <2>1, <3>1, <3>2 DEF Ata!InitReset
  <2>2. CASE Ata!InitIdentify
    <3>1. CASE Ata!NoDisk
      BY <3>1 DEF Ata!NoDisk, Ata!Goto, End
    <3>2. CASE Ata!Goto("identify") /\ Ata!Command("identify", 0, 1) /\ UNCHANGED <<usable, boot>>
      BY <1>2, <3>2, CommandFacts DEF Ata!Goto
    <3> QED
      BY <2>2, <3>1, <3>2 DEF Ata!InitIdentify
  <2>3. CASE Ata!InitDone
    <3>1. CASE Ata!NoDisk
      BY <3>1 DEF Ata!NoDisk, Ata!Goto, End
    <3>2. CASE ~(Ata!ERR \/ drive.kind = "packet")
      <4>1. /\ pc' = "idle" /\ usable' = (drive.kind # "chs") /\ boot' = boot
            /\ drive' = [drive EXCEPT !.state = "idle"]
        BY <2>3, <3>2 DEF Ata!InitDone, Ata!Goto
      <4> QED
        BY <4>1
    <3> QED
      BY <2>3, <3>1, <3>2 DEF Ata!InitDone
  <2> QED
    BY <2>1, <2>2, <2>3
<1>5. drive' \in DriveType /\ usable' \in BOOLEAN /\ boot' \in 0..End
  <2>1. [drive EXCEPT !.state = "idle"] \in DriveType
    BY <1>2 DEF DriveType
  <2>2. End \in 0..End /\ 0 \in 0..End
    BY <1>3 DEF End
  <2> QED
    BY <1>2, <1>4, <2>1, <2>2
<1>6. ~InCall /\ ~InCall' /\ ~Moving /\ ~Moving'
  BY <1>2, <1>4 DEF InCall, Moving
<1>7. DiskTypes'
  <2>1. pc' \in {"off", "reset", "identify", "no disk", "idle"}
    BY <1>4
  <2> QED
    BY <1>1, <1>5, <1>6, <2>1 DEF DiskInv, DiskTypes
<1>8. Phases' /\ Flushing'
  <2>1. drive'.cmd = "flush" => drive'.state = "idle"
    BY <1>2, <1>4 DEF DiskInv, Flushing, DriveType
  <2>2. pc' # "last"
    BY <1>4
  <2> QED
    BY <1>6, <2>1, <2>2 DEF Phases, Flushing, InCall
<1>9. Moved'
  <2>1. \A l \in Ata!Lba : medium'[l] \in expect'[l]
    BY <1>1, <1>6 DEF DiskInv, Moved
  <2>2. call.cnt = 0
    BY <1>2 DEF DiskInv, Booted
  <2> QED
    BY <1>1, <1>6, <2>1, <2>2 DEF Moved
<1>10. Booted'
  <2>1. calls = 0 /\ OnePartition'
    <3>1. boot < End
      BY <1>2, <1>3 DEF End
    <3>2. calls = 0 /\ OnePartition
      BY <3>1 DEF DiskInv, Booted
    <3> QED
      BY <1>1, <3>2 DEF OnePartition
  <2>2. asked' = FALSE /\ fs0' = 0 /\ calls' = 0
    BY <1>1, <1>2, <2>1
  <2>3. usable' = FALSE => \A b : Mounted(b)' = 0
    BY DEF Mounted
  <2>4. CASE pc' = "no disk" /\ boot' = End /\ usable' = FALSE
    <3>1. End \notin 1..End - 1 /\ ~(End < End) /\ End # 0
      BY <1>3 DEF End
    <3>2. fs0' = Mounted(boot)'
      BY <2>2, <2>3, <2>4
    <3> QED
      BY <1>6, <2>1, <2>2, <2>4, <3>1, <3>2 DEF Booted
  <2>5. CASE boot' = 0 /\ pc' # "no disk" /\ (pc' # "idle" => usable' = FALSE)
    <3>1. ~(0 > 0) /\ 0 \notin 1..End - 1
      OBVIOUS
    <3>2. call'.cnt = 0
      BY <1>1, <1>2 DEF DiskInv, Booted
    <3> QED
      BY <1>6, <3>2, <2>1, <2>2, <2>5, <3>1 DEF Booted
  <2> QED
    BY <1>2, <1>4, <2>4, <2>5
<1> QED
  BY <1>7, <1>8, <1>9, <1>10 DEF DiskInv

(* The steps of an access leave disk_init where it is. *)
LEMMA BootedKept ==
    ASSUME DiskInv, InCall, InCall' \/ pc' = "idle",
           UNCHANGED <<usable, calls, boot, asked, fs0, fault>>,
           call'.read = call.read, call'.cnt = call.cnt, call'.lba = call.lba,
           call.read = TRUE => medium' = medium
    PROVE  Booted'
<1>1. pc' \notin {"off", "reset", "identify", "no disk"}
  BY DEF InCall
<1>2. usable = TRUE
  BY DEF DiskInv, Phases
<1>3. boot < End => calls = 0 /\ asked # FALSE
  BY DEF DiskInv, Booted
<1>4. asked = TRUE => Asks'
  BY <1>2 DEF DiskInv, Booted, Asks
<1>5. calls = 0 => call.read = TRUE /\ medium' = medium
  BY DEF DiskInv, Booted
<1>6. calls = 0 => OnePartition'
  BY <1>5 DEF DiskInv, Booted, OnePartition
<1>8. boot = 0 => fs0 = 0
  BY DEF DiskInv, Booted
<1>7. calls = 0 /\ fault = FALSE =>
          /\ boot > 0 => fs0 = Mounted(boot)'
          /\ boot \in 1..End - 1 => usable = TRUE /\ Ata!Signature(medium'[0])
  BY <1>5 DEF DiskInv, Booted, Mounted, Has
<1> QED
  BY <1>1, <1>2, <1>3, <1>4, <1>5, <1>6, <1>7, <1>8 DEF Booted

(* Types of an access. *)
LEMMA CallFacts ==
    ASSUME DiskInv
    PROVE  /\ call.lba \in Ata!Lba /\ call.cnt \in Nat /\ call.i \in Nat
           /\ call.read \in BOOLEAN /\ call.err \in BOOLEAN /\ drive.err \in BOOLEAN
           /\ call \in CallType /\ drive \in DriveType
           /\ SECTORS \in Nat /\ WORDS \in Nat /\ WORDS > 0
           /\ \A l \in Ata!Lba : l \in Nat /\ l < SECTORS
           /\ drive.left \in Int /\ drive.lba \in Nat /\ drive.word \in Nat
<1>1. call \in CallType /\ drive \in DriveType
  BY DEF DiskInv, DiskTypes
<1>2. SECTORS \in Nat /\ WORDS \in Nat /\ WORDS > 0
  BY SectorsAssumption DEF Ata!DriveAssumption
<1>3. \A l \in Ata!Lba : l \in Nat /\ l < SECTORS
  BY <1>2 DEF Ata!Lba
<1> QED
  BY <1>1, <1>2, <1>3 DEF CallType, DriveType

(* Sectors with the same words, and ranges of one sector. *)
LEMMA SameSector ==
    ASSUME NEW a \in Ata!Sector, NEW b \in Ata!Sector, \A w \in 1..WORDS : a[w] = b[w]
    PROVE  a = b
<1> DEFINE D == 1..WORDS
<1>1. a \in [D -> Values] /\ b \in [D -> Values] /\ \A w \in D : a[w] = b[w]
  BY DEF Ata!Sector
<1> HIDE DEF D
<1> QED
  BY <1>1

(* An access of one sector has one. *)
LEMMA OneSector ==
    ASSUME NEW x \in Nat, NEW n \in Nat, n = 1, NEW l \in x..x + n - 1
    PROVE  l = x /\ l - x + 1 = 1
OBVIOUS

(* The access returns. *)
LEMMA ReturnStep ==
    ASSUME DiskInv, InCall, NEW failed \in BOOLEAN, Ata!Return(failed),
           failed = FALSE => pc = "last", drive.err = FALSE => failed = FALSE,
           drive.cmd = "flush" => drive.state = "idle",
           UNCHANGED <<drive, medium, usable, calls, boot, asked, fs0, fault>>
    PROVE  DiskInv'
<1>0. /\ call.lba \in Ata!Lba /\ call.cnt \in Nat /\ call.i \in Nat
      /\ call.read \in BOOLEAN /\ call.err \in BOOLEAN /\ drive.err \in BOOLEAN
      /\ call \in CallType /\ drive \in DriveType
      /\ SECTORS \in Nat /\ WORDS \in Nat /\ WORDS > 0
      /\ \A l \in Ata!Lba : l \in Nat /\ l < SECTORS
  BY CallFacts
<1>1. /\ pc' = "idle" /\ ata_lock' = FALSE /\ call' = [call EXCEPT !.err = failed]
      /\ Ata!Kept(~drive.err)
  BY DEF Ata!Return, Ata!Goto, Ata!ERR
<1>2. /\ call' \in CallType /\ call'.read = call.read /\ call'.lba = call.lba
      /\ call'.cnt = call.cnt /\ call'.buff = call.buff /\ call'.i = call.i /\ call'.err = failed
  BY <1>0, <1>1 DEF CallType
<1>3. ~InCall' /\ ~Moving'
  BY <1>1 DEF InCall, Moving
<1>4. medium \in [Ata!Lba -> Ata!Sector] /\ expect \in [Ata!Lba -> SUBSET Ata!Sector]
  BY DEF DiskInv, DiskTypes
<1>5. pc = "last" => call.cnt = 1 /\ call.i = WORDS /\ Moving
  BY DEF DiskInv, Phases, Moving
<1>6. expect' \in [Ata!Lba -> SUBSET Ata!Sector] /\ \A l \in Ata!Lba : medium[l] \in expect'[l]
  <2>1. CASE call.read = TRUE
    <3>1. expect' = expect
      BY <1>1, <2>1 DEF Ata!Kept
    <3> QED
      BY <1>4, <2>1, <3>1 DEF DiskInv, Moved
  <2>2. CASE call.read = FALSE
    <3> DEFINE e == [l \in Ata!Lba |->
                       IF l \notin call.lba..call.lba + call.cnt - 1 THEN expect[l]
                       ELSE IF ~drive.err THEN {call.buff[l - call.lba + 1]} ELSE Ata!Sector]
    <3>1. expect' = e
      BY <1>1, <2>2 DEF Ata!Kept
    <3>2. /\ call.buff \in [1..call.cnt -> Ata!Sector]
          /\ \A l \in Ata!Lba \ {call.lba} : medium[l] \in expect[l]
          /\ Moving /\ (pc = "last" => drive.err = FALSE) => \A w \in 1..call.i : medium[call.lba][w] = call.buff[1][w]
      BY <2>2 DEF DiskInv, Moved
    <3>3. call.cnt > 0
      BY DEF DiskInv, Phases
    <3>4. call.lba \in call.lba..call.lba + call.cnt - 1
      BY <1>0, <3>3
    <3>5. drive.err = FALSE => medium[call.lba] = call.buff[1]
      <4> SUFFICES ASSUME drive.err = FALSE PROVE medium[call.lba] = call.buff[1]
        OBVIOUS
      <4> DEFINE m == medium[call.lba]
                 b == call.buff[1]
      <4>1. m \in Ata!Sector
        BY <1>0, <1>4
      <4>2. 1 \in 1..call.cnt
        BY <1>0, <3>3
      <4>3. b \in Ata!Sector
        BY <3>2, <4>2
      <4>4. \A w \in 1..WORDS : m[w] = b[w]
        BY <1>5, <3>2
      <4> HIDE DEF m, b
      <4>5. m = b
        BY <4>1, <4>3, <4>4, SameSector
      <4> QED
        BY <4>5 DEF m, b
    <3>6. ASSUME NEW l \in Ata!Lba PROVE e[l] \in SUBSET Ata!Sector /\ medium[l] \in e[l]
      <4>1. CASE l \notin call.lba..call.lba + call.cnt - 1
        <5>1. l # call.lba /\ e[l] = expect[l]
          BY <3>4, <4>1
        <5> QED
          BY <1>4, <3>2, <5>1
      <4>2. CASE l \in call.lba..call.lba + call.cnt - 1 /\ drive.err = TRUE
        <5>1. e[l] = Ata!Sector
          BY <4>2
        <5> QED
          BY <1>4, <5>1
      <4>3. CASE l \in call.lba..call.lba + call.cnt - 1 /\ drive.err = FALSE
        <5>1. call.cnt = 1
          BY <1>5, <4>3
        <5>2. l = call.lba /\ l - call.lba + 1 = 1
          <6>1. call.lba \in Nat /\ call.cnt \in Nat
            BY <1>0
          <6> QED
            BY <4>3, <5>1, <6>1, OneSector
        <5>3. e[l] = {call.buff[1]}
          BY <4>3, <5>2
        <5>4. medium[l] \in Ata!Sector
          BY <1>4
        <5> QED
          BY <3>5, <4>3, <5>2, <5>3, <5>4
      <4> QED
        BY <1>0, <4>1, <4>2, <4>3
    <3> HIDE DEF e
    <3>7. e = [l \in Ata!Lba |-> e[l]]
      BY DEF e
    <3> QED
      BY <3>1, <3>6, <3>7
  <2> QED
    BY <1>0, <2>1, <2>2
<1>7. DiskTypes'
  BY <1>1, <1>2, <1>3, <1>4, <1>6 DEF DiskInv, DiskTypes
<1>8. Phases' /\ Flushing'
  BY <1>1, <1>3 DEF Phases, Flushing
<1>9. ASSUME call.read = TRUE, failed = FALSE
      PROVE  \A l \in DOMAIN Ata!ReadBack' : Ata!ReadBack'[l] = medium[l]
  <2>1. call.cnt = 1 /\ call.i = WORDS
    BY <1>5, <1>9
  <2>2. Ata!ReadBack' = [l \in call.lba..call.lba + call.cnt - 1 |->
               [w \in 1..WORDS |-> call.buff[(l - call.lba) * WORDS + w]]]
    BY <1>2 DEF Ata!ReadBack
  <2>3. DOMAIN Ata!ReadBack' = call.lba..call.lba + call.cnt - 1
    BY <2>2
  <2>4. \A l \in call.lba..call.lba + call.cnt - 1 : l = call.lba
    BY <1>0, <2>1
  <2> DEFINE b == [w \in 1..WORDS |-> call.buff[w]]
  <2>5. ASSUME NEW l, l = call.lba, l \in call.lba..call.lba + call.cnt - 1 PROVE Ata!ReadBack'[l] = b
    <3>1. Ata!ReadBack'[l] = [w \in 1..WORDS |-> call.buff[(l - call.lba) * WORDS + w]]
      BY <2>2, <2>5
    <3>2. l - call.lba = 0
      BY <1>0, <2>5
    <3>3. \A w \in 1..WORDS : (l - call.lba) * WORDS + w = w
      BY <1>0, <3>2
    <3> QED
      BY <3>1, <3>3
  <2>6. b = medium[call.lba]
    <3> DEFINE m == medium[call.lba]
    <3>1. m \in [1..WORDS -> Values]
      <4>1. m \in Ata!Sector
        BY <1>0, <1>4
      <4> QED
        BY <4>1 DEF Ata!Sector
    <3>2. \A w \in 1..WORDS : call.buff[w] = m[w]
      BY <1>9, <2>1 DEF DiskInv, Moved
    <3> HIDE DEF m
    <3>3. b = m
      BY <3>1, <3>2
    <3> QED
      BY <3>3 DEF m
  <2> QED
    BY <2>3, <2>4, <2>5, <2>6
<1>10. Moved'
  BY <1>1, <1>2, <1>3, <1>6, <1>9 DEF Moved
<1>11. Booted'
  BY <1>1, <1>2, BootedKept
<1> QED
  BY <1>7, <1>8, <1>10, <1>11 DEF DiskInv

(* An access goes on, and nothing is moved. *)
LEMMA GoesOn ==
    ASSUME DiskInv, InCall, InCall', Moving => Moving',
           UNCHANGED <<medium, call, ata_lock, usable, calls, expect, boot, asked, fs0, fault>>,
           drive' \in DriveType, Phases', Flushing', call.i = 0 \/ Moving, pc # "last"
    PROVE  DiskInv'
<1>1. DiskTypes'
  BY DEF DiskInv, DiskTypes
<1>2. Moved'
  <2>1. pc' # "idle"
    BY DEF InCall
  <2>2. call.i = 0 => \A w \in 1..call.i : FALSE
    OBVIOUS
  <2>3. Moving' \/ ~Moving'
    OBVIOUS
  <2>4. call.read = FALSE /\ Moving' => \A w \in 1..call.i : medium[call.lba][w] = call.buff[1][w]
    BY <2>2 DEF DiskInv, Moved
  <2>5. ~Moving' \/ call.read = TRUE => \A l \in Ata!Lba : medium[l] \in expect[l]
    BY DEF DiskInv, Moved
  <2> QED
    BY <2>1, <2>4, <2>5 DEF DiskInv, Moved
<1>3. Booted'
  BY BootedKept
<1> QED
  BY <1>1, <1>2, <1>3 DEF DiskInv

(* The registers are written. *)
LEMMA IssueStep ==
    ASSUME DiskInv, Ata!Issue
    PROVE  DiskInv'
<1>1. /\ pc = "select" /\ pc' = "wait" /\ Ata!Command(IF call.read THEN "read" ELSE "write", call.lba, call.cnt)
      /\ UNCHANGED <<medium, call, ata_lock, usable, calls, expect, boot, asked, fs0, fault>>
  BY DEF Ata!Issue, Ata!Goto, Ata!bootVars
<1>2. call.lba \in Nat /\ call.cnt \in Nat /\ drive \in DriveType
  BY CallFacts
<1>3. InCall /\ InCall' /\ call.i = 0 /\ ~Moving
  BY <1>1 DEF InCall, Moving, DiskInv, Phases
<1> DEFINE c == IF call.read THEN "read" ELSE "write"
<1>4. c \in {"read", "write"} /\ c \in {"reset", "identify", "read", "write", "flush"}
  OBVIOUS
<1> HIDE DEF c
<1>5. /\ drive' \in DriveType /\ drive'.state = "settling" /\ drive'.cmd = c
      /\ drive'.lba = call.lba /\ drive'.left = call.cnt /\ drive'.word = 1
  <2>1. Ata!Command(c, call.lba, call.cnt)
    BY <1>1 DEF c
  <2> QED
    BY <1>2, <1>4, <2>1, CommandFacts
<1>6. Phases' /\ Flushing'
  BY <1>1, <1>3, <1>4, <1>5 DEF DiskInv, Phases, Flushing
<1> QED
  BY <1>1, <1>3, <1>5, <1>6, GoesOn

(* The drive has answered the command. *)
LEMMA StartedStep ==
    ASSUME DiskInv, Ata!Started
    PROVE  DiskInv'
<1>1. /\ pc = "wait" /\ drive.state # "settling" /\ drive.state # "busy"
      /\ UNCHANGED <<drive, medium, usable, calls, boot, asked, fs0, fault>>
  BY DEF Ata!Started, Ata!NotBusy, Ata!Settled, Ata!BSY, Ata!bootVars
<1>2. drive.err \in BOOLEAN /\ drive \in DriveType /\ WORDS > 0 /\ call.i = 0
  BY <1>1, CallFacts DEF DiskInv, Phases
<1>3. InCall /\ ~Moving /\ (drive.cmd = "flush" => drive.state = "idle")
  BY <1>1 DEF InCall, Moving, DiskInv, Flushing
<1>4. CASE drive.err = TRUE
  <2>1. Ata!Return(TRUE)
    BY <1>4 DEF Ata!Started, Ata!ERR
  <2> DEFINE failed == TRUE
  <2>2. Ata!Return(failed) /\ failed \in BOOLEAN /\ failed # FALSE
    BY <2>1
  <2> HIDE DEF failed
  <2> QED
    BY <1>1, <1>3, <1>4, <2>2, ReturnStep
<1>5. CASE drive.err = FALSE
  <2>1. pc' = "data" /\ UNCHANGED <<call, ata_lock, expect>>
    BY <1>5 DEF Ata!Started, Ata!ERR, Ata!Goto
  <2>2. drive.state = "drq"
    BY <1>1, <1>2, <1>5 DEF DiskInv, Phases, DriveType
  <2>3. InCall'
    BY <2>1 DEF InCall
  <2>4. Phases' /\ Flushing'
    BY <1>1, <1>2, <1>3, <1>5, <2>1, <2>2 DEF DiskInv, Phases, Flushing
  <2> QED
    BY <1>1, <1>2, <1>3, <2>1, <2>3, <2>4, GoesOn
<1> QED
  BY <1>2, <1>4, <1>5

(* A sector is done with: the access fails, or it was the only one. *)
LEMMA SectorStep ==
    ASSUME DiskInv, Ata!SectorDone
    PROVE  DiskInv'
<1>1. /\ pc = "ready" /\ drive.state # "busy" /\ drive.state # "drq"
      /\ UNCHANGED <<medium, usable, calls, boot, asked, fs0, fault>>
  BY DEF Ata!SectorDone, Ata!DataReady, Ata!BSY, Ata!DRQ, Ata!bootVars
<1>2. drive.err \in BOOLEAN /\ drive \in DriveType /\ WORDS \in Nat
  BY CallFacts
<1>3. InCall /\ Moving /\ (drive.cmd = "flush" => drive.state = "idle")
  BY <1>1 DEF InCall, Moving, DiskInv, Flushing
<1>4. CASE drive.err = TRUE
  <2>1. Ata!Return(TRUE) /\ drive' = drive
    BY <1>4 DEF Ata!SectorDone, Ata!ERR
  <2> DEFINE failed == TRUE
  <2>2. Ata!Return(failed) /\ failed \in BOOLEAN /\ failed # FALSE
    BY <2>1
  <2> HIDE DEF failed
  <2> QED
    BY <1>1, <1>3, <1>4, <2>1, <2>2, ReturnStep
<1>5. CASE drive.err = FALSE
  <2>1. call.cnt = 1 /\ call.i = WORDS
    BY <1>1, <1>2, <1>5 DEF DiskInv, Phases, DriveType
  <2>2. ~(call.i < call.cnt * WORDS)
    BY <1>2, <2>1
  <2>3. /\ pc' = "last" /\ UNCHANGED <<call, ata_lock, expect>>
        /\ IF call.read THEN UNCHANGED drive ELSE Ata!Command("flush", 0, 0)
    BY <1>5, <2>2 DEF Ata!SectorDone, Ata!ERR, Ata!Goto
  <2>4. drive' \in DriveType
    BY <1>2, <2>3, CommandFacts
  <2>5. InCall' /\ Moving'
    BY <2>3 DEF InCall, Moving
  <2>6. Phases'
    BY <1>1, <1>3, <2>1, <2>3 DEF DiskInv, Phases
  <2>7. Flushing'
    <3>1. CASE call.read = TRUE
      <4>1. drive' = drive /\ call' = call /\ pc' = "last"
        BY <2>3, <3>1
      <4> QED
        BY <1>3, <1>5, <4>1 DEF DiskInv, Flushing
    <3>2. CASE call.read = FALSE
      <4>1. drive' = [drive EXCEPT !.state = "settling", !.cmd = "flush", !.lba = 0, !.left = 0, !.word = 1]
        BY <2>3, <3>2 DEF Ata!Command
      <4>2. drive'.state = "settling" /\ drive'.err = FALSE
        BY <1>2, <1>5, <4>1 DEF DriveType
      <4> QED
        BY <2>3, <3>2, <4>2 DEF Flushing
    <3> QED
      BY <3>1, <3>2, CallFacts
  <2> QED
    BY <1>1, <1>3, <2>3, <2>4, <2>5, <2>6, <2>7, GoesOn
<1> QED
  BY <1>2, <1>4, <1>5

(* The access succeeds. *)
LEMMA FinishStep ==
    ASSUME DiskInv, Ata!Finish
    PROVE  DiskInv'
<1>1. /\ pc = "last" /\ Ata!Return(FALSE) /\ drive.state # "settling" /\ drive.state # "busy"
      /\ UNCHANGED <<drive, medium, usable, calls, boot, asked, fs0, fault>>
  BY DEF Ata!Finish, Ata!bootVars, Ata!NotBusy, Ata!Settled, Ata!BSY
<1>2. InCall
  BY <1>1 DEF InCall
<1> DEFINE failed == FALSE
<1>3. Ata!Return(failed) /\ failed \in BOOLEAN /\ failed = FALSE
  BY <1>1
<1>4. drive.cmd = "flush" => drive.state = "idle"
  BY <1>1, CallFacts DEF DiskInv, Flushing, DriveType
<1> HIDE DEF failed
<1> QED
  BY <1>1, <1>2, <1>3, <1>4, ReturnStep

(* The words of the first sector. *)
LEMMA SmallQuotient ==
    ASSUME NEW n \in Nat, n > 0, NEW i \in Nat, i < n
    PROVE  i \div n = 0 /\ i % n = i
OBVIOUS

(* A word is moved. *)
LEMMA WordStep ==
    ASSUME DiskInv, NEW v \in Values, Ata!Word(v)
    PROVE  DiskInv'
<1> DEFINE i == call.i
           L == call.lba
<1>0. /\ L \in Ata!Lba /\ call.cnt \in Nat /\ i \in Nat /\ L \in Nat
      /\ call.read \in BOOLEAN /\ call \in CallType /\ drive \in DriveType
      /\ WORDS \in Nat /\ WORDS > 0
  BY CallFacts
<1>1. /\ pc = "data" /\ InCall /\ Moving
      /\ UNCHANGED <<ata_lock, usable, calls, expect, boot, asked, fs0, fault>>
  BY DEF Ata!Word, Ata!bootVars, InCall, Moving
<1>2. /\ drive.lba = L /\ drive.left = call.cnt /\ drive.word = i + 1
      /\ drive.cmd \in {"read", "write"} /\ i < WORDS
      /\ drive.state = "drq" /\ drive.err = FALSE
      /\ usable = TRUE /\ call.cnt > 0 /\ L + call.cnt <= SECTORS
  BY <1>1 DEF DiskInv, Phases
<1>3. i \div WORDS = 0 /\ i % WORDS = i
  BY <1>0, <1>2, SmallQuotient
<1>4. /\ v \in (IF ~call.read THEN {call.buff[1][i + 1]} ELSE {medium[L][i + 1]})
      /\ pc' = (IF i + 1 = WORDS THEN "ready" ELSE "data")
      /\ Ata!Transfer(v)
  <2>1. (call.i \div WORDS) + 1 = 1 /\ (call.i % WORDS) + 1 = i + 1
    BY <1>3
  <2> QED
    BY <1>2, <2>1 DEF Ata!Word, Ata!Goto, Ata!DRQ
<1> DEFINE buff == IF call.read THEN Append(call.buff, v) ELSE call.buff
<1>5. call' = [call EXCEPT !.i = @ + 1, !.buff = buff]
  BY DEF Ata!Word
<1>6. buff \in Seq(Values) \cup Seq(Ata!Sector)
  <2>1. call.buff \in Seq(Values) \cup Seq(Ata!Sector)
    BY <1>0 DEF CallType
  <2>2. call.read = TRUE => call.buff \in Seq(Values)
    BY <1>1 DEF DiskInv, Moved
  <2>3. call.read = TRUE => Append(call.buff, v) \in Seq(Values)
    BY <2>2
  <2> QED
    BY <1>0, <2>1, <2>3
<1> HIDE DEF buff
<1>7. /\ call' \in CallType /\ call'.read = call.read /\ call'.lba = call.lba
      /\ call'.cnt = call.cnt /\ call'.buff = buff /\ call'.i = i + 1 /\ call'.err = call.err
  <2>1. i + 1 \in Nat
    BY <1>0
  <2> QED
    BY <1>0, <1>5, <1>6, <2>1 DEF CallType
<1>8. InCall' /\ Moving'
  BY <1>4 DEF InCall, Moving
<1>9. medium \in [Ata!Lba -> Ata!Sector] /\ expect \in [Ata!Lba -> SUBSET Ata!Sector]
  BY DEF DiskInv, DiskTypes
<1>10. i + 1 \in 1..WORDS
  BY <1>0, <1>2
<1>11. medium' = IF call.read THEN medium ELSE [medium EXCEPT ![L][i + 1] = v]
  BY <1>2, <1>4 DEF Ata!Transfer, Ata!DRQ
<1>12. medium' \in [Ata!Lba -> Ata!Sector]
  <2>1. [medium[L] EXCEPT ![i + 1] = v] \in Ata!Sector
    <3>1. medium[L] \in [1..WORDS -> Values]
      <4>1. medium[L] \in Ata!Sector
        BY <1>0, <1>9
      <4> QED
        BY <4>1 DEF Ata!Sector
    <3> QED
      BY <1>10, <3>1 DEF Ata!Sector
  <2> DEFINE m == [medium[L] EXCEPT ![i + 1] = v]
  <2>2. [medium EXCEPT ![L][i + 1] = v] = [medium EXCEPT ![L] = m]
    OBVIOUS
  <2> HIDE DEF m
  <2>3. [medium EXCEPT ![L] = m] \in [Ata!Lba -> Ata!Sector]
    BY <1>0, <1>9, <2>1 DEF m
  <2> QED
    BY <1>9, <1>11, <2>2, <2>3
<1>13. drive' = IF drive.word # WORDS THEN [drive EXCEPT !.word = @ + 1]
                ELSE [drive EXCEPT !.left = @ - 1, !.lba = @ + 1, !.word = 1,
                        !.state = IF @ = "drq" /\ (drive.left > 1 \/ ~call.read)
                                  THEN "busy" ELSE "idle"]
  BY <1>2, <1>4 DEF Ata!Transfer, Ata!DRQ
<1>14. drive' \in DriveType /\ Phases' /\ Flushing'
  <2>1. CASE i + 1 # WORDS
    <3>1. drive' = [drive EXCEPT !.word = @ + 1]
      BY <1>2, <1>13, <2>1
    <3>2. /\ drive' \in DriveType /\ drive'.state = drive.state /\ drive'.err = drive.err
          /\ drive'.cmd = drive.cmd /\ drive'.lba = drive.lba /\ drive'.left = drive.left
          /\ drive'.word = drive.word + 1
      BY <1>0, <3>1 DEF DriveType
    <3>3. i + 1 < WORDS
      BY <1>0, <1>2, <2>1
    <3> QED
      BY <1>1, <1>2, <1>4, <1>7, <2>1, <3>2, <3>3 DEF Phases, Flushing
  <2>2. CASE i + 1 = WORDS
    <3> DEFINE s == IF drive.left > 1 \/ ~call.read THEN "busy" ELSE "idle"
    <3>1. drive' = [drive EXCEPT !.left = @ - 1, !.lba = @ + 1, !.word = 1, !.state = s]
      BY <1>2, <1>13, <2>2
    <3>2. s \in {"busy", "idle"} /\ (s = "idle" => ~(drive.left > 1))
      OBVIOUS
    <3> HIDE DEF s
    <3>3. /\ drive' \in DriveType /\ drive'.state = s /\ drive'.err = drive.err
          /\ drive'.cmd = drive.cmd /\ drive'.left = drive.left - 1
      <4> DEFINE x == drive.left - 1
                 y == drive.lba + 1
      <4>1. x \in Int /\ y \in Nat
        BY CallFacts
      <4>2. s \in {"idle", "settling", "busy", "drq"}
        BY <3>2
      <4>3. drive' = [drive EXCEPT !.left = x, !.lba = y, !.word = 1, !.state = s]
        BY <3>1
      <4> HIDE DEF x, y
      <4>4. /\ drive' \in DriveType /\ drive'.state = s /\ drive'.err = drive.err
            /\ drive'.cmd = drive.cmd /\ drive'.left = x
        BY <1>0, <4>1, <4>2, <4>3 DEF DriveType
      <4> QED
        BY <4>4 DEF x
    <3>4. s = "idle" => call.cnt = 1
      BY <1>0, <1>2, <3>2
    <3> QED
      BY <1>1, <1>2, <1>4, <1>7, <2>2, <3>2, <3>3, <3>4 DEF Phases, Flushing
  <2> QED
    BY <2>1, <2>2
<1>15. DiskTypes'
  BY <1>1, <1>7, <1>8, <1>12, <1>14 DEF DiskInv, DiskTypes
<1>16. CASE call.read = TRUE
  <2>1. medium' = medium /\ v = medium[L][i + 1] /\ buff = Append(call.buff, v)
    BY <1>4, <1>11, <1>16 DEF buff
  <2>2. /\ call.buff \in Seq(Values) /\ Len(call.buff) = i
        /\ \A w \in 1..i : call.buff[w] = medium[L][w]
        /\ \A l \in Ata!Lba : medium[l] \in expect[l]
    BY <1>1, <1>16 DEF DiskInv, Moved
  <2>3. /\ buff \in Seq(Values) /\ Len(buff) = i + 1 /\ buff[i + 1] = v
        /\ \A w \in 1..i : buff[w] = call.buff[w]
    BY <1>0, <2>1, <2>2
  <2>4. \A w \in 1..i + 1 : buff[w] = medium[L][w]
    <3> SUFFICES ASSUME NEW w \in 1..i + 1 PROVE buff[w] = medium[L][w]
      OBVIOUS
    <3>1. w = i + 1 \/ w \in 1..i
      BY <1>0
    <3> QED
      BY <2>1, <2>2, <2>3, <3>1
  <2>5. Moved'
    <3>1. pc' # "idle"
      BY <1>8 DEF InCall
    <3> HIDE DEF i, L
    <3>2. call'.lba = L
      BY <1>7 DEF L
    <3> QED
      BY <1>1, <1>7, <1>16, <2>1, <2>2, <2>3, <2>4, <3>1, <3>2 DEF Moved
  <2>6. Booted'
    BY <1>1, <1>7, <1>8, <2>1, BootedKept
  <2> QED
    BY <1>14, <1>15, <2>5, <2>6 DEF DiskInv
<1>17. CASE call.read = FALSE
  <2>1. v = call.buff[1][i + 1] /\ buff = call.buff
    BY <1>4, <1>17 DEF buff
  <2>2. medium' = [medium EXCEPT ![L][i + 1] = v]
    BY <1>11, <1>17
  <2>3. /\ call.buff \in [1..call.cnt -> Ata!Sector]
        /\ \A l \in Ata!Lba \ {L} : medium[l] \in expect[l]
        /\ \A w \in 1..i : medium[L][w] = call.buff[1][w]
    BY <1>1, <1>17 DEF DiskInv, Moved
  <2>4. \A l \in Ata!Lba \ {L} : medium'[l] = medium[l]
    BY <1>9, <2>2
  <2>5. medium'[L] = [medium[L] EXCEPT ![i + 1] = v]
    BY <1>0, <1>9, <2>2
  <2>6. medium[L] \in [1..WORDS -> Values]
    <3>1. medium[L] \in Ata!Sector
      BY <1>0, <1>9
    <3> QED
      BY <3>1 DEF Ata!Sector
  <2>7. \A w \in 1..i + 1 : medium'[L][w] = call.buff[1][w]
    <3> SUFFICES ASSUME NEW w \in 1..i + 1 PROVE medium'[L][w] = call.buff[1][w]
      OBVIOUS
    <3>1. w \in 1..WORDS
      BY <1>0, <1>2
    <3>2. CASE w = i + 1
      BY <2>1, <2>5, <2>6, <3>1, <3>2
    <3>3. CASE w # i + 1
      <4>1. w \in 1..i
        BY <1>0, <3>3
      <4>2. medium'[L][w] = medium[L][w]
        BY <2>5, <2>6, <3>1, <3>3
      <4> QED
        BY <2>3, <4>1, <4>2
    <3> QED
      BY <3>2, <3>3
  <2>8. Moved'
    <3>1. pc' # "idle"
      BY <1>8 DEF InCall
    <3>2. call'.lba = L /\ call'.read = FALSE /\ call'.buff = call.buff /\ call'.i = i + 1
          /\ call'.cnt = call.cnt /\ expect' = expect
      BY <1>1, <1>7, <1>17, <2>1
    <3> HIDE DEF i, L
    <3> QED
      BY <1>8, <2>3, <2>4, <2>7, <3>1, <3>2 DEF Moved
  <2>9. Booted'
    BY <1>1, <1>7, <1>8, <1>17, BootedKept
  <2> QED
    BY <1>14, <1>15, <2>8, <2>9 DEF DiskInv
<1> QED
  BY <1>0, <1>16, <1>17

(* An access begins, or is refused at once. *)
LEMMA BeginStep ==
    ASSUME DiskInv, NEW read \in BOOLEAN, NEW lba \in Ata!Lba, NEW cnt \in Nat, NEW data,
           read = FALSE => data \in [1..cnt -> Ata!Sector], lba + cnt <= SECTORS,
           Ata!Begin(read, lba, cnt, data),
           asked' \in BOOLEAN, calls' \in Nat, UNCHANGED <<boot, fs0, fault>>
    PROVE  /\ DiskTypes' /\ Phases' /\ Flushing' /\ Moved'
           /\ medium' = medium /\ usable' = usable
           /\ call'.read = read /\ call'.lba = lba /\ call'.cnt = cnt
           /\ InCall' \/ pc' = "idle"
           /\ call'.err = FALSE => usable = TRUE
<1> DEFINE e == (usable = FALSE \/ cnt = 0)
           b == IF read THEN << >> ELSE data
<1>1. usable \in BOOLEAN
  BY DEF DiskInv, DiskTypes
<1>2. /\ pc = "idle" /\ UNCHANGED <<drive, medium, usable, expect>>
      /\ call' = [read |-> read, lba |-> lba, cnt |-> cnt, buff |-> b, i |-> 0, err |-> e]
      /\ IF usable = TRUE /\ cnt # 0 THEN pc' = "select" /\ ata_lock' = TRUE
         ELSE UNCHANGED <<pc, ata_lock>>
  BY <1>1 DEF Ata!Begin, Ata!Goto
<1>3. e \in BOOLEAN
  OBVIOUS
<1>4. b \in Seq(Values) \cup Seq(Ata!Sector)
  <2>1. CASE read = TRUE
    <3>1. b = << >>
      BY <2>1
    <3> QED
      BY <3>1
  <2>2. CASE read = FALSE
    <3>1. b = data /\ data \in [1..cnt -> Ata!Sector]
      BY <2>2
    <3>2. data \in Seq(Ata!Sector)
      BY <3>1
    <3> QED
      BY <3>1, <3>2
  <2> QED
    BY <2>1, <2>2
<1>5. /\ read = TRUE => b = << >>
      /\ read = FALSE => b = data
  OBVIOUS
<1>6. e = FALSE <=> usable = TRUE /\ cnt # 0
  BY <1>1
<1> HIDE DEF e, b
<1>7. /\ call' \in CallType /\ call'.read = read /\ call'.lba = lba /\ call'.cnt = cnt
      /\ call'.buff = b /\ call'.i = 0 /\ call'.err = e
  BY <1>2, <1>3, <1>4 DEF CallType
<1>8. ~InCall /\ ~Moving /\ ~Moving'
  BY <1>2 DEF InCall, Moving
<1>9. \/ pc' = "select" /\ InCall' /\ ata_lock' = TRUE /\ e = FALSE
      \/ pc' = "idle" /\ ~InCall' /\ ata_lock' = ata_lock /\ e # FALSE
  BY <1>2, <1>6 DEF InCall
<1>10. DiskTypes'
  <2>1. ata_lock <=> InCall
    BY DEF DiskInv, DiskTypes
  <2>2. ata_lock' <=> InCall'
    <3>1. CASE ata_lock' = TRUE /\ InCall'
      BY <3>1
    <3>2. CASE ata_lock' = ata_lock /\ ~InCall'
      <4>1. ~ata_lock
        BY <1>8, <2>1
      <4>2. ~ata_lock'
        BY <3>2, <4>1
      <4> QED
        BY <3>2, <4>2
    <3> QED
      BY <1>9, <3>1, <3>2
  <2>3. pc' \in {"off", "reset", "identify", "no disk", "idle"} \/ InCall'
    BY <1>9
  <2>4. UNCHANGED <<drive, medium, usable, expect>>
    BY <1>2
  <2> QED
    BY <1>7, <2>2, <2>3, <2>4 DEF DiskInv, DiskTypes
<1>13. Flushing'
  <2>1. pc' # "last" /\ drive' = drive /\ pc # "last"
    BY <1>2, <1>9
  <2> QED
    BY <2>1 DEF DiskInv, Flushing
<1>11. Phases'
  <2>1. pc' \notin {"wait", "data", "ready", "last"}
    BY <1>9
  <2>2. InCall' => usable' = TRUE /\ cnt > 0
    BY <1>2, <1>6, <1>9
  <2> QED
    BY <1>7, <2>1, <2>2 DEF Phases
<1>12. Moved'
  <2>1. \A l \in Ata!Lba : medium[l] \in expect[l]
    BY <1>8 DEF DiskInv, Moved
  <2>2. \A w \in 1..0 : FALSE
    OBVIOUS
  <2>3. read = TRUE => b \in Seq(Values) /\ Len(b) = 0
    <3>1. << >> \in Seq(Values) /\ Len(<< >>) = 0
      OBVIOUS
    <3> QED
      BY <1>5, <3>1
  <2>4. \A l \in Ata!Lba : medium'[l] \in expect'[l]
    BY <1>2, <2>1
  <2>5. pc' = "idle" => call'.err # FALSE
    BY <1>7, <1>9
  <2>6. read = FALSE => b \in [1..cnt -> Ata!Sector]
    BY <1>5
  <2>7. \A w \in 1..call'.i : FALSE
    BY <1>7, <2>2
  <2>8. read = TRUE => call'.buff \in Seq(Values) /\ Len(call'.buff) = call'.i
    BY <1>7, <2>3
  <2>9. read = FALSE => call'.buff \in [1..call'.cnt -> Ata!Sector]
    BY <1>7, <2>6
  <2> QED
    BY <1>7, <1>8, <2>4, <2>5, <2>7, <2>8, <2>9 DEF Moved
<1> QED
  BY <1>2, <1>6, <1>7, <1>9, <1>10, <1>11, <1>12, <1>13

(* An access of the file system. *)
LEMMA AccessStep ==
    ASSUME DiskInv, NEW read \in BOOLEAN, NEW lba \in Ata!Lba, NEW cnt \in 1..MAX_COUNT, NEW data,
           read = FALSE => data \in [1..cnt -> Ata!Sector], Ata!Access(read, lba, cnt, data)
    PROVE  DiskInv'
<1>1. cnt \in Nat /\ SECTORS \in Nat /\ Len(Partitions) \in Nat /\ lba \in Nat
  BY SectorsAssumption, CallFacts DEF Ata!DriveAssumption
<1>2. /\ boot > Len(Partitions) /\ lba \in fs0..SECTORS - cnt /\ calls' = calls + 1
      /\ Ata!Begin(read, lba, cnt, data) /\ UNCHANGED <<boot, asked, fs0, fault>>
  BY DEF Ata!Access, Ata!bootVars
<1>3. lba + cnt <= SECTORS
  BY <1>1, <1>2
<1>4. calls \in Nat /\ asked \in BOOLEAN /\ boot \in 0..End
  BY DEF DiskInv, DiskTypes
<1>5. boot = End /\ ~(boot < End) /\ calls' # 0 /\ calls' \in Nat /\ boot # 0
  BY <1>1, <1>2, <1>4 DEF End
<1>6. asked = FALSE
  BY <1>4, <1>5 DEF DiskInv, Booted, Asks
<1>7. DiskTypes' /\ Phases' /\ Flushing' /\ Moved' /\ (InCall' \/ pc' = "idle")
  BY <1>1, <1>2, <1>3, <1>4, <1>5, BeginStep
<1>8. pc' \notin {"off", "reset", "identify", "no disk"}
  BY <1>7 DEF InCall
<1>9. Booted'
  BY <1>2, <1>5, <1>6, <1>8 DEF Booted
<1> QED
  BY <1>7, <1>9 DEF DiskInv

(* The partitions lie on the drive. *)
LEMMA PartitionFacts ==
    /\ Len(Partitions) \in Nat /\ End \in Nat /\ End = Len(Partitions) + 1
    /\ 0 \in Ata!Lba /\ SECTORS \in Nat
    /\ \A k \in 1..Len(Partitions) : Partitions[k] \in Ata!Lba
    /\ \A l \in Ata!Lba : l \in Nat /\ l + 1 <= SECTORS
BY SectorsAssumption DEF Ata!DriveAssumption, End, Ata!Lba

(* disk_init asks for a sector, or goes past an empty entry. *)
LEMMA BootReadStep ==
    ASSUME DiskInv, Ata!BootRead
    PROVE  DiskInv'
<1>1. /\ boot \in 0..Len(Partitions) /\ ~asked /\ pc = "idle" /\ UNCHANGED <<calls, fs0, fault>>
  BY DEF Ata!BootRead
<1>2. asked = FALSE /\ boot < End /\ calls = 0 /\ calls \in Nat /\ ~InCall /\ ~Moving
  BY <1>1, PartitionFacts DEF DiskInv, DiskTypes, Booted, InCall, Moving
<1>3. OnePartition
  BY <1>2 DEF DiskInv, Booted
<1>4. CASE boot > 0 /\ Partitions[boot] = 0
  <2>1. boot' = boot + 1 /\ UNCHANGED <<pc, call, ata_lock, drive, medium, usable, expect, asked>>
    BY <1>4 DEF Ata!BootRead
  <2>2. boot' \in 0..End /\ boot' # 0 /\ boot \in 1..End - 1 /\ boot' > 0
    BY <1>1, <1>4, <2>1, PartitionFacts
  <2>3. DiskTypes'
    BY <1>1, <2>1, <2>2 DEF DiskInv, DiskTypes, InCall
  <2>4. Phases' /\ Flushing'
    BY <2>1 DEF DiskInv, Phases, Flushing, InCall
  <2>5. Moved'
    BY <2>1 DEF DiskInv, Moved, InCall, Moving, Ata!ReadBack
  <2>6. fault = FALSE => fs0 = Mounted(boot)' /\ usable = TRUE /\ Ata!Signature(medium[0])
    <3> SUFFICES ASSUME fault = FALSE
                 PROVE  fs0 = Mounted(boot)' /\ usable = TRUE /\ Ata!Signature(medium[0])
      OBVIOUS
    <3>1. fs0 = Mounted(boot) /\ usable = TRUE /\ Ata!Signature(medium[0])
      BY <1>2, <1>4, <2>2 DEF DiskInv, Booted
    <3>2. Mounted(boot)' =
            IF \E k \in 1..(boot + 1) - 1 : usable = TRUE /\ Ata!Signature(medium[0]) /\ Has(k)
            THEN CHOOSE l \in Ata!Lba \ {0} : Ata!Signature(medium[l]) ELSE 0
      BY <2>1 DEF Mounted, Has
    <3>3. ~Has(boot)
      BY <1>4 DEF Has
    <3>4. 1..(boot + 1) - 1 = (1..boot - 1) \cup {boot}
      BY <2>2, PartitionFacts
    <3>5. (\E k \in 1..(boot + 1) - 1 : usable = TRUE /\ Ata!Signature(medium[0]) /\ Has(k))
            <=> (\E k \in 1..boot - 1 : usable = TRUE /\ Ata!Signature(medium[0]) /\ Has(k))
      BY <3>3, <3>4
    <3> QED
      BY <3>1, <3>2, <3>5 DEF Mounted
  <2>7. Booted'
    <3>1. OnePartition' /\ ~InCall' /\ asked' = FALSE /\ calls' = 0 /\ fs0' = fs0 /\ fault' = fault
      BY <1>1, <1>2, <1>3, <2>1 DEF OnePartition, InCall
    <3> QED
      BY <1>1, <2>1, <2>2, <2>6, <3>1 DEF Booted
  <2> QED
    BY <2>3, <2>4, <2>5, <2>7 DEF DiskInv
<1>5. CASE ~(boot > 0 /\ Partitions[boot] = 0)
  <2> DEFINE lba == IF boot = 0 THEN 0 ELSE Partitions[boot]
             one == 1
             yes == TRUE
  <2>1. Ata!Begin(TRUE, lba, 1, << >>) /\ asked' = TRUE /\ boot' = boot
    BY <1>5 DEF Ata!BootRead
  <2>2. lba \in Ata!Lba /\ lba + one <= SECTORS /\ one \in Nat /\ yes \in BOOLEAN /\ yes # FALSE
    BY <1>1, PartitionFacts
  <2>3. Ata!Begin(yes, lba, one, << >>)
    BY <2>1
  <2>4. one = 1 /\ yes = TRUE /\ lba = IF boot = 0 THEN 0 ELSE Partitions[boot]
    OBVIOUS
  <2> HIDE DEF lba, one, yes
  <2>5. asked' \in BOOLEAN /\ calls' \in Nat /\ UNCHANGED <<boot, fs0, fault>>
    BY <1>1, <1>2, <2>1
  <2>6. /\ DiskTypes' /\ Phases' /\ Flushing' /\ Moved'
        /\ medium' = medium /\ usable' = usable
        /\ call'.read = TRUE /\ call'.lba = lba /\ call'.cnt = 1
        /\ InCall' \/ pc' = "idle"
        /\ call'.err = FALSE => usable = TRUE
    BY <2>2, <2>3, <2>4, <2>5, BeginStep
  <2>7. Asks'
    <3>1. boot > 0 => Partitions[boot] # 0
      BY <1>5
    <3> QED
      BY <1>2, <2>1, <2>4, <2>6, <3>1 DEF Asks
  <2>8. pc' \notin {"off", "reset", "identify", "no disk"}
    BY <2>6 DEF InCall
  <2>9. OnePartition'
    BY <1>3, <2>6 DEF OnePartition
  <2>10. /\ boot = 0 => fs0 = 0
         /\ fault = FALSE =>
              /\ boot > 0 => fs0 = Mounted(boot)'
              /\ boot \in 1..End - 1 => usable = TRUE /\ Ata!Signature(medium[0])
    BY <1>2, <2>1, <2>6 DEF DiskInv, Booted, Mounted, Has
  <2>11. Booted'
    BY <1>1, <1>2, <2>1, <2>6, <2>7, <2>8, <2>9, <2>10 DEF Booted
  <2> QED
    BY <2>6, <2>11 DEF DiskInv
<1> QED
  BY <1>4, <1>5

(* What disk_init has read is what the sector holds. *)
LEMMA FirstWord ==
    ASSUME DiskInv, pc = "idle", Asks, call.err = FALSE
    PROVE  Ata!Signature(call.buff) <=> Ata!Signature(medium[call.lba])
<1>1. /\ call.lba \in Nat /\ WORDS \in Nat /\ WORDS > 0 /\ call.cnt = 1 /\ call.read = TRUE
  BY CallFacts DEF Asks
<1>2. \A l \in DOMAIN Ata!ReadBack : Ata!ReadBack[l] = medium[l]
  BY <1>1 DEF DiskInv, Moved
<1> DEFINE L == call.lba
<1>3. L \in L..L + call.cnt - 1
  BY <1>1
<1>4. Ata!ReadBack[L] = [w \in 1..WORDS |-> call.buff[(L - L) * WORDS + w]]
  BY <1>3 DEF Ata!ReadBack
<1>5. L \in DOMAIN Ata!ReadBack
  BY <1>3 DEF Ata!ReadBack
<1>6. (L - L) * WORDS + 1 = 1 /\ 1 \in 1..WORDS
  BY <1>1
<1>7. Ata!ReadBack[L][1] = call.buff[1]
  BY <1>4, <1>6
<1> QED
  BY <1>2, <1>5, <1>7 DEF Ata!Signature

(* mbr_load *)
LEMMA MbrStep ==
    ASSUME DiskInv, Ata!MbrLoad
    PROVE  DiskInv'
<1>1. /\ boot = 0 /\ asked /\ pc = "idle" /\ asked' = FALSE /\ fault' = call.err
      /\ boot' = (IF call.err \/ ~Ata!Signature(call.buff) THEN Len(Partitions) + 1 ELSE 1)
      /\ IF call.err /\ usable THEN Ata!Command("reset", 0, 0) ELSE UNCHANGED drive
      /\ UNCHANGED <<medium, pc, call, ata_lock, usable, calls, expect, fs0>>
  BY DEF Ata!MbrLoad
<1>2. asked = TRUE /\ call.err \in BOOLEAN /\ drive \in DriveType /\ usable \in BOOLEAN
  BY <1>1, CallFacts DEF DiskInv, DiskTypes
<1>3. Asks /\ call.lba = 0 /\ ~InCall /\ ~InCall'
  BY <1>1, <1>2 DEF DiskInv, Booted, Asks, InCall
<1>4. calls = 0 /\ fs0 = 0 /\ OnePartition'
  <2>1. boot < End
    BY <1>1, PartitionFacts
  <2>2. calls = 0 /\ fs0 = 0 /\ OnePartition
    BY <1>1, <2>1 DEF DiskInv, Booted
  <2> QED
    BY <1>1, <2>2 DEF OnePartition
<1>5. drive' \in DriveType
  BY <1>1, <1>2, CommandFacts
<1>6. boot' \in 0..End /\ boot' # 0 /\ boot' > 0
  BY <1>1, PartitionFacts
<1>7. DiskTypes'
  BY <1>1, <1>2, <1>5, <1>6 DEF DiskInv, DiskTypes, InCall
<1>8. Phases' /\ Flushing'
  <2>1. drive'.cmd = "flush" => drive'.state = "idle"
    BY <1>1, <1>2, CommandFacts DEF DiskInv, Flushing
  <2> QED
    BY <1>1, <1>3, <2>1 DEF Phases, Flushing
<1>9. Moved'
  BY <1>1 DEF DiskInv, Moved, InCall, Moving, Ata!ReadBack
<1>10. ASSUME call.err = FALSE
       PROVE  /\ fs0' = Mounted(boot)'
              /\ boot' \in 1..End - 1 => usable' = TRUE /\ Ata!Signature(medium'[0])
  <2>1. Ata!Signature(call.buff) <=> Ata!Signature(medium[0])
    BY <1>1, <1>3, <1>10, FirstWord
  <2>2. usable = TRUE
    BY <1>3, <1>10 DEF Asks
  <2>3. CASE Ata!Signature(medium[0])
    <3>1. boot' = 1
      BY <1>1, <1>10, <2>1, <2>3
    <3>2. ~(\E k \in 1..boot' - 1 : TRUE)
      BY <3>1
    <3>3. Mounted(boot)' = 0
      BY <3>2 DEF Mounted
    <3> QED
      BY <1>1, <1>4, <2>2, <2>3, <3>3
  <2>4. CASE ~Ata!Signature(medium[0])
    <3>1. boot' = End /\ boot' \notin 1..End - 1
      BY <1>1, <2>1, <2>4, PartitionFacts
    <3>2. Mounted(boot)' = 0
      BY <1>1, <2>4 DEF Mounted
    <3> QED
      BY <1>1, <1>4, <3>1, <3>2
  <2> QED
    BY <2>3, <2>4
<1>11. Booted'
  <2>1. pc' = "idle" /\ asked' = FALSE /\ calls' = 0 /\ fs0' = 0
    BY <1>1, <1>4
  <2>2. fault' = FALSE => /\ fs0' = Mounted(boot)'
                          /\ boot' \in 1..End - 1 => usable' = TRUE /\ Ata!Signature(medium'[0])
    BY <1>1, <1>10
  <2> QED
    BY <1>3, <1>4, <1>6, <2>1, <2>2 DEF Booted
<1> QED
  BY <1>7, <1>8, <1>9, <1>11 DEF DiskInv

(* vfs_detectfs *)
LEMMA DetectStep ==
    ASSUME DiskInv, Ata!Detect
    PROVE  DiskInv'
<1>1. /\ boot \in 1..Len(Partitions) /\ asked /\ pc = "idle" /\ asked' = FALSE /\ boot' = boot + 1
      /\ fault' = (fault \/ call.err)
      /\ UNCHANGED <<drive, medium, pc, call, ata_lock, usable, calls, expect>>
  BY DEF Ata!Detect
<1>2. PICK fat32 \in (IF call.err THEN BOOLEAN ELSE {Ata!Signature(call.buff)}) :
         fs0' = IF fat32 THEN Partitions[boot] ELSE fs0
  BY DEF Ata!Detect
<1>3. asked = TRUE /\ call.err \in BOOLEAN /\ fault \in BOOLEAN /\ fs0 \in Ata!Lba
  BY <1>1, CallFacts DEF DiskInv, DiskTypes
<1>4. Asks /\ call.lba = Partitions[boot] /\ Partitions[boot] # 0 /\ ~InCall /\ ~InCall'
  BY <1>1, <1>3 DEF DiskInv, Booted, Asks, InCall
<1>5. Partitions[boot] \in Ata!Lba /\ fs0' \in Ata!Lba
  BY <1>1, <1>2, <1>3, PartitionFacts
<1>6. boot < End /\ boot > 0 /\ boot \in 1..End - 1 /\ boot' \in 0..End /\ boot' # 0 /\ boot' > 0
  BY <1>1, PartitionFacts
<1>7. calls = 0 /\ OnePartition
  BY <1>6 DEF DiskInv, Booted
<1>8. DiskTypes'
  <2>1. fault' \in BOOLEAN
    BY <1>1
  <2> QED
    BY <1>1, <1>5, <1>6, <2>1 DEF DiskInv, DiskTypes, InCall
<1>9. Phases' /\ Flushing'
  BY <1>1, <1>4 DEF DiskInv, Phases, Flushing
<1>10. Moved'
  BY <1>1 DEF DiskInv, Moved, InCall, Moving, Ata!ReadBack
<1>11. ASSUME fault = FALSE, call.err = FALSE
       PROVE  fs0' = Mounted(boot)' /\ usable = TRUE /\ Ata!Signature(medium[0])
  <2> DEFINE B == boot
  <2>1. fs0 = Mounted(B) /\ usable = TRUE /\ Ata!Signature(medium[0])
    BY <1>6, <1>7, <1>11 DEF DiskInv, Booted
  <2>2. fat32 <=> Ata!Signature(medium[Partitions[B]])
    <3>1. fat32 = Ata!Signature(call.buff)
      BY <1>2, <1>11
    <3>2. Ata!Signature(call.buff) <=> Ata!Signature(medium[call.lba])
      BY <1>1, <1>4, <1>11, FirstWord
    <3> QED
      BY <1>4, <3>1, <3>2
  <2>3. fat32 <=> Has(B)
    BY <1>4, <2>2 DEF Has
  <2>4. Mounted(boot)' =
          IF \E k \in 1..(B + 1) - 1 : usable = TRUE /\ Ata!Signature(medium[0]) /\ Has(k)
          THEN CHOOSE l \in Ata!Lba \ {0} : Ata!Signature(medium[l]) ELSE 0
    BY <1>1 DEF Mounted, Has
  <2>5. 1..(B + 1) - 1 = (1..B - 1) \cup {B}
    BY <1>6, PartitionFacts
  <2>6. CASE fat32
    <3>1. \E k \in 1..(B + 1) - 1 : usable = TRUE /\ Ata!Signature(medium[0]) /\ Has(k)
      BY <2>1, <2>3, <2>5, <2>6
    <3> DEFINE C == CHOOSE l \in Ata!Lba \ {0} : Ata!Signature(medium[l])
    <3>2. C \in Ata!Lba \ {0} /\ Ata!Signature(medium[C])
      BY <1>4, <1>5, <2>2, <2>6
    <3>3. C = Partitions[B]
      <4> HIDE DEF C
      <4> QED
        BY <1>4, <1>5, <1>7, <2>2, <2>6, <3>2 DEF OnePartition
    <3> HIDE DEF C
    <3>4. Mounted(boot)' = C
      BY <2>4, <3>1 DEF C
    <3> QED
      BY <1>2, <2>1, <2>6, <3>3, <3>4
  <2>7. CASE ~fat32
    <3>1. (\E k \in 1..(B + 1) - 1 : usable = TRUE /\ Ata!Signature(medium[0]) /\ Has(k))
            <=> (\E k \in 1..B - 1 : usable = TRUE /\ Ata!Signature(medium[0]) /\ Has(k))
      BY <2>3, <2>5, <2>7
    <3>2. Mounted(boot)' = Mounted(B)
      BY <2>4, <3>1 DEF Mounted
    <3> QED
      BY <1>2, <2>1, <2>7, <3>2
  <2> QED
    BY <2>1, <2>6, <2>7
<1>12. Booted'
  <2>1. pc' = "idle" /\ asked' = FALSE /\ calls' = 0 /\ OnePartition'
    BY <1>1, <1>7 DEF OnePartition
  <2>2. fault' = FALSE => fault = FALSE /\ call.err = FALSE
    BY <1>1, <1>3
  <2>3. fault' = FALSE => fs0' = Mounted(boot)' /\ usable' = TRUE /\ Ata!Signature(medium'[0])
    BY <1>1, <1>11, <2>2
  <2> QED
    BY <1>4, <1>6, <2>1, <2>3 DEF Booted
<1> QED
  BY <1>8, <1>9, <1>10, <1>12 DEF DiskInv

(* Before ata_pio_init. *)
LEMMA DiskStart ==
    ASSUME Ata!Init
    PROVE  DiskInv
<1>1. /\ pc = "off" /\ call = Ata!NoCall /\ ata_lock = FALSE /\ usable = FALSE /\ calls = 0
      /\ boot = 0 /\ asked = FALSE /\ fs0 = 0 /\ fault = FALSE
  BY DEF Ata!Init
<1>2. SECTORS \in Nat /\ SECTORS > 0 /\ WORDS \in Nat /\ 0 \in Ata!Lba /\ Ata!Lba \subseteq Nat
  BY SectorsAssumption DEF Ata!DriveAssumption, Ata!Lba
<1>3. drive \in DriveType
  <2>1. drive \in [kind : Ata!Kinds, state : {"idle"}, err : {FALSE}, cmd : {"none"}, lba : {0},
                  left : {0}, word : {1}]
    BY DEF Ata!Init
  <2>2. {"idle"} \subseteq {"idle", "settling", "busy", "drq"} /\ {FALSE} \subseteq BOOLEAN
    OBVIOUS
  <2>3. {0} \subseteq Nat /\ {0} \subseteq Int /\ {1} \subseteq Nat
    OBVIOUS
  <2>4. {"none"} \subseteq {"none", "reset", "identify", "read", "write", "flush"}
    OBVIOUS
  <2> QED
    BY <2>1, <2>2, <2>3, <2>4, Zenon DEF DriveType
<1>4. call \in CallType /\ call.cnt = 0
  <2>1. << >> \in Seq(Values)
    OBVIOUS
  <2> QED
    BY <1>1, <1>2, <2>1 DEF Ata!NoCall, CallType
<1>5. medium \in [Ata!Lba -> Ata!Sector]
  <2>1. \A s \in {[w \in 1..WORDS |-> v] : v \in Values} : s \in Ata!Sector
    BY DEF Ata!Sector
  <2>2. medium \in [Ata!Lba -> {[w \in 1..WORDS |-> v] : v \in Values}]
    BY DEF Ata!Init
  <2> QED
    BY <2>1, <2>2
<1>6. expect = [l \in Ata!Lba |-> {medium[l]}]
  BY DEF Ata!Init
<1>7. expect \in [Ata!Lba -> SUBSET Ata!Sector] /\ \A l \in Ata!Lba : medium[l] \in expect[l]
  BY <1>5, <1>6
<1>8. ~InCall /\ ~Moving
  BY <1>1 DEF InCall, Moving
<1>9. OnePartition
  BY DEF Ata!Init, OnePartition
<1>10. DiskTypes
  <2>1. End \in Nat /\ 0 \in 0..End
    BY PartitionFacts
  <2>2. ~ata_lock
    BY <1>1
  <2> QED
    BY <1>1, <1>2, <1>3, <1>4, <1>5, <1>7, <1>8, <2>1, <2>2 DEF DiskTypes
<1>11. Phases /\ Flushing
  <2>1. drive.cmd = "none"
    BY DEF Ata!Init
  <2>2. Flushing
    BY <1>1, <2>1 DEF Flushing
  <2> QED
    BY <1>1, <1>8, <2>2 DEF Phases
<1>12. Moved
  BY <1>1, <1>7, <1>8 DEF Moved
<1>13. Booted
  BY <1>1, <1>4, <1>8, <1>9, PartitionFacts DEF Booted
<1> QED
  BY <1>10, <1>11, <1>12, <1>13 DEF DiskInv

(* A step of the driver, the drive or disk_init, or a new access. *)
LEMMA DiskNext ==
    ASSUME DiskInv, Ata!Next
    PROVE  DiskInv'
<1>1. CASE Ata!Driver
  <2>1. ASSUME NEW v \in Values, Ata!Word(v) PROVE DiskInv'
    BY <2>1, WordStep
  <2> QED
    BY <1>1, <2>1, InitStep, IssueStep, StartedStep, SectorStep, FinishStep DEF Ata!Driver
<1>2. CASE Ata!Drive
  BY <1>2, DriveStep
<1>3. CASE Ata!BootRead
  BY <1>3, BootReadStep
<1>4. CASE Ata!MbrLoad
  BY <1>4, MbrStep
<1>5. CASE Ata!Detect
  BY <1>5, DetectStep
<1> DEFINE yes == TRUE
           no == FALSE
           empty == << >>
<1>6. ASSUME NEW lba \in Ata!Lba, NEW cnt \in 1..MAX_COUNT, Ata!Access(yes, lba, cnt, empty)
      PROVE  DiskInv'
  <2>1. yes \in BOOLEAN /\ yes # FALSE
    OBVIOUS
  <2> HIDE DEF yes, empty
  <2> QED
    BY <1>6, <2>1, AccessStep
<1>7. ASSUME NEW lba \in Ata!Lba, NEW cnt \in 1..MAX_COUNT, NEW data \in [1..cnt -> Ata!Sector],
             Ata!Access(no, lba, cnt, data)
      PROVE  DiskInv'
  <2>1. no \in BOOLEAN
    OBVIOUS
  <2> HIDE DEF no
  <2> QED
    BY <1>7, <2>1, AccessStep
<1> QED
  BY <1>1, <1>2, <1>3, <1>4, <1>5, <1>6, <1>7 DEF Ata!Next

(* The other parts of the machine leave the drive alone. *)
LEMMA DiskUnchanged ==
    ASSUME DiskInv, UNCHANGED diskVars
    PROVE  DiskInv'
<1>1. UNCHANGED <<drive, medium, pc, call, ata_lock, usable, calls, boot, asked, fs0, fault, expect>>
  BY DEF diskVars
<1>2. DiskTypes'
  BY <1>1 DEF DiskInv, DiskTypes, InCall
<1>3. Phases' /\ Flushing'
  BY <1>1 DEF DiskInv, Phases, Flushing, InCall
<1>4. Moved'
  BY <1>1 DEF DiskInv, Moved, InCall, Moving, Ata!ReadBack
<1>5. Booted'
  BY <1>1 DEF DiskInv, Booted, InCall, Asks, OnePartition, Mounted, Has
<1> QED
  BY <1>2, <1>3, <1>4, <1>5 DEF DiskInv

(* What the invariant says of an access that has returned. *)
LEMMA DiskInvSound ==
    ASSUME DiskInv
    PROVE  AccessSound
<1>1. Ata!Transferred
  <2> SUFFICES ASSUME pc = "idle"
               PROVE  /\ \A l \in Ata!Lba : medium[l] \in expect[l]
                      /\ call.read /\ ~call.err /\ call.cnt > 0 =>
                           \A l \in DOMAIN Ata!ReadBack : Ata!ReadBack[l] = medium[l]
    BY DEF Ata!Transferred
  <2>1. ~Moving
    BY DEF Moving
  <2>2. call.read \in BOOLEAN /\ call.err \in BOOLEAN
    BY CallFacts
  <2> QED
    BY <2>1, <2>2 DEF DiskInv, Moved
<1>2. Ata!LockFollowsCall
  BY DEF DiskInv, DiskTypes, InCall, Ata!LockFollowsCall
<1>3. Ata!MountedRight
  <2> SUFFICES ASSUME boot > Len(Partitions), ~fault, calls = 0
               PROVE  fs0 = IF \E k \in 1..Len(Partitions) :
                                  usable /\ Partitions[k] # 0 /\ Ata!Signature(medium[0])
                                  /\ Ata!Signature(medium[Partitions[k]])
                            THEN CHOOSE l \in Ata!Lba \ {0} : Ata!Signature(medium[l]) ELSE 0
    BY DEF Ata!MountedRight
  <2>1. boot \in 0..End /\ fault \in BOOLEAN /\ usable \in BOOLEAN
    BY DEF DiskInv, DiskTypes
  <2>2. boot = End /\ fault = FALSE /\ boot > 0 /\ End - 1 = Len(Partitions)
    BY <2>1, PartitionFacts
  <2>3. fs0 = Mounted(End)
    BY <2>2 DEF DiskInv, Booted
  <2>4. (\E k \in 1..Len(Partitions) :
            usable /\ Partitions[k] # 0 /\ Ata!Signature(medium[0]) /\ Ata!Signature(medium[Partitions[k]]))
        <=> \E k \in 1..End - 1 : usable = TRUE /\ Ata!Signature(medium[0]) /\ Has(k)
    BY <2>1, <2>2 DEF Has
  <2> QED
    BY <2>3, <2>4 DEF Mounted
<1> QED
  BY <1>1, <1>2, <1>3 DEF AccessSound

(* An access of the drive that reports success has moved its sectors unless *)
(* the flush behind a write has failed, whose answer the driver does not    *)
(* look at; even then only the sectors of that write are in doubt.  The     *)
(* lock of ata_pio.c is given back on every way out, and disk_init mounts   *)
(* the FAT32 partition: for any number of sectors, words, partitions and    *)
(* accesses, and whatever the drive fails at.                               *)
THEOREM AccessIsSound == MachineSpec => []AccessSound
<1>1. MachineInit => DiskInv
  BY DiskStart DEF MachineInit
<1>2. DiskInv /\ [MachineNext]_machineVars => DiskInv'
  <2> SUFFICES ASSUME DiskInv, [MachineNext]_machineVars
               PROVE  DiskInv'
    OBVIOUS
  <2>1. CASE DiskStep(Ata!Next)
    BY <2>1, DiskNext DEF DiskStep
  <2>2. CASE UNCHANGED diskVars
    BY <2>2, DiskUnchanged
  <2>3. DiskStep(Ata!Next) \/ UNCHANGED diskVars
    BY DEF MachineNext, CpuStep, ClockStep, machineVars
  <2> QED
    BY <2>1, <2>2, <2>3
<1>3. DiskInv => AccessSound
  BY DiskInvSound
<1> QED
  BY <1>1, <1>2, <1>3, PTL DEF MachineSpec
==============================================================================
