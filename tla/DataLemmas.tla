----------------------------- MODULE DataLemmas -----------------------------
(***************************************************************************)
(* Lemmas about data: queues without repetitions, induction in a form the  *)
(* provers can use (a set in the place of the predicate), what             *)
(* SumFunctionOnSet of module Functions computes, and division.            *)
(***************************************************************************)
EXTENDS Integers, Sequences, FiniteSets, FiniteSetsExt, Functions, SequenceTheorems, FiniteSetTheorems, TLAPS

(* Appending a new element to a sequence without repetitions. *)
LEMMA AppendNew ==
    ASSUME NEW S, NEW q \in Seq(S), NEW p \in S, IsInjective(q), p \notin Range(q)
    PROVE  /\ Append(q, p) \in Seq(S)
           /\ Append(q, p) # <<>>
           /\ IsInjective(Append(q, p))
           /\ Range(Append(q, p)) = Range(q) \cup {p}
<1>1. /\ Append(q, p) \in Seq(S)
      /\ Append(q, p) # <<>>
      /\ Len(Append(q, p)) = Len(q) + 1
      /\ \A i \in 1..Len(q) : Append(q, p)[i] = q[i]
      /\ Append(q, p)[Len(q) + 1] = p
      /\ Len(q) \in Nat
  BY AppendProperties, LenProperties
<1>2. DOMAIN Append(q, p) = 1..Len(q) + 1 /\ DOMAIN q = 1..Len(q)
  BY <1>1, LenProperties
<1>3. \A i \in 1..Len(q) : q[i] # p
  BY <1>2 DEF Range
<1>4. IsInjective(Append(q, p))
  BY <1>1, <1>2, <1>3 DEF IsInjective
<1>5. Range(Append(q, p)) = Range(q) \cup {p}
  BY <1>1, <1>2 DEF Range
<1> QED
  BY <1>1, <1>4, <1>5

(* Popping a non-empty sequence without repetitions. *)
LEMMA PopFirst ==
    ASSUME NEW S, NEW q \in Seq(S), q # <<>>, IsInjective(q)
    PROVE  /\ Head(q) \in S
           /\ Head(q) \in Range(q)
           /\ Tail(q) \in Seq(S)
           /\ IsInjective(Tail(q))
           /\ Range(Tail(q)) = Range(q) \ {Head(q)}
<1>1. /\ Head(q) \in S
      /\ Tail(q) \in Seq(S)
      /\ Len(Tail(q)) = Len(q) - 1
      /\ \A i \in 1..Len(Tail(q)) : Tail(q)[i] = q[i + 1]
      /\ Len(q) \in Nat \ {0}
      /\ Head(q) = q[1]
  BY HeadTailProperties, EmptySeq, LenProperties
<1>2. DOMAIN Tail(q) = 1..Len(q) - 1 /\ DOMAIN q = 1..Len(q)
  BY <1>1, LenProperties
<1>3. IsInjective(Tail(q))
  BY <1>1, <1>2 DEF IsInjective
<1>4. Head(q) \in Range(q)
  BY <1>1, <1>2 DEF Range
<1>5. ASSUME NEW x \in Range(Tail(q)) PROVE x \in Range(q) \ {Head(q)}
  <2>1. PICK i \in 1..Len(q) - 1 : x = q[i + 1]
    BY <1>1, <1>2, <1>5 DEF Range
  <2>2. i + 1 \in 1..Len(q) /\ 1 \in 1..Len(q) /\ i + 1 # 1
    BY <1>1
  <2>3. q[i + 1] # q[1]
    BY <1>2, <2>2 DEF IsInjective
  <2> QED
    BY <1>1, <1>2, <2>1, <2>2, <2>3 DEF Range
<1>6. ASSUME NEW x \in Range(q) \ {Head(q)} PROVE x \in Range(Tail(q))
  <2>1. PICK i \in 1..Len(q) : x = q[i]
    BY <1>2 DEF Range
  <2>2. i # 1
    BY <1>1, <2>1
  <2>3. i - 1 \in 1..Len(q) - 1 /\ Tail(q)[i - 1] = q[i]
    BY <1>1, <2>2
  <2> QED
    BY <1>2, <2>1, <2>3 DEF Range
<1> QED
  BY <1>1, <1>3, <1>4, <1>5, <1>6

(* Cutting a sequence without repetitions in two. *)
LEMMA CutInTwo ==
    ASSUME NEW S, NEW q \in Seq(S), IsInjective(q), NEW n \in 0..Len(q)
    PROVE  LET a == SubSeq(q, 1, n)
               b == SubSeq(q, n + 1, Len(q))
           IN  /\ a \in Seq(S) /\ Len(a) = n
               /\ b \in Seq(S) /\ Len(b) = Len(q) - n
               /\ \A i \in 1..n : a[i] = q[i]
               /\ \A i \in 1..Len(q) - n : b[i] = q[n + i]
               /\ IsInjective(a) /\ IsInjective(b)
               /\ Range(a) \cup Range(b) = Range(q)
               /\ Range(a) \cap Range(b) = {}
<1> DEFINE a == SubSeq(q, 1, n)
           b == SubSeq(q, n + 1, Len(q))
<1>1. Len(q) \in Nat /\ DOMAIN q = 1..Len(q) /\ \A i \in 1..Len(q) : q[i] \in S
  BY LenProperties, ElementOfSeq
<1>2. /\ a \in Seq(S) /\ Len(a) = n /\ DOMAIN a = 1..n
      /\ \A i \in 1..n : a[i] = q[i]
  <2>1. \A i \in 1..n : q[i] \in S
    BY <1>1
  <2>2. /\ a \in Seq(S)
        /\ Len(a) = IF 1 <= n THEN n - 1 + 1 ELSE 0
        /\ \A i \in 1..n - 1 + 1 : a[i] = q[1 + i - 1]
    BY <2>1, <1>1, SubSeqProperties
  <2> QED
    BY <2>2, <1>1, LenProperties
<1>3. /\ b \in Seq(S) /\ Len(b) = Len(q) - n /\ DOMAIN b = 1..Len(q) - n
      /\ \A i \in 1..Len(q) - n : b[i] = q[n + i]
  <2>1. \A i \in n + 1..Len(q) : q[i] \in S
    BY <1>1
  <2>2. /\ b \in Seq(S)
        /\ Len(b) = IF n + 1 <= Len(q) THEN Len(q) - (n + 1) + 1 ELSE 0
        /\ \A i \in 1..Len(q) - (n + 1) + 1 : b[i] = q[n + 1 + i - 1]
    BY <2>1, <1>1, SubSeqProperties
  <2> HIDE DEF b
  <2>3. Len(b) = Len(q) - n
    <3>1. n \in Nat /\ n <= Len(q)
      BY <1>1
    <3>2. Len(b) = IF n + 1 <= Len(q) THEN Len(q) - (n + 1) + 1 ELSE 0
      BY <2>2
    <3>3. Len(q) \in Nat
      BY <1>1
    <3>4. CASE n + 1 <= Len(q)
      BY <3>1, <3>2, <3>3, <3>4
    <3>5. CASE ~(n + 1 <= Len(q))
      BY <3>1, <3>2, <3>3, <3>5
    <3> QED
      BY <3>4, <3>5
  <2>4. DOMAIN b = 1..Len(b)
    BY <2>2, LenProperties
  <2> QED
    BY <2>2, <2>3, <2>4, <1>1
<1> HIDE DEF a, b
<1>4. IsInjective(a)
  BY <1>1, <1>2 DEF IsInjective
<1>5. IsInjective(b)
  <2> SUFFICES ASSUME NEW i \in 1..Len(q) - n, NEW j \in 1..Len(q) - n, b[i] = b[j]
               PROVE  i = j
    BY <1>3 DEF IsInjective
  <2>1. n + i \in 1..Len(q) /\ n + j \in 1..Len(q) /\ q[n + i] = q[n + j]
    BY <1>1, <1>3
  <2>2. n + i = n + j
    BY <2>1, <1>1 DEF IsInjective
  <2> QED
    BY <2>2
<1>6. Range(a) \cup Range(b) = Range(q)
  <2>1. ASSUME NEW x \in Range(q) PROVE x \in Range(a) \cup Range(b)
    <3>1. PICK i \in 1..Len(q) : x = q[i]
      BY <1>1 DEF Range
    <3>2. CASE i <= n
      BY <3>1, <3>2, <1>1, <1>2 DEF Range
    <3>3. CASE i > n
      <4>1. i - n \in 1..Len(q) - n /\ b[i - n] = q[i]
        BY <3>3, <1>1, <1>3
      <4> QED
        BY <4>1, <3>1, <1>3 DEF Range
    <3> QED
      BY <3>2, <3>3, <1>1
  <2>2. Range(a) \subseteq Range(q)
    BY <1>1, <1>2 DEF Range
  <2>3. Range(b) \subseteq Range(q)
    <3>1. \A i \in 1..Len(q) - n : n + i \in 1..Len(q)
      BY <1>1
    <3> QED
      BY <3>1, <1>1, <1>3 DEF Range
  <2> QED
    BY <2>1, <2>2, <2>3
<1>7. Range(a) \cap Range(b) = {}
  <2>1. \A i \in 1..n, j \in 1..Len(q) - n : q[i] # q[n + j]
    <3>1. \A i \in 1..n, j \in 1..Len(q) - n :
             i \in 1..Len(q) /\ n + j \in 1..Len(q) /\ i # n + j
      BY <1>1
    <3> QED
      BY <3>1, <1>1 DEF IsInjective
  <2> QED
    BY <2>1, <1>2, <1>3 DEF Range
<1> QED
  BY <1>2, <1>3, <1>4, <1>5, <1>6, <1>7 DEF a, b

(* Joining two sequences without repetitions and without common elements. *)
LEMMA JoinApart ==
    ASSUME NEW S, NEW a \in Seq(S), NEW b \in Seq(S),
           IsInjective(a), IsInjective(b), Range(a) \cap Range(b) = {}
    PROVE  /\ a \o b \in Seq(S)
           /\ IsInjective(a \o b)
           /\ Range(a \o b) = Range(a) \cup Range(b)
<1>1. /\ a \o b \in Seq(S)
      /\ Len(a \o b) = Len(a) + Len(b)
      /\ \A i \in 1..Len(a) + Len(b) :
            (a \o b)[i] = IF i <= Len(a) THEN a[i] ELSE b[i - Len(a)]
      /\ Len(a) \in Nat /\ Len(b) \in Nat
      /\ DOMAIN a = 1..Len(a) /\ DOMAIN b = 1..Len(b)
  BY ConcatProperties, LenProperties
<1>2. DOMAIN (a \o b) = 1..Len(a) + Len(b)
  BY <1>1, LenProperties
<1>3. \A i \in 1..Len(a), j \in 1..Len(b) : a[i] # b[j]
  BY <1>1 DEF Range
<1>4. IsInjective(a \o b)
  <2> SUFFICES ASSUME NEW i \in 1..Len(a) + Len(b), NEW j \in 1..Len(a) + Len(b),
                      (a \o b)[i] = (a \o b)[j]
               PROVE  i = j
    BY <1>2 DEF IsInjective
  <2>1. CASE i <= Len(a) /\ j <= Len(a)
    BY <2>1, <1>1 DEF IsInjective
  <2>2. CASE i > Len(a) /\ j > Len(a)
    BY <2>2, <1>1 DEF IsInjective
  <2>3. CASE i <= Len(a) /\ j > Len(a)
    BY <2>3, <1>1, <1>3
  <2>4. CASE i > Len(a) /\ j <= Len(a)
    BY <2>4, <1>1, <1>3
  <2> QED
    BY <2>1, <2>2, <2>3, <2>4, <1>1
<1>5. Range(a \o b) = Range(a) \cup Range(b)
  BY RangeConcatenation
<1> QED
  BY <1>1, <1>4, <1>5

-----------------------------------------------------------------------------
(* Induction, with a set in the place of the predicate. *)
LEMMA NatSetInduction ==
    ASSUME NEW S, 0 \in S, \A n \in Nat : n \in S => n + 1 \in S
    PROVE  Nat \subseteq S
<1> SUFFICES ASSUME Nat \ S # {} PROVE FALSE
  OBVIOUS
<1> DEFINE R == OpToRel(<, Nat)
<1>1. IsWellFoundedOn(R, Nat)
  BY NatLessThanWellFounded
<1>2. PICK x \in Nat \ S : \A y \in Nat \ S : ~(<<y, x>> \in R)
  <2> HIDE DEF R
  <2> QED
    BY <1>1, WFMin
<1>3. x - 1 \in Nat /\ x - 1 < x
  OBVIOUS
<1>4. <<x - 1, x>> \in R
  BY <1>3 DEF OpToRel
<1>5. x - 1 \in S
  BY <1>2, <1>3, <1>4
<1>6. (x - 1) + 1 \in S
  BY <1>3, <1>5
<1> QED
  BY <1>6

(* A function on 0..n may be given by its first value and by how each value *)
(* follows from the one before.                                             *)
Follows(g, x, T, n) == g[0] = x /\ \A i \in 1..n : g[i] = T[<<i, g[i - 1]>>]

LEMMA Recursion ==
    ASSUME NEW S, NEW x \in S, NEW n \in Nat, NEW T,
           \A i \in 1..n : \A s \in S : T[<<i, s>>] \in S
    PROVE  \E f \in [0..n -> S] : Follows(f, x, T, n)
<1> DEFINE Ind == {k \in Nat : k <= n => \E g \in [0..k -> S] : Follows(g, x, T, k)}
<1>1. 0 \in Ind
  <2> DEFINE g == [i \in 0..0 |-> x]
  <2>1. g \in [0..0 -> S] /\ Follows(g, x, T, 0)
    BY DEF Follows
  <2> QED
    BY <2>1
<1>2. ASSUME NEW k \in Nat, k \in Ind PROVE k + 1 \in Ind
  <2> SUFFICES ASSUME k + 1 <= n PROVE \E g \in [0..k + 1 -> S] : Follows(g, x, T, k + 1)
    OBVIOUS
  <2>1. PICK g \in [0..k -> S] : Follows(g, x, T, k)
    BY <1>2
  <2> DEFINE h == [i \in 0..k + 1 |-> IF i = k + 1 THEN T[<<k + 1, g[k]>>] ELSE g[i]]
  <2>2. k \in 0..k /\ g[k] \in S /\ k + 1 \in 1..n
    BY <2>1
  <2>3. T[<<k + 1, g[k]>>] \in S
    BY <2>2
  <2>4. h \in [0..k + 1 -> S]
    BY <2>1, <2>3
  <2>5. h[0] = x
    BY <2>1 DEF Follows
  <2>6. ASSUME NEW i \in 1..k + 1 PROVE h[i] = T[<<i, h[i - 1]>>]
    <3>1. CASE i = k + 1
      <4>1. i - 1 = k /\ h[k] = g[k] /\ h[k + 1] = T[<<k + 1, g[k]>>]
        BY <3>1
      <4> HIDE DEF h
      <4> QED
        BY <3>1, <4>1
    <3>2. CASE i # k + 1
      <4>1. i \in 1..k /\ i \in 0..k + 1 /\ i - 1 \in 0..k + 1 /\ i - 1 # k + 1
        BY <3>2
      <4>2. h[i] = g[i] /\ h[i - 1] = g[i - 1]
        BY <3>2, <4>1
      <4> QED
        BY <2>1, <4>1, <4>2 DEF Follows
    <3> QED
      BY <3>1, <3>2
  <2> HIDE DEF h
  <2>7. Follows(h, x, T, k + 1)
    BY <2>5, <2>6 DEF Follows
  <2> QED
    BY <2>4, <2>7
<1>3. n \in Ind
  <2> HIDE DEF Ind
  <2> QED
    BY <1>1, <1>2, NatSetInduction
<1> QED
  BY <1>3

-----------------------------------------------------------------------------
(* A sequence without the elements of gone as a recursive function: what is *)
(* left of its first i elements.                                            *)
IsUnlinking(g, q, gone) ==
    g = [i \in 0..Len(q) |-> IF i = 0 THEN << >>
                             ELSE IF q[i] \in gone THEN g[i - 1] ELSE Append(g[i - 1], q[i])]

(* There is such a function. *)
LEMMA UnlinkingExists ==
    ASSUME NEW S, NEW q \in Seq(S), NEW gone
    PROVE  \E g \in [0..Len(q) -> Seq(S)] : IsUnlinking(g, q, gone)
<1> DEFINE T == [u \in (1..Len(q)) \X Seq(S) |-> IF q[u[1]] \in gone THEN u[2] ELSE Append(u[2], q[u[1]])]
<1>0. Len(q) \in Nat /\ \A i \in 1..Len(q) : q[i] \in S
  OBVIOUS
<1>1. << >> \in Seq(S)
  OBVIOUS
<1>2. \A i \in 1..Len(q) : \A s \in Seq(S) : T[<<i, s>>] = IF q[i] \in gone THEN s ELSE Append(s, q[i])
  OBVIOUS
<1>3. \A i \in 1..Len(q) : \A s \in Seq(S) : T[<<i, s>>] \in Seq(S)
  <2> HIDE DEF T
  <2> SUFFICES ASSUME NEW i \in 1..Len(q), NEW s \in Seq(S) PROVE T[<<i, s>>] \in Seq(S)
    OBVIOUS
  <2>1. q[i] \in S /\ Append(s, q[i]) \in Seq(S)
    BY <1>0, AppendProperties
  <2> QED
    BY <1>2, <2>1
<1>4. PICK f \in [0..Len(q) -> Seq(S)] : Follows(f, << >>, T, Len(q))
  <2> HIDE DEF T
  <2> QED
    BY <1>0, <1>1, <1>3, Recursion
<1>5. ASSUME NEW i \in 0..Len(q)
      PROVE  f[i] = IF i = 0 THEN << >> ELSE IF q[i] \in gone THEN f[i - 1] ELSE Append(f[i - 1], q[i])
  <2>1. CASE i = 0
    BY <2>1, <1>4 DEF Follows
  <2>2. CASE i # 0
    <3>1. i \in 1..Len(q) /\ i - 1 \in 0..Len(q)
      BY <2>2, <1>0
    <3>2. f[i - 1] \in Seq(S) /\ f[i] = T[<<i, f[i - 1]>>]
      BY <3>1, <1>4 DEF Follows
    <3> HIDE DEF T
    <3> QED
      BY <2>2, <3>1, <3>2, <1>2
  <2> QED
    BY <2>1, <2>2
<1>6. IsUnlinking(f, q, gone)
  BY <1>5 DEF IsUnlinking
<1> QED
  BY <1>6

(* What is left is a sequence ... *)
LEMMA UnlinkingType ==
    ASSUME NEW S, NEW q \in Seq(S), NEW gone, NEW h, IsUnlinking(h, q, gone)
    PROVE  h[Len(q)] \in Seq(S)
<1>0. Len(q) \in Nat /\ (\A i \in 1..Len(q) : q[i] \in S)
  OBVIOUS
<1>3. \A i \in 0..Len(q) : h[i] = IF i = 0 THEN << >> ELSE IF q[i] \in gone THEN h[i - 1] ELSE Append(h[i - 1], q[i])
  BY DEF IsUnlinking
<1> DEFINE Ind == {i \in Nat : i <= Len(q) => h[i] \in Seq(S)}
<1>4. 0 \in Ind
  <2>1. h[0] = << >> /\ << >> \in Seq(S)
    BY <1>0, <1>3
  <2> QED
    BY <2>1
<1>5. ASSUME NEW i \in Nat, i \in Ind PROVE i + 1 \in Ind
  <2> SUFFICES ASSUME i + 1 <= Len(q) PROVE h[i + 1] \in Seq(S)
    OBVIOUS
  <2>1. i <= Len(q) /\ i + 1 \in 1..Len(q) /\ i + 1 \in 0..Len(q) /\ i + 1 # 0 /\ (i + 1) - 1 = i
    BY <1>0
  <2>2. h[i + 1] = IF q[i + 1] \in gone THEN h[i] ELSE Append(h[i], q[i + 1])
    BY <2>1, <1>3
  <2>3. h[i] \in Seq(S) /\ q[i + 1] \in S
    BY <1>0, <1>5, <2>1
  <2>4. Append(h[i], q[i + 1]) \in Seq(S)
    BY <2>3, AppendProperties
  <2> QED
    BY <2>2, <2>3, <2>4
<1>6. Nat \subseteq Ind
  <2> HIDE DEF Ind
  <2> QED
    BY <1>4, <1>5, NatSetInduction
<1> QED
  BY <1>0, <1>6

Firsts(q, m) == {q[j] : j \in 1..m}

(* ... and contains the others once if the sequence does. *)
LEMMA UnlinkingProperties ==
    ASSUME NEW S, NEW q \in Seq(S), IsInjective(q), NEW gone, NEW h, IsUnlinking(h, q, gone), NEW m \in 0..Len(q)
    PROVE  /\ h[m] \in Seq(S)
           /\ IsInjective(h[m])
           /\ Range(h[m]) = Firsts(q, m) \ gone
<1>0. Len(q) \in Nat /\ (\A i \in 1..Len(q) : q[i] \in S) /\ DOMAIN q = 1..Len(q)
  OBVIOUS
<1>3. \A i \in 0..Len(q) : h[i] = IF i = 0 THEN << >> ELSE IF q[i] \in gone THEN h[i - 1] ELSE Append(h[i - 1], q[i])
  BY DEF IsUnlinking
<1> DEFINE First(i) == Firsts(q, i)
           Good(i) == /\ h[i] \in Seq(S)
                      /\ IsInjective(h[i])
                      /\ Range(h[i]) = First(i) \ gone
           Ind == {i \in Nat : i <= Len(q) => Good(i)}
<1>4. 0 \in Ind
  <2>1. h[0] = << >>
    BY <1>0, <1>3
  <2>2. << >> \in Seq(S) /\ IsInjective(<< >>) /\ Range(<< >>) = {}
    BY DEF IsInjective, Range
  <2>3. First(0) = {}
    BY DEF Firsts
  <2> HIDE DEF First
  <2>4. Good(0)
    BY <2>1, <2>2, <2>3
  <2> QED
    BY <2>4
<1>5. ASSUME NEW i \in Nat, i \in Ind PROVE i + 1 \in Ind
  <2> SUFFICES ASSUME i + 1 <= Len(q) PROVE Good(i + 1)
    OBVIOUS
  <2>1. i <= Len(q) /\ i + 1 \in 1..Len(q) /\ i + 1 \in 0..Len(q) /\ i + 1 # 0 /\ (i + 1) - 1 = i
    BY <1>0
  <2>2. Good(i)
    BY <1>5, <2>1
  <2>3. h[i + 1] = IF q[i + 1] \in gone THEN h[i] ELSE Append(h[i], q[i + 1])
    BY <2>1, <1>3
  <2>4. First(i + 1) = First(i) \cup {q[i + 1]}
    <3>1. 1..i + 1 = (1..i) \cup {i + 1}
      OBVIOUS
    <3> QED
      BY <3>1 DEF Firsts
  <2>5. q[i + 1] \notin First(i)
    <3> SUFFICES ASSUME NEW j \in 1..i, q[j] = q[i + 1] PROVE FALSE
      BY DEF Firsts
    <3>1. j \in 1..Len(q) /\ j # i + 1
      BY <2>1, <1>0
    <3> QED
      BY <3>1, <2>1, <1>0 DEF IsInjective
  <2>6. q[i + 1] \in S
    BY <2>1
  <2> HIDE DEF First
  <2>7. CASE q[i + 1] \in gone
    BY <2>7, <2>2, <2>3, <2>4
  <2>8. CASE q[i + 1] \notin gone
    <3>1. q[i + 1] \notin Range(h[i])
      BY <2>2, <2>5
    <3>2. /\ Append(h[i], q[i + 1]) \in Seq(S)
          /\ IsInjective(Append(h[i], q[i + 1]))
          /\ Range(Append(h[i], q[i + 1])) = Range(h[i]) \cup {q[i + 1]}
      BY <2>2, <2>6, <3>1, AppendNew
    <3> QED
      BY <2>8, <3>2, <2>2, <2>3, <2>4
  <2> QED
    BY <2>7, <2>8
<1>6. m \in Ind
  <2> HIDE DEF Ind
  <2> QED
    BY <1>0, <1>4, <1>5, NatSetInduction
<1> QED
  BY <1>0, <1>6

(* The sequence a without its element at m. *)
Cut(a, m) == [i \in 1..Len(a) - 1 |-> IF i < m THEN a[i] ELSE a[i + 1]]

IsCut(b, a, p) ==
    IF p \in Range(a) THEN \E m \in 1..Len(a) : a[m] = p /\ b = Cut(a, m) ELSE b = a

(* Cutting the last element. *)
LEMMA CutLast ==
    ASSUME NEW S, NEW a \in Seq(S), NEW p \in S
    PROVE  IsCut(a, Append(a, p), p)
<1> DEFINE b == Append(a, p)
           n == Len(a)
<1>1. n \in Nat /\ Len(b) = n + 1 /\ b[n + 1] = p /\ (\A i \in 1..n : b[i] = a[i]) /\ b \in Seq(S)
  BY AppendProperties, LenProperties
<1>2. a = [i \in 1..n |-> a[i]]
  BY LenProperties
<1> HIDE DEF b, n
<1>3. p \in Range(b)
  <2>1. n + 1 \in DOMAIN b
    BY <1>1, LenProperties
  <2> QED
    BY <1>1, <2>1 DEF Range
<1>4. Cut(b, n + 1) = [i \in 1..n |-> a[i]]
  <2>1. Len(b) - 1 = n /\ \A i \in 1..n : i < n + 1
    BY <1>1
  <2> QED
    BY <1>1, <2>1 DEF Cut
<1>5. n + 1 \in 1..Len(b)
  BY <1>1
<1>6. \E m \in 1..Len(b) : b[m] = p /\ a = Cut(b, m)
  BY <1>1, <1>2, <1>4, <1>5
<1>7. IsCut(a, b, p)
  BY <1>3, <1>6 DEF IsCut
<1> QED
  BY <1>7 DEF b

(* Appending after a cut. *)
LEMMA CutAppend ==
    ASSUME NEW S, NEW a \in Seq(S), NEW b \in Seq(S), NEW p \in S, NEW x \in S, x # p, IsCut(b, a, p)
    PROVE  IsCut(Append(b, x), Append(a, x), p)
<1> DEFINE c == Append(a, x)
           d == Append(b, x)
           n == Len(a)
           k == Len(b)
<1>1. /\ n \in Nat /\ Len(c) = n + 1 /\ c[n + 1] = x /\ (\A i \in 1..n : c[i] = a[i]) /\ c \in Seq(S)
      /\ DOMAIN c = 1..n + 1 /\ DOMAIN a = 1..n
  BY AppendProperties, LenProperties
<1>2. /\ k \in Nat /\ Len(d) = k + 1 /\ d[k + 1] = x /\ (\A i \in 1..k : d[i] = b[i]) /\ d \in Seq(S)
      /\ d = [i \in 1..k + 1 |-> d[i]]
  <2>1. k \in Nat /\ Len(d) = k + 1 /\ d[k + 1] = x /\ (\A i \in 1..k : d[i] = b[i]) /\ d \in Seq(S)
    BY AppendProperties, LenProperties
  <2> HIDE DEF d
  <2>2. d = [i \in 1..Len(d) |-> d[i]]
    BY <2>1, LenProperties
  <2> QED
    BY <2>1, <2>2
<1>3. p \in Range(c) <=> p \in Range(a)
  BY <1>1 DEF Range
<1>4. CASE p \in Range(a)
  <2>1. PICK m \in 1..n : a[m] = p /\ b = Cut(a, m)
    BY <1>4 DEF IsCut
  <2>2. k = n - 1 /\ \A i \in 1..n - 1 : b[i] = IF i < m THEN a[i] ELSE a[i + 1]
    <3>1. b = [i \in 1..n - 1 |-> IF i < m THEN a[i] ELSE a[i + 1]]
      BY <2>1 DEF Cut
    <3>2. DOMAIN b = 1..k /\ DOMAIN b = 1..n - 1
      BY <3>1, LenProperties
    <3>3. n - 1 \in Nat
      BY <1>1
    <3> HIDE DEF k, n
    <3>4. k = n - 1
      BY <1>2, <3>2, <3>3
    <3> QED
      BY <3>1, <3>4
  <2> HIDE DEF c, d, n, k
  <2>3. ASSUME NEW i \in 1..n PROVE d[i] = IF i < m THEN c[i] ELSE c[i + 1]
    <3>1. CASE i = n
      <4>1. d[n] = x /\ ~(n < m) /\ c[n + 1] = x
        BY <1>1, <1>2, <2>1, <2>2
      <4> QED
        BY <3>1, <4>1
    <3>2. CASE i # n
      <4>1. i \in 1..n - 1 /\ i \in 1..k /\ i + 1 \in 1..n
        BY <1>1, <2>2, <3>2
      <4>2. d[i] = b[i] /\ c[i] = a[i] /\ c[i + 1] = a[i + 1]
        BY <1>1, <1>2, <4>1
      <4> QED
        BY <2>2, <4>1, <4>2
    <3> QED
      BY <3>1, <3>2
  <2>4. d = Cut(c, m)
    <3>1. Len(c) - 1 = n /\ k + 1 = n
      BY <1>1, <2>2
    <3>2. d = [i \in 1..n |-> d[i]]
      BY <1>2, <3>1
    <3>3. d = [i \in 1..n |-> IF i < m THEN c[i] ELSE c[i + 1]]
      BY <2>3, <3>2
    <3> QED
      BY <3>1, <3>3 DEF Cut
  <2>5. m \in 1..Len(c) /\ c[m] = p
    BY <1>1, <2>1
  <2>6. IsCut(d, c, p)
    BY <1>3, <1>4, <2>4, <2>5 DEF IsCut
  <2> QED
    BY <2>6 DEF c, d
<1>5. CASE p \notin Range(a)
  BY <1>3, <1>5 DEF IsCut
<1> QED
  BY <1>4, <1>5

(* One element more that goes is cut out of what was left. *)
LEMMA UnlinkingCut ==
    ASSUME NEW S, NEW q \in Seq(S), IsInjective(q), NEW gone, NEW p \in S, p \notin gone,
           NEW g, IsUnlinking(g, q, gone), NEW h, IsUnlinking(h, q, gone \cup {p})
    PROVE  IsCut(h[Len(q)], g[Len(q)], p)
<1> DEFINE n == Len(q)
           more == gone \cup {p}
           Ind == {i \in Nat : i <= n => IsCut(h[i], g[i], p)}
<1>0. n \in Nat /\ (\A i \in 1..n : q[i] \in S) /\ DOMAIN q = 1..n
  BY LenProperties
<1>1. \A i \in 0..n : g[i] = IF i = 0 THEN << >> ELSE IF q[i] \in gone THEN g[i - 1] ELSE Append(g[i - 1], q[i])
  BY DEF IsUnlinking
<1>2. \A i \in 0..n : h[i] = IF i = 0 THEN << >> ELSE IF q[i] \in more THEN h[i - 1] ELSE Append(h[i - 1], q[i])
  BY DEF IsUnlinking
<1>3. ASSUME NEW i \in 0..n
      PROVE  /\ g[i] \in Seq(S) /\ Range(g[i]) = Firsts(q, i) \ gone
             /\ h[i] \in Seq(S)
  BY UnlinkingProperties
<1>4. 0 \in Ind
  <2>1. h[0] = << >> /\ g[0] = << >>
    BY <1>0, <1>1, <1>2
  <2>2. Range(<< >>) = {}
    BY DEF Range
  <2> QED
    BY <2>1, <2>2 DEF IsCut
<1>5. ASSUME NEW i \in Nat, i \in Ind PROVE i + 1 \in Ind
  <2> SUFFICES ASSUME i + 1 <= n PROVE IsCut(h[i + 1], g[i + 1], p)
    OBVIOUS
  <2> DEFINE x == q[i + 1]
  <2>1. i <= n /\ i \in 0..n /\ i + 1 \in 1..n /\ i + 1 \in 0..n /\ i + 1 # 0 /\ (i + 1) - 1 = i
    BY <1>0
  <2>2. g[i + 1] = IF x \in gone THEN g[i] ELSE Append(g[i], x)
    BY <1>1, <2>1
  <2>3. h[i + 1] = IF x \in more THEN h[i] ELSE Append(h[i], x)
    BY <1>2, <2>1
  <2>4. IsCut(h[i], g[i], p) /\ g[i] \in Seq(S) /\ h[i] \in Seq(S) /\ x \in S
    BY <1>0, <1>3, <1>5, <2>1
  <2>5. CASE x \in gone
    BY <2>2, <2>3, <2>4, <2>5
  <2>6. CASE x = p
    <3>1. p \notin Range(g[i])
      <4>0. Range(g[i]) = Firsts(q, i) \ gone
        BY <1>3, <2>1
      <4> SUFFICES ASSUME NEW j \in 1..i, q[j] = p PROVE FALSE
        BY <4>0 DEF Firsts
      <4>1. j \in 1..n /\ j # i + 1
        BY <1>0, <2>1
      <4> QED
        BY <1>0, <2>1, <2>6, <4>1 DEF IsInjective
    <3>2. h[i + 1] = g[i] /\ g[i + 1] = Append(g[i], p)
      BY <2>2, <2>3, <2>4, <2>6, <3>1 DEF IsCut
    <3> QED
      BY <2>4, <3>2, CutLast
  <2>7. CASE x \notin more
    <3>1. h[i + 1] = Append(h[i], x) /\ g[i + 1] = Append(g[i], x) /\ x # p
      BY <2>2, <2>3, <2>7
    <3> HIDE DEF x
    <3> QED
      BY <2>4, <3>1, CutAppend
  <2> QED
    BY <2>5, <2>6, <2>7
<1>6. n \in Ind
  <2> HIDE DEF Ind
  <2> QED
    BY <1>0, <1>4, <1>5, NatSetInduction
<1> QED
  BY <1>0, <1>6

-----------------------------------------------------------------------------
(* Induction over the subsets of a finite set. *)
LEMMA SubsetInduction ==
    ASSUME NEW S, IsFiniteSet(S), NEW Good, {} \in Good,
           \A T \in SUBSET S : \A x \in S \ T : T \in Good => T \cup {x} \in Good
    PROVE  \A T \in SUBSET S : T \in Good
<1> DEFINE Ind == {n \in Nat : \A T \in SUBSET S : Cardinality(T) <= n => T \in Good}
<1>1. \A s \in SUBSET S : IsFiniteSet(s) /\ Cardinality(s) \in Nat
  BY FS_Subset, FS_CardinalityType
<1>2. 0 \in Ind
  <2>1. \A T \in SUBSET S : Cardinality(T) <= 0 => T = {}
    BY <1>1, FS_EmptySet
  <2> QED
    BY <2>1
<1>3. ASSUME NEW n \in Nat, n \in Ind PROVE n + 1 \in Ind
  <2>1. ASSUME NEW T \in SUBSET S, Cardinality(T) <= n + 1 PROVE T \in Good
    <3>1. CASE T = {}
      BY <3>1
    <3>2. CASE T # {}
      <4>1. PICK x : x \in T
        BY <3>2
      <4>2. Cardinality(T \ {x}) <= n
        BY <1>1, <2>1, <4>1, FS_RemoveElement
      <4>3. T \ {x} \in Good /\ T \ {x} \in SUBSET S
        BY <1>3, <4>2
      <4>4. x \in S \ (T \ {x}) /\ (T \ {x}) \cup {x} = T
        BY <4>1
      <4> QED
        BY <4>3, <4>4
    <3> QED
      BY <3>1, <3>2
  <2> QED
    BY <2>1
<1>4. ASSUME NEW T \in SUBSET S PROVE T \in Good
  <2>1. Cardinality(T) \in Ind
    <3> HIDE DEF Ind
    <3> QED
      BY <1>1, <1>2, <1>3, NatSetInduction
  <2> QED
    BY <1>1, <2>1
<1> QED
  BY <1>4

-----------------------------------------------------------------------------
(* The element a fold takes next, and the partial sums it computes. *)
Next1(s) == CHOOSE x \in s : TRUE

IsSum(g, f, S) ==
    g = [s \in SUBSET S |-> IF s = {} THEN 0 ELSE f[Next1(s)] + g[s \ {Next1(s)}]]

LEMMA SumUnfold ==
    ASSUME NEW f, NEW S
    PROVE  SumFunctionOnSet(f, S) = (CHOOSE g : IsSum(g, f, S))[S]
BY DEF SumFunctionOnSet, FoldFunctionOnSet, MapThenFoldSet, IsSum, Next1

LEMMA Next1In ==
    ASSUME NEW s, s # {}
    PROVE  Next1(s) \in s
BY DEF Next1

(* The partial sums exist: built up from the smaller sets to the larger. *)
LEMMA SumExists ==
    ASSUME NEW S, IsFiniteSet(S), NEW f, \A x \in S : f[x] \in Int
    PROVE  \E g \in [SUBSET S -> Int] : IsSum(g, f, S)
<1> DEFINE Small(n) == {s \in SUBSET S : Cardinality(s) <= n}
           Good(n, g) == /\ g \in [Small(n) -> Int]
                         /\ \A s \in Small(n) : g[s] = IF s = {} THEN 0 ELSE f[Next1(s)] + g[s \ {Next1(s)}]
           Ind == {n \in Nat : \E g : Good(n, g)}
<1>1. \A s \in SUBSET S : IsFiniteSet(s) /\ Cardinality(s) \in Nat
  BY FS_Subset, FS_CardinalityType
<1>2. \A s \in SUBSET S : s # {} => /\ Next1(s) \in S
                                    /\ s \ {Next1(s)} \in SUBSET S
                                    /\ Cardinality(s \ {Next1(s)}) = Cardinality(s) - 1
  BY <1>1, Next1In, FS_RemoveElement
<1>3. 0 \in Ind
  <2> DEFINE g == [s \in Small(0) |-> 0]
  <2>1. \A s \in Small(0) : s = {}
    BY <1>1, FS_EmptySet
  <2>2. Good(0, g)
    BY <2>1
  <2> QED
    BY <2>2
<1>4. ASSUME NEW n \in Nat, n \in Ind PROVE n + 1 \in Ind
  <2>1. PICK g : Good(n, g)
    BY <1>4
  <2> DEFINE h == [s \in Small(n + 1) |-> IF s = {} THEN 0 ELSE f[Next1(s)] + g[s \ {Next1(s)}]]
  <2>2. \A s \in Small(n + 1) : s # {} => s \ {Next1(s)} \in Small(n)
    BY <1>1, <1>2
  <2>3. h \in [Small(n + 1) -> Int]
    <3>1. ASSUME NEW s \in Small(n + 1), s # {} PROVE f[Next1(s)] + g[s \ {Next1(s)}] \in Int
      <4>1. g[s \ {Next1(s)}] \in Int
        BY <2>1, <2>2, <3>1
      <4>2. f[Next1(s)] \in Int
        BY <1>2, <3>1
      <4> QED
        BY <4>1, <4>2
    <3> QED
      BY <3>1
  <2>4. \A s \in Small(n) : s \in Small(n + 1) /\ h[s] = g[s]
    <3> SUFFICES ASSUME NEW s \in Small(n) PROVE s \in Small(n + 1) /\ h[s] = g[s]
      OBVIOUS
    <3>1. s \in Small(n + 1)
      BY <1>1
    <3> QED
      BY <2>1, <3>1
  <2>5. \A s \in Small(n + 1) : h[s] = IF s = {} THEN 0 ELSE f[Next1(s)] + h[s \ {Next1(s)}]
    BY <2>2, <2>4
  <2>6. Good(n + 1, h)
    BY <2>3, <2>5
  <2> HIDE DEF Good, h
  <2> QED
    BY <2>6
<1>5. Cardinality(S) \in Ind
  <2> HIDE DEF Ind
  <2> QED
    BY <1>1, <1>3, <1>4, NatSetInduction
<1>6. PICK g : Good(Cardinality(S), g)
  BY <1>5
<1>7. Small(Cardinality(S)) = SUBSET S
  BY FS_Subset
<1>8. g = [s \in SUBSET S |-> g[s]]
  BY <1>6, <1>7
<1>9. IsSum(g, f, S)
  BY <1>6, <1>7, <1>8 DEF IsSum
<1> QED
  BY <1>6, <1>7, <1>9

(* The partial sums that SumFunctionOnSet computes. *)
Partial(f, S) == CHOOSE g : IsSum(g, f, S)

LEMMA PartialSums ==
    ASSUME NEW S, IsFiniteSet(S), NEW f, \A x \in S : f[x] \in Int
    PROVE  /\ SumFunctionOnSet(f, S) = Partial(f, S)[S]
           /\ IsSum(Partial(f, S), f, S)
BY SumUnfold, SumExists DEF Partial

Splits(g, f, S) == \A A \in SUBSET S : \A x \in A : g[A] = f[x] + g[A \ {x}]

(* A sum does not depend on the order in which the elements are taken, nor  *)
(* on what surrounds them.                                                  *)
LEMMA SumOrder ==
    ASSUME NEW S, IsFiniteSet(S), NEW f, \A x \in S : f[x] \in Int, NEW g, IsSum(g, f, S)
    PROVE  /\ g \in [SUBSET S -> Int]
           /\ Splits(g, f, S)
<1> DEFINE P(A) == g[A] \in Int /\ \A x \in A : g[A] = f[x] + g[A \ {x}]
           Ind == {n \in Nat : \A A \in SUBSET S : Cardinality(A) <= n => P(A)}
<1>1. \A s \in SUBSET S : IsFiniteSet(s) /\ Cardinality(s) \in Nat
  BY FS_Subset, FS_CardinalityType
<1>2. \A s \in SUBSET S : \A x \in s : s \ {x} \in SUBSET S /\ Cardinality(s \ {x}) = Cardinality(s) - 1
  BY <1>1, FS_RemoveElement
<1>3. \A s \in SUBSET S : g[s] = IF s = {} THEN 0 ELSE f[Next1(s)] + g[s \ {Next1(s)}]
  BY DEF IsSum
<1>4. 0 \in Ind
  <2>1. ASSUME NEW A \in SUBSET S, Cardinality(A) <= 0 PROVE P(A)
    <3>1. A = {}
      BY <1>1, <2>1, FS_EmptySet
    <3>2. g[A] = 0
      BY <1>3, <3>1
    <3> QED
      BY <3>1, <3>2
  <2> QED
    BY <2>1
<1>5. ASSUME NEW n \in Nat, n \in Ind PROVE n + 1 \in Ind
  <2>1. ASSUME NEW A \in SUBSET S, Cardinality(A) <= n + 1 PROVE P(A)
    <3>1. CASE A = {}
      <4>1. g[A] = 0
        BY <1>3, <3>1
      <4> QED
        BY <3>1, <4>1
    <3>2. CASE A # {}
      <4> DEFINE c == Next1(A)
      <4>1. c \in A
        BY <3>2, Next1In
      <4> HIDE DEF c
      <4>2. g[A] = f[c] + g[A \ {c}]
        BY <1>3, <3>2 DEF c
      <4>3. \A x \in A : P(A \ {x})
        <5> SUFFICES ASSUME NEW x \in A PROVE P(A \ {x})
          OBVIOUS
        <5>1. A \ {x} \in SUBSET S /\ Cardinality(A \ {x}) <= n
          BY <1>1, <1>2, <2>1
        <5> HIDE DEF P
        <5> QED
          BY <1>5, <5>1
      <4>4. f[c] \in Int /\ g[A \ {c}] \in Int
        BY <4>1, <4>3
      <4>5. ASSUME NEW x \in A, x # c PROVE g[A] = f[x] + g[A \ {x}]
        <5>1. g[A \ {c}] = f[x] + g[(A \ {c}) \ {x}]
          BY <4>1, <4>3, <4>5
        <5>2. (A \ {c}) \ {x} = (A \ {x}) \ {c}
          OBVIOUS
        <5>3. g[A \ {x}] = f[c] + g[(A \ {c}) \ {x}]
          BY <4>1, <4>3, <4>5, <5>2
        <5>4. g[(A \ {c}) \ {x}] \in Int
          <6>1. (A \ {c}) \ {x} \in SUBSET S /\ Cardinality((A \ {c}) \ {x}) <= n
            <7>1. Cardinality(A \ {c}) = Cardinality(A) - 1 /\ A \ {c} \in SUBSET S
              BY <1>2, <4>1
            <7>2. Cardinality((A \ {c}) \ {x}) = Cardinality(A \ {c}) - 1
              BY <1>2, <4>5, <7>1
            <7> QED
              BY <1>1, <2>1, <7>1, <7>2
          <6> QED
            BY <1>5, <6>1
        <5>5. f[x] \in Int /\ g[A \ {x}] \in Int
          BY <4>3
        <5> QED
          BY <4>2, <4>4, <5>1, <5>3, <5>4, <5>5
      <4>6. g[A] \in Int
        BY <4>2, <4>4
      <4> QED
        BY <4>2, <4>5, <4>6
    <3> QED
      BY <3>1, <3>2
  <2> QED
    BY <2>1
<1>6. ASSUME NEW A \in SUBSET S PROVE P(A)
  <2>1. Cardinality(A) \in Ind
    <3> HIDE DEF Ind
    <3> QED
      BY <1>1, <1>4, <1>5, NatSetInduction
  <2> QED
    BY <1>1, <2>1
<1>7. g = [s \in SUBSET S |-> g[s]]
  BY DEF IsSum
<1> QED
  BY <1>6, <1>7 DEF Splits

LEMMA SumAgrees ==
    ASSUME NEW S, NEW T, IsFiniteSet(S), IsFiniteSet(T), NEW f, NEW h,
           NEW g, IsSum(g, f, S), NEW k, IsSum(k, h, T),
           NEW A \in SUBSET (S \cap T), \A x \in A : f[x] = h[x]
    PROVE  g[A] = k[A]
<1> DEFINE Ind == {n \in Nat : \A B \in SUBSET A : Cardinality(B) <= n => g[B] = k[B]}
<1>1. \A s \in SUBSET A : IsFiniteSet(s) /\ Cardinality(s) \in Nat
  BY FS_Subset, FS_CardinalityType
<1>2. \A s \in SUBSET A : g[s] = IF s = {} THEN 0 ELSE f[Next1(s)] + g[s \ {Next1(s)}]
  BY DEF IsSum
<1>3. \A s \in SUBSET A : k[s] = IF s = {} THEN 0 ELSE h[Next1(s)] + k[s \ {Next1(s)}]
  BY DEF IsSum
<1>4. 0 \in Ind
  <2>1. ASSUME NEW B \in SUBSET A, Cardinality(B) <= 0 PROVE g[B] = k[B]
    <3>1. B = {}
      BY <1>1, <2>1, FS_EmptySet
    <3> QED
      BY <1>2, <1>3, <3>1
  <2> QED
    BY <2>1
<1>5. ASSUME NEW n \in Nat, n \in Ind PROVE n + 1 \in Ind
  <2>1. ASSUME NEW B \in SUBSET A, Cardinality(B) <= n + 1 PROVE g[B] = k[B]
    <3>1. CASE B = {}
      BY <1>2, <1>3, <3>1
    <3>2. CASE B # {}
      <4>1. Next1(B) \in B
        BY <3>2, Next1In
      <4>2. Cardinality(B \ {Next1(B)}) = Cardinality(B) - 1 /\ B \ {Next1(B)} \in SUBSET A
        BY <1>1, <4>1, FS_RemoveElement
      <4>3. g[B \ {Next1(B)}] = k[B \ {Next1(B)}]
        BY <1>1, <1>5, <2>1, <4>2
      <4>4. f[Next1(B)] = h[Next1(B)]
        BY <4>1
      <4> QED
        BY <1>2, <1>3, <3>2, <4>3, <4>4
    <3> QED
      BY <3>1, <3>2
  <2> QED
    BY <2>1
<1>6. Cardinality(A) \in Ind
  <2> HIDE DEF Ind
  <2> QED
    BY <1>1, <1>4, <1>5, NatSetInduction
<1> QED
  BY <1>1, <1>6

-----------------------------------------------------------------------------
(* The facts other proofs cite. *)
LEMMA SumEmpty ==
    ASSUME NEW f
    PROVE  SumFunctionOnSet(f, {}) = 0
<1>1. {} \in SUBSET {}
  OBVIOUS
<1> DEFINE e == [x \in {} |-> 0]
           z == [s \in SUBSET {} |-> 0]
<1>2. \E g : IsSum(g, f, {})
  <2>1. z = [s \in SUBSET {} |-> IF s = {} THEN 0 ELSE f[Next1(s)] + z[s \ {Next1(s)}]]
    OBVIOUS
  <2> QED
    BY <2>1 DEF IsSum
<1>3. IsSum(Partial(f, {}), f, {})
  BY <1>2 DEF Partial
<1> QED
  BY <1>1, <1>3, SumUnfold DEF IsSum, Partial

(* One element is taken out of a sum. *)
LEMMA SumRemove ==
    ASSUME NEW S, IsFiniteSet(S), NEW f, \A x \in S : f[x] \in Int, NEW x \in S
    PROVE  /\ SumFunctionOnSet(f, S) \in Int
           /\ SumFunctionOnSet(f, S \ {x}) \in Int
           /\ SumFunctionOnSet(f, S) = f[x] + SumFunctionOnSet(f, S \ {x})
<1> DEFINE T == S \ {x}
<1>1. IsFiniteSet(T)
  BY FS_RemoveElement
<1>2. SumFunctionOnSet(f, S) = Partial(f, S)[S] /\ IsSum(Partial(f, S), f, S)
  BY PartialSums
<1>3. SumFunctionOnSet(f, T) = Partial(f, T)[T] /\ IsSum(Partial(f, T), f, T)
  BY <1>1, PartialSums
<1> HIDE DEF T
<1>4. Partial(f, S)[T] = Partial(f, T)[T]
  BY <1>1, <1>2, <1>3, SumAgrees DEF T
<1>5. Partial(f, S) \in [SUBSET S -> Int]
  BY <1>2, SumOrder
<1>6. Partial(f, S)[S] = f[x] + Partial(f, S)[T]
  <2>1. Splits(Partial(f, S), f, S)
    BY <1>2, SumOrder
  <2> QED
    BY <2>1 DEF T, Splits
<1>7. S \in SUBSET S /\ T \in SUBSET S
  BY DEF T
<1> QED
  BY <1>2, <1>3, <1>4, <1>5, <1>6, <1>7 DEF T

LEMMA SumType ==
    ASSUME NEW S, IsFiniteSet(S), NEW f, \A y \in S : f[y] \in Int
    PROVE  SumFunctionOnSet(f, S) \in Int
<1>1. CASE S = {}
  <2>1. SumFunctionOnSet(f, S) = 0
    BY <1>1, SumEmpty
  <2> QED
    BY <2>1
<1>2. CASE S # {}
  BY <1>2, SumRemove
<1> QED
  BY <1>1, <1>2

(* Functions that agree on a set have the same sum over it. *)
LEMMA SumEqual ==
    ASSUME NEW S, IsFiniteSet(S), NEW f, NEW h, \A y \in S : f[y] \in Int /\ h[y] = f[y]
    PROVE  SumFunctionOnSet(h, S) = SumFunctionOnSet(f, S)
<1>1. SumFunctionOnSet(f, S) = Partial(f, S)[S] /\ IsSum(Partial(f, S), f, S)
  BY PartialSums
<1>2. SumFunctionOnSet(h, S) = Partial(h, S)[S] /\ IsSum(Partial(h, S), h, S)
  BY PartialSums
<1>3. Partial(h, S)[S] = Partial(f, S)[S]
  BY <1>1, <1>2, SumAgrees
<1> QED
  BY <1>1, <1>2, <1>3

(* A function that changes at one point. *)
LEMMA SumUpdate ==
    ASSUME NEW S, IsFiniteSet(S), NEW f, \A y \in S : f[y] \in Int,
           NEW h, \A y \in S : h[y] \in Int, NEW x \in S, \A y \in S \ {x} : h[y] = f[y]
    PROVE  SumFunctionOnSet(h, S) = SumFunctionOnSet(f, S) - f[x] + h[x]
<1>1. /\ SumFunctionOnSet(f, S \ {x}) \in Int
      /\ SumFunctionOnSet(f, S) = f[x] + SumFunctionOnSet(f, S \ {x})
  BY SumRemove
<1>2. SumFunctionOnSet(h, S) = h[x] + SumFunctionOnSet(h, S \ {x})
  BY SumRemove
<1>3. SumFunctionOnSet(h, S \ {x}) = SumFunctionOnSet(f, S \ {x})
  <2>1. IsFiniteSet(S \ {x})
    BY FS_RemoveElement
  <2> QED
    BY <2>1, SumEqual
<1>4. f[x] \in Int /\ h[x] \in Int
  OBVIOUS
<1> QED
  BY <1>1, <1>2, <1>3, <1>4

(* Nothing negative is in the sum: then no term is larger than it. *)
LEMMA SumNat ==
    ASSUME NEW S, IsFiniteSet(S), NEW f, \A y \in S : f[y] \in Nat
    PROVE  /\ SumFunctionOnSet(f, S) \in Nat
           /\ \A x \in S : f[x] <= SumFunctionOnSet(f, S)
<1> DEFINE Good == {T \in SUBSET S : SumFunctionOnSet(f, T) \in Nat}
<1>1. \A T \in SUBSET S : IsFiniteSet(T) /\ \A y \in T : f[y] \in Int
  BY FS_Subset
<1>2. {} \in Good
  BY SumEmpty
<1>3. ASSUME NEW T \in SUBSET S, NEW x \in S \ T, T \in Good PROVE T \cup {x} \in Good
  <2> DEFINE U == T \cup {x}
  <2>1. U \in SUBSET S /\ x \in U /\ U \ {x} = T
    OBVIOUS
  <2> HIDE DEF U
  <2>2. SumFunctionOnSet(f, U) = f[x] + SumFunctionOnSet(f, U \ {x})
    BY <1>1, <2>1, SumRemove
  <2>3. SumFunctionOnSet(f, U) \in Nat
    BY <1>3, <2>1, <2>2
  <2> QED
    BY <2>1, <2>3 DEF U
<1>4. \A T \in SUBSET S : T \in Good
  <2> HIDE DEF Good
  <2> QED
    BY <1>2, <1>3, SubsetInduction
<1>5. ASSUME NEW x \in S PROVE f[x] <= SumFunctionOnSet(f, S)
  <2>1. SumFunctionOnSet(f, S) = f[x] + SumFunctionOnSet(f, S \ {x})
    BY <1>1, SumRemove
  <2>2. SumFunctionOnSet(f, S \ {x}) \in Nat
    BY <1>4
  <2> QED
    BY <2>1, <2>2
<1> QED
  BY <1>4, <1>5

(* A sum of zeros. *)
LEMMA SumZero ==
    ASSUME NEW S, IsFiniteSet(S), NEW f, \A y \in S : f[y] = 0
    PROVE  SumFunctionOnSet(f, S) = 0
<1> DEFINE Good == {T \in SUBSET S : SumFunctionOnSet(f, T) = 0}
<1>1. \A T \in SUBSET S : IsFiniteSet(T) /\ \A y \in T : f[y] \in Int
  BY FS_Subset
<1>2. {} \in Good
  BY SumEmpty
<1>3. ASSUME NEW T \in SUBSET S, NEW x \in S \ T, T \in Good PROVE T \cup {x} \in Good
  <2> DEFINE U == T \cup {x}
  <2>1. U \in SUBSET S /\ x \in U /\ U \ {x} = T
    OBVIOUS
  <2> HIDE DEF U
  <2>2. SumFunctionOnSet(f, U) = f[x] + SumFunctionOnSet(f, U \ {x})
    BY <1>1, <2>1, SumRemove
  <2>3. SumFunctionOnSet(f, U) = 0
    BY <1>3, <2>1, <2>2
  <2> QED
    BY <2>1, <2>3 DEF U
<1>4. \A T \in SUBSET S : T \in Good
  <2> HIDE DEF Good
  <2> QED
    BY <1>2, <1>3, SubsetInduction
<1> QED
  BY <1>4

(* The next element of a sequence is added to the sum of the first n. *)
LEMMA SumNextIndex ==
    ASSUME NEW n \in Nat, NEW f, \A i \in 1..n + 1 : f[i] \in Int
    PROVE  SumFunctionOnSet(f, 1..n + 1) = SumFunctionOnSet(f, 1..n) + f[n + 1]
<1>1. IsFiniteSet(1..n + 1) /\ n + 1 \in 1..n + 1 /\ (1..n + 1) \ {n + 1} = 1..n
  BY FS_Interval
<1>2. /\ SumFunctionOnSet(f, 1..n) \in Int
      /\ SumFunctionOnSet(f, 1..n + 1) = f[n + 1] + SumFunctionOnSet(f, 1..n)
  <2> DEFINE U == 1..n + 1
             T == 1..n
             m == n + 1
  <2>1. IsFiniteSet(U) /\ m \in U /\ U \ {m} = T /\ \A i \in U : f[i] \in Int
    BY <1>1
  <2> HIDE DEF U, T, m
  <2>2. SumFunctionOnSet(f, T) \in Int /\ SumFunctionOnSet(f, U) = f[m] + SumFunctionOnSet(f, T)
    BY <2>1, SumRemove
  <2> QED
    BY <2>2 DEF U, T, m
<1>3. f[n + 1] \in Int
  BY <1>1
<1> QED
  BY <1>2, <1>3

(* Sums of two functions. *)
LEMMA SumAdd ==
    ASSUME NEW S, IsFiniteSet(S), NEW f, NEW g, NEW h,
           \A y \in S : f[y] \in Int /\ g[y] \in Int /\ h[y] = f[y] + g[y]
    PROVE  SumFunctionOnSet(h, S) = SumFunctionOnSet(f, S) + SumFunctionOnSet(g, S)
<1> DEFINE Good == {T \in SUBSET S :
               SumFunctionOnSet(h, T) = SumFunctionOnSet(f, T) + SumFunctionOnSet(g, T)}
<1>1. \A T \in SUBSET S : /\ IsFiniteSet(T)
                          /\ \A y \in T : f[y] \in Int /\ g[y] \in Int /\ h[y] \in Int
  BY FS_Subset
<1>2. {} \in Good
  BY SumEmpty
<1>3. ASSUME NEW T \in SUBSET S, NEW x \in S \ T, T \in Good PROVE T \cup {x} \in Good
  <2> DEFINE U == T \cup {x}
  <2>1. U \in SUBSET S /\ x \in U /\ U \ {x} = T
    OBVIOUS
  <2> HIDE DEF U
  <2>2. /\ SumFunctionOnSet(f, T) \in Int
        /\ SumFunctionOnSet(f, U) = f[x] + SumFunctionOnSet(f, T)
    BY <1>1, <2>1, SumRemove
  <2>3. /\ SumFunctionOnSet(g, T) \in Int
        /\ SumFunctionOnSet(g, U) = g[x] + SumFunctionOnSet(g, T)
    BY <1>1, <2>1, SumRemove
  <2>4. /\ SumFunctionOnSet(h, T) \in Int
        /\ SumFunctionOnSet(h, U) = h[x] + SumFunctionOnSet(h, T)
    BY <1>1, <2>1, SumRemove
  <2>5. f[x] \in Int /\ g[x] \in Int /\ h[x] = f[x] + g[x]
    OBVIOUS
  <2>6. SumFunctionOnSet(h, U) = SumFunctionOnSet(f, U) + SumFunctionOnSet(g, U)
    BY <1>3, <2>2, <2>3, <2>4, <2>5
  <2> QED
    BY <2>1, <2>6 DEF U
<1>4. \A T \in SUBSET S : T \in Good
  <2> HIDE DEF Good
  <2> QED
    BY <1>2, <1>3, SubsetInduction
<1> QED
  BY <1>4

(* q runs through n different elements of S; a and b give the weights w of   *)
(* these elements by place and by element.                                  *)
RunsThrough(q, n, S) ==
    /\ \A i \in 1..n : q[i] \in S
    /\ \A i, j \in 1..n : q[i] = q[j] => i = j
WeighsPlaces(a, w, q, n) == \A i \in 1..n : a[i] = w[q[i]]
WeighsElements(b, w, q, n, S) ==
    \A y \in S : b[y] = IF \E i \in 1..n : q[i] = y THEN w[y] ELSE 0

(* Adding up the elements of a sequence or of the set it runs through. *)
LEMMA SumOfSequence ==
    ASSUME NEW S, IsFiniteSet(S), NEW w, \A y \in S : w[y] \in Int,
           NEW n \in Nat, NEW q, RunsThrough(q, n, S),
           NEW a, WeighsPlaces(a, w, q, n), NEW b, WeighsElements(b, w, q, n, S)
    PROVE  SumFunctionOnSet(b, S) = SumFunctionOnSet(a, 1..n)
<1> USE DEF RunsThrough, WeighsPlaces, WeighsElements
<1> DEFINE B(k) == [y \in S |-> IF \E i \in 1..k : q[i] = y THEN w[y] ELSE 0]
           Ind == {k \in Nat : k <= n => SumFunctionOnSet(B(k), S) = SumFunctionOnSet(a, 1..k)}
<1>1. \A k \in Nat : \A y \in S : B(k)[y] \in Int
  OBVIOUS
<1>2. 0 \in Ind
  <2>1. \A y \in S : B(0)[y] = 0
    OBVIOUS
  <2>2. SumFunctionOnSet(B(0), S) = 0
    BY <2>1, SumZero
  <2>3. 1..0 = {}
    OBVIOUS
  <2>4. SumFunctionOnSet(a, 1..0) = 0
    BY <2>3, SumEmpty
  <2> QED
    BY <2>2, <2>4
<1>3. ASSUME NEW k \in Nat, k \in Ind PROVE k + 1 \in Ind
  <2> SUFFICES ASSUME k + 1 <= n
               PROVE  SumFunctionOnSet(B(k + 1), S) = SumFunctionOnSet(a, 1..k + 1)
    OBVIOUS
  <2> DEFINE x == q[k + 1]
  <2>1. k + 1 \in 1..n /\ x \in S /\ w[x] \in Int
    OBVIOUS
  <2>2. ~\E i \in 1..k : q[i] = x
    OBVIOUS
  <2>3. B(k)[x] = 0 /\ B(k + 1)[x] = w[x]
    BY <2>1, <2>2
  <2>4. \A y \in S \ {x} : B(k + 1)[y] = B(k)[y]
    OBVIOUS
  <2>5. SumFunctionOnSet(B(k), S) = SumFunctionOnSet(a, 1..k)
    BY <1>3
  <2> DEFINE f == B(k)
             h == B(k + 1)
  <2>6. \A y \in S : f[y] \in Int /\ h[y] \in Int
    BY <1>1
  <2> HIDE DEF f, h, B, x
  <2>7. SumFunctionOnSet(h, S) = SumFunctionOnSet(f, S) - f[x] + h[x]
    BY <2>1, <2>4, <2>6, SumUpdate DEF f, h
  <2>8. SumFunctionOnSet(f, S) \in Int
    BY <2>6, SumType
  <2>9. SumFunctionOnSet(h, S) = SumFunctionOnSet(f, S) + w[x]
    BY <2>1, <2>3, <2>7, <2>8 DEF f, h
  <2>10. SumFunctionOnSet(a, 1..k + 1) = SumFunctionOnSet(a, 1..k) + a[k + 1]
    <3>1. \A i \in 1..k + 1 : a[i] \in Int
      OBVIOUS
    <3> QED
      BY <3>1, SumNextIndex
  <2>11. a[k + 1] = w[x]
    BY <2>1 DEF x
  <2> QED
    BY <2>5, <2>9, <2>10, <2>11 DEF f, h
<1>4. n \in Ind
  <2> HIDE DEF Ind
  <2> QED
    BY <1>2, <1>3, NatSetInduction
<1>5. SumFunctionOnSet(b, S) = SumFunctionOnSet(B(n), S)
  <2> DEFINE f == B(n)
  <2>1. \A y \in S : f[y] \in Int /\ b[y] = f[y]
    OBVIOUS
  <2> HIDE DEF f
  <2>2. SumFunctionOnSet(b, S) = SumFunctionOnSet(f, S)
    BY <2>1, SumEqual
  <2> QED
    BY <2>2 DEF f
<1> QED
  BY <1>4, <1>5

(* A sum of ones, and a sum to which some elements contribute one more. *)
LEMMA SumOnes ==
    ASSUME NEW n \in Nat, NEW f, \A i \in 1..n : f[i] = 1
    PROVE  SumFunctionOnSet(f, 1..n) = n
<1> DEFINE Ind == {k \in Nat : k <= n => SumFunctionOnSet(f, 1..k) = k}
<1>1. 0 \in Ind
  <2>1. 1..0 = {}
    OBVIOUS
  <2>2. SumFunctionOnSet(f, 1..0) = 0
    BY <2>1, SumEmpty
  <2> QED
    BY <2>2
<1>2. ASSUME NEW k \in Nat, k \in Ind PROVE k + 1 \in Ind
  <2> SUFFICES ASSUME k + 1 <= n PROVE SumFunctionOnSet(f, 1..k + 1) = k + 1
    OBVIOUS
  <2>1. SumFunctionOnSet(f, 1..k) = k
    BY <1>2
  <2>2. \A i \in 1..k + 1 : f[i] \in Int
    OBVIOUS
  <2>3. SumFunctionOnSet(f, 1..k + 1) = SumFunctionOnSet(f, 1..k) + f[k + 1]
    BY <2>2, SumNextIndex
  <2>4. f[k + 1] = 1
    OBVIOUS
  <2> QED
    BY <2>1, <2>3, <2>4
<1>3. n \in Ind
  <2> HIDE DEF Ind
  <2> QED
    BY <1>1, <1>2, NatSetInduction
<1> QED
  BY <1>3

LEMMA SumIndicator ==
    ASSUME NEW S, IsFiniteSet(S), NEW W \in SUBSET S,
           NEW f, \A y \in S : f[y] = IF y \in W THEN 1 ELSE 0
    PROVE  SumFunctionOnSet(f, S) = Cardinality(W)
<1> DEFINE Good == {T \in SUBSET S : SumFunctionOnSet(f, T) = Cardinality(T \cap W)}
<1>1. \A T \in SUBSET S : IsFiniteSet(T) /\ \A y \in T : f[y] \in Int
  BY FS_Subset
<1>2. {} \in Good
  <2>1. {} \cap W = {} /\ Cardinality({}) = 0
    BY FS_EmptySet
  <2> QED
    BY <2>1, SumEmpty
<1>3. ASSUME NEW T \in SUBSET S, NEW x \in S \ T, T \in Good PROVE T \cup {x} \in Good
  <2> DEFINE U == T \cup {x}
  <2>1. U \in SUBSET S /\ x \in U /\ U \ {x} = T
    OBVIOUS
  <2>2. IsFiniteSet(U) /\ \A y \in U : f[y] \in Int
    BY <1>1, <2>1
  <2> HIDE DEF U
  <2>3. SumFunctionOnSet(f, U) = f[x] + SumFunctionOnSet(f, T)
    BY <2>1, <2>2, SumRemove
  <2>4. SumFunctionOnSet(f, T) = Cardinality(T \cap W)
    BY <1>3
  <2>5. IsFiniteSet(T \cap W) /\ Cardinality(T \cap W) \in Nat
    BY <1>1, FS_Subset, FS_CardinalityType
  <2>6. CASE x \in W
    <3>1. U \cap W = (T \cap W) \cup {x} /\ x \notin T \cap W
      BY <2>6 DEF U
    <3>2. Cardinality(U \cap W) = Cardinality(T \cap W) + 1
      BY <2>5, <3>1, FS_AddElement
    <3> QED
      BY <2>1, <2>3, <2>4, <2>5, <2>6, <3>2 DEF U
  <2>7. CASE x \notin W
    <3>1. U \cap W = T \cap W
      BY <2>7 DEF U
    <3>2. f[x] = 0
      BY <2>7
    <3>3. Cardinality(U \cap W) = Cardinality(T \cap W)
      BY <3>1, Zenon
    <3>4. SumFunctionOnSet(f, U) = Cardinality(U \cap W)
      BY <2>3, <2>4, <2>5, <3>2, <3>3
    <3> QED
      BY <2>1, <3>4 DEF U
  <2> QED
    BY <2>6, <2>7
<1>4. \A T \in SUBSET S : T \in Good
  <2> HIDE DEF Good
  <2> QED
    BY <1>2, <1>3, SubsetInduction
<1>5. S \in Good /\ S \cap W = W
  BY <1>4
<1> QED
  BY <1>5

LEMMA SumOneMore ==
    ASSUME NEW S, IsFiniteSet(S), NEW W \in SUBSET S, NEW f, \A y \in S : f[y] \in Int,
           NEW h, \A y \in S : h[y] = f[y] + (IF y \in W THEN 1 ELSE 0)
    PROVE  SumFunctionOnSet(h, S) = SumFunctionOnSet(f, S) + Cardinality(W)
<1> DEFINE g == [y \in S |-> IF y \in W THEN 1 ELSE 0]
<1>1. \A y \in S : g[y] = IF y \in W THEN 1 ELSE 0
  OBVIOUS
<1> HIDE DEF g
<1>2. \A y \in S : f[y] \in Int /\ g[y] \in Int /\ h[y] = f[y] + g[y]
  BY <1>1
<1>3. SumFunctionOnSet(h, S) = SumFunctionOnSet(f, S) + SumFunctionOnSet(g, S)
  BY <1>2, SumAdd
<1>4. SumFunctionOnSet(g, S) = Cardinality(W)
  BY <1>1, SumIndicator
<1> QED
  BY <1>3, <1>4

(* A sequence without repetitions has as many elements as places. *)
LEMMA RangeCardinality ==
    ASSUME NEW S, NEW q \in Seq(S), IsInjective(q)
    PROVE  IsFiniteSet(Range(q)) /\ Cardinality(Range(q)) = Len(q)
<1>1. Len(q) \in Nat /\ DOMAIN q = 1..Len(q) /\ q \in [1..Len(q) -> S]
  BY LenProperties
<1>2. q \in [1..Len(q) -> Range(q)] /\ \A t \in Range(q) : \E i \in 1..Len(q) : q[i] = t
  BY <1>1 DEF Range
<1>3. q \in Bijection(1..Len(q), Range(q))
  BY <1>2 DEF Bijection, Injection, Surjection
<1>4. ExistsBijection(1..Len(q), Range(q))
  BY <1>3 DEF ExistsBijection
<1>5. IsFiniteSet(1..Len(q))
  BY <1>1, FS_Interval
<1> QED
  BY <1>1, <1>4, <1>5, FS_CountingElements, FS_Bijection

(* A non-empty set of naturals has a least element. *)
LEMMA LeastNat ==
    ASSUME NEW S \in SUBSET Nat, S # {}
    PROVE  Min(S) \in S /\ \A x \in S : Min(S) <= x
<1>1. \E x \in S : \A y \in S : x <= y
  <2> SUFFICES ASSUME \A x \in S : \E y \in S : y < x PROVE FALSE
    OBVIOUS
  <2> DEFINE G == {n \in Nat : \A m \in 0..n : m \notin S}
  <2>1. 0 \in G
    <3> SUFFICES ASSUME 0 \in S PROVE FALSE
      OBVIOUS
    <3>1. PICK y \in S : y < 0
      OBVIOUS
    <3> QED
      BY <3>1
  <2>2. \A n \in Nat : n \in G => n + 1 \in G
    <3> SUFFICES ASSUME NEW n \in Nat, n \in G, n + 1 \in S PROVE FALSE
      OBVIOUS
    <3>1. PICK y \in S : y < n + 1
      OBVIOUS
    <3>2. y \in 0..n
      BY <3>1
    <3> QED
      BY <3>2
  <2> HIDE DEF G
  <2>3. Nat \subseteq G
    BY <2>1, <2>2, NatSetInduction
  <2>4. PICK x \in S : TRUE
    OBVIOUS
  <2>5. x \in G
    BY <2>3
  <2> QED
    BY <2>4, <2>5 DEF G
<1> QED
  BY <1>1 DEF Min

-----------------------------------------------------------------------------
(* Quotient and remainder. *)
LEMMA DivMod ==
    ASSUME NEW a \in Int, NEW m \in Nat \ {0}
    PROVE  a = m * (a \div m) + (a % m) /\ a % m \in 0..m-1 /\ a \div m \in Int
OBVIOUS

(* A small multiple of m is 0. *)
LEMMA ProductZero ==
    ASSUME NEW q \in Int, NEW m \in Nat \ {0}, NEW d \in Int, m * q = d, -m < d, d < m
    PROVE q = 0
<1>1. CASE q >= 1
  <2>1. m * q >= m
    BY <1>1
  <2> QED
    BY <2>1
<1>2. CASE q <= -1
  <2>1. m * q <= -m
    BY <1>2
  <2> QED
    BY <2>1
<1> QED
  BY <1>1, <1>2
(* The quotient and the remainder are the only ones. *)
LEMMA ModUnique ==
    ASSUME NEW m \in Nat \ {0}, NEW a \in 0..m-1, NEW q \in Int
    PROVE  (a + m * q) % m = a /\ (a + m * q) \div m = q
<1> DEFINE x == a + m * q
<1>0. x \in Int
  OBVIOUS
<1>1. x = m * (x \div m) + (x % m) /\ x % m \in 0..m-1 /\ x \div m \in Int
  BY <1>0, DivMod
<1>2. m * (q - (x \div m)) = (x % m) - a
  BY <1>1
<1>3. q - (x \div m) = 0
  BY <1>1, <1>2, ProductZero
<1>4. q = x \div m
  BY <1>1, <1>3
<1> QED
  BY <1>1, <1>4
=============================================================================
