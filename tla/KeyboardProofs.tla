--------------------------- MODULE KeyboardProofs ---------------------------
(***************************************************************************)
(* Proofs about Keyboard for any number of key presses and releases, in    *)
(* any interleaving with the handler and the thread: what is typed is      *)
(* decoded key by key, and the thread is given a new key.                  *)
(*                                                                         *)
(* KeyboardInv is inductive as long as the driver has not gone astray, and *)
(* once it has it stays astray.  The bytes that the controller still has are  *)
(* those of the events that are not decoded yet, each where `at' says, the *)
(* first of them perhaps without its prefix, and before them what the      *)
(* driver will discard; `held' and `caps' give the keys held down and caps *)
(* lock after each event, which the driver knows for the events that it    *)
(* has decoded while the characters of the others are already determined.  *)
(***************************************************************************)
EXTENDS Keyboard, SequenceTheorems, FiniteSetTheorems, TLAPS

(* The keycode a key should give. *)
KeyCode(k) ==
    CASE k = "right" -> RIGHT [] k = "pause" -> PAUSE [] k = "print" -> PRINTSCREEN
      [] OTHER -> keycode[Code[k]]

(* The keys held down, and caps lock, after event e. *)
HeldAfter(h, e) == IF e.released THEN h \ {e.name} ELSE IF e.name = "pause" THEN h ELSE h \cup {e.name}
CapsAfter(c, e) == IF e.name = "caps" /\ ~e.released THEN ~c ELSE c

Shift(h) == h \cap {"shift", "rshift"} # {}
Big(kcode, shift, c) == IF kcode \in LetterKeys THEN shift # c ELSE shift

EventBytes(e) == Bytes(e.name, e.released)

-----------------------------------------------------------------------------
(* The keys of the keyboard. *)
KeyNames == {"a", "one", "enter", "shift", "rshift", "caps", "right", "print", "pause"}
PlainKeys == {"a", "one", "enter", "shift", "rshift", "caps"}

LEMMA KeysAreNames == Keys \subseteq KeyNames
BY KeysAssumption DEF Code, KeyNames

(* The scancodes of keys that have one byte, and their keycodes. *)
LEMMA Codes ==
    /\ Code["a"] = 30 /\ Code["one"] = 2 /\ Code["enter"] = 28
    /\ Code["shift"] = 42 /\ Code["rshift"] = 54 /\ Code["caps"] = 58 /\ Code["right"] = 77
BY DEF Code

LEMMA Constants ==
    /\ LSHIFT = 64 /\ RSHIFT = 75 /\ CAPSLOCK = 48 /\ SCROLLLOCK = 97
    /\ PRINTSCREEN = 96 /\ PAUSE = 98 /\ RIGHT = 115
    /\ EXTENDED = 224 /\ PAUSE_1ST = 225 /\ PRINT_PRESSED = 42 /\ PRINT_RELEASED = 183 /\ ACK = 250
BY DEF LSHIFT, RSHIFT, CAPSLOCK, SCROLLLOCK, PRINTSCREEN, PAUSE, RIGHT, KBD_KEYCODE,
       EXTENDED, PAUSE_1ST, PRINT_PRESSED, PRINT_RELEASED, ACK

LEMMA Keycodes ==
    /\ keycode[30] = 49 /\ keycode[2] = 17 /\ keycode[28] = 60
    /\ keycode[42] = 64 /\ keycode[54] = 75 /\ keycode[58] = 48
    /\ keycode_extended_byte[77] = 115
<1>1. keycode[30] = 49 BY DEF keycode
<1>2. keycode[2] = 17 BY DEF keycode
<1>3. keycode[28] = 60 BY DEF keycode
<1>4. keycode[42] = 64 BY DEF keycode
<1>5. keycode[54] = 75 BY DEF keycode
<1>6. keycode[58] = 48 BY DEF keycode
<1>7. keycode_extended_byte[77] = 115 BY DEF keycode_extended_byte
<1> QED BY <1>1, <1>2, <1>3, <1>4, <1>5, <1>6, <1>7

LEMMA KeyCodes ==
    /\ KeyCode("a") = 49 /\ KeyCode("one") = 17 /\ KeyCode("enter") = 60
    /\ KeyCode("shift") = 64 /\ KeyCode("rshift") = 75 /\ KeyCode("caps") = 48
    /\ KeyCode("right") = 115 /\ KeyCode("print") = 96 /\ KeyCode("pause") = 98
BY Codes, Keycodes, Constants DEF KeyCode

(* Keys without a character. *)
LEMMA NoCharacter ==
    ASSUME NEW b \in BOOLEAN
    PROVE  MapKey(96, b) = NUL /\ MapKey(98, b) = NUL
<1>1. Plain[6] = << >> /\ Shifted[6] = << >>
  BY DEF Plain, Shifted
<1>2. 96 \div 16 = 6 /\ 98 \div 16 = 6 /\ 96 % 16 = 0 /\ 98 % 16 = 2
  OBVIOUS
<1>3. Len(<< >>) = 0
  OBVIOUS
<1> QED
  BY <1>1, <1>2, <1>3 DEF MapKey

LEMMA TwelveLong ==
    ASSUME NEW a, NEW b, NEW c, NEW d, NEW e, NEW f, NEW g, NEW h, NEW i, NEW j, NEW k, NEW l
    PROVE  Len(<<a, b, c, d, e, f, g, h, i, j, k, l>>) = 12
OBVIOUS

(* kbd_handler's two ways to a capital letter are one. *)
LEMMA CapitalA == Upper(49) = MapKey(49, TRUE)
<1>1. 49 \div 16 = 3 /\ 49 % 16 = 1
  OBVIOUS
<1> DEFINE A == <<"~","!","@","#","$","%","^","&","*","(",")","_","+">>
           B == <<NUL,"Q","W","E","R","T","Y","U","I","O","P","{","}","|">>
           C == <<NUL,"A","S","D","F","G","H","J","K","L",":","\"">>
           D == <<NUL,"Z","X","C","V","B","N","M","<",">","?">>
<1>2. Shifted = [r \in 0..7 |-> CASE r = 1 -> A [] r = 2 -> B [] r = 3 -> C [] r = 4 -> D [] OTHER -> << >>]
  BY Zenon DEF Shifted
<1>3. Len(C) = 12
  BY TwelveLong, Zenon
<1> HIDE DEF A, B, C, D
<1>4. Len(Shifted[3]) = 12
  BY <1>2, <1>3
<1> QED
  BY <1>1, <1>4 DEF Upper, MapKey

LEMMA MappedIs ==
    ASSUME NEW k \in KeyNames, NEW pressed, NEW c \in BOOLEAN
    PROVE  Mapped(KeyCode(k), pressed, c)
             = MapKey(KeyCode(k), Big(KeyCode(k), pressed \cap {LSHIFT, RSHIFT} # {}, c))
<1> DEFINE shift == pressed \cap {LSHIFT, RSHIFT} # {}
<1>1. shift \in BOOLEAN
  OBVIOUS
<1>2. KeyCode(k) \in LetterKeys => KeyCode(k) = 49
  BY KeyCodes DEF KeyNames, LetterKeys
<1>3. IsLower(KeyCode(k), FALSE) <=> KeyCode(k) \in LetterKeys
  BY DEF IsLower
<1>4. Mapped(KeyCode(k), pressed, c) =
        IF shift /\ (~IsLower(KeyCode(k), FALSE) \/ ~c) THEN MapKey(KeyCode(k), TRUE)
        ELSE IF c /\ IsLower(KeyCode(k), FALSE) /\ ~shift THEN Upper(KeyCode(k))
        ELSE MapKey(KeyCode(k), FALSE)
  BY DEF Mapped
<1> HIDE DEF shift
<1>5. CASE KeyCode(k) \in LetterKeys
  <2>1. Upper(KeyCode(k)) = MapKey(KeyCode(k), TRUE)
    BY <1>2, <1>5, CapitalA
  <2>2. CASE shift /\ ~c
    BY <2>2, <1>3, <1>4, <1>5 DEF Big, shift
  <2>3. CASE shift /\ c
    BY <2>3, <1>3, <1>4, <1>5 DEF Big, shift
  <2>4. CASE ~shift /\ c
    BY <2>1, <2>4, <1>3, <1>4, <1>5 DEF Big, shift
  <2>5. CASE ~shift /\ ~c
    BY <2>5, <1>3, <1>4, <1>5 DEF Big, shift
  <2> QED
    BY <1>1, <2>2, <2>3, <2>4, <2>5
<1>6. CASE KeyCode(k) \notin LetterKeys
  <2>1. CASE shift
    BY <2>1, <1>3, <1>4, <1>6 DEF Big, shift
  <2>2. CASE ~shift
    BY <2>2, <1>3, <1>4, <1>6 DEF Big, shift
  <2> QED
    BY <1>1, <2>1, <2>2
<1> QED
  BY <1>5, <1>6

(* The bytes of each key. *)
LEMMA OneByte ==
    ASSUME NEW k \in PlainKeys, NEW r \in BOOLEAN
    PROVE  /\ Len(Bytes(k, r)) = 1
           /\ Bytes(k, r)[1] = Code[k] + (IF r THEN 128 ELSE 0)
           /\ Bytes(k, r) \in Seq(Nat)
<1>1. k # "right" /\ k # "pause" /\ k # "print"
  BY DEF PlainKeys
<1>2. Bytes(k, r) = <<Code[k] + (IF r THEN 128 ELSE 0)>>
  BY <1>1 DEF Bytes
<1>3. Code[k] \in Nat
  BY Codes DEF PlainKeys
<1> QED
  BY <1>2, <1>3

LEMMA TwoLong ==
    ASSUME NEW s, NEW a \in Nat, NEW b \in Nat, s = <<a, b>>
    PROVE  s \in Seq(Nat) /\ Len(s) = 2 /\ s[1] = a /\ s[2] = b
OBVIOUS

LEMMA FourLong ==
    ASSUME NEW s, NEW a \in Nat, NEW b \in Nat, NEW c \in Nat, NEW d \in Nat, s = <<a, b, c, d>>
    PROVE  s \in Seq(Nat) /\ Len(s) = 4 /\ s[1] = a /\ s[2] = b
OBVIOUS

LEMMA SixLong ==
    ASSUME NEW s, NEW a \in Nat, NEW b \in Nat, NEW c \in Nat, NEW d \in Nat, NEW e \in Nat, NEW f \in Nat,
           s = <<a, b, c, d, e, f>>
    PROVE  s \in Seq(Nat) /\ Len(s) = 6 /\ s[1] = a
OBVIOUS

LEMMA RightBytes ==
    ASSUME NEW r \in BOOLEAN
    PROVE  /\ Len(Bytes("right", r)) = 2
           /\ Bytes("right", r)[1] = EXTENDED
           /\ Bytes("right", r)[2] = 77 + (IF r THEN 128 ELSE 0)
           /\ Bytes("right", r) \in Seq(Nat)
<1> DEFINE b == 77 + (IF r THEN 128 ELSE 0)
<1>1. Bytes("right", r) = <<EXTENDED, b>>
  BY Codes DEF Bytes
<1>2. EXTENDED \in Nat /\ b \in Nat
  BY Constants
<1> HIDE DEF b
<1>3. Bytes("right", r) \in Seq(Nat) /\ Len(Bytes("right", r)) = 2
      /\ Bytes("right", r)[1] = EXTENDED /\ Bytes("right", r)[2] = b
  BY <1>1, <1>2, TwoLong, Zenon
<1> QED
  BY <1>3 DEF b

LEMMA PrintBytes ==
    ASSUME NEW r \in BOOLEAN
    PROVE  /\ Len(Bytes("print", r)) = 4
           /\ Bytes("print", r)[1] = EXTENDED
           /\ Bytes("print", r)[2] = (IF r THEN PRINT_RELEASED ELSE PRINT_PRESSED)
           /\ Bytes("print", r) \in Seq(Nat)
<1>1. EXTENDED \in Nat /\ PRINT_RELEASED \in Nat /\ PRINT_PRESSED \in Nat /\ 170 \in Nat /\ 55 \in Nat
  BY Constants
<1>2. CASE r
  <2>1. Bytes("print", r) = <<EXTENDED, PRINT_RELEASED, EXTENDED, 170>>
    BY <1>2 DEF Bytes
  <2>2. PICK s : s = Bytes("print", r)
    OBVIOUS
  <2>3. s = <<EXTENDED, PRINT_RELEASED, EXTENDED, 170>>
    BY <2>1, <2>2, Zenon
  <2>4. s \in Seq(Nat) /\ Len(s) = 4 /\ s[1] = EXTENDED /\ s[2] = PRINT_RELEASED
    BY <2>3, <1>1, FourLong
  <2> QED
    BY <1>2, <2>2, <2>4, Zenon
<1>3. CASE ~r
  <2>1. Bytes("print", r) = <<EXTENDED, PRINT_PRESSED, EXTENDED, 55>>
    BY <1>3 DEF Bytes
  <2>2. PICK s : s = Bytes("print", r)
    OBVIOUS
  <2>3. s = <<EXTENDED, PRINT_PRESSED, EXTENDED, 55>>
    BY <2>1, <2>2, Zenon
  <2>4. s \in Seq(Nat) /\ Len(s) = 4 /\ s[1] = EXTENDED /\ s[2] = PRINT_PRESSED
    BY <2>3, <1>1, FourLong
  <2> QED
    BY <1>3, <2>2, <2>4, Zenon
<1> QED
  BY <1>2, <1>3

LEMMA PauseBytes ==
    /\ Len(Bytes("pause", FALSE)) = 6
    /\ Bytes("pause", FALSE)[1] = PAUSE_1ST
    /\ Bytes("pause", FALSE) \in Seq(Nat)
<1>1. Bytes("pause", FALSE) = <<PAUSE_1ST, 29, 69, PAUSE_1ST, 157, 197>>
  BY DEF Bytes
<1>2. PAUSE_1ST \in Nat /\ 29 \in Nat /\ 69 \in Nat /\ 157 \in Nat /\ 197 \in Nat
  BY Constants
<1>3. PICK s : s = Bytes("pause", FALSE)
  OBVIOUS
<1>4. s = <<PAUSE_1ST, 29, 69, PAUSE_1ST, 157, 197>>
  BY <1>1, <1>3, Zenon
<1>5. s \in Seq(Nat) /\ Len(s) = 6 /\ s[1] = PAUSE_1ST
  BY <1>2, <1>4, SixLong
<1> QED
  BY <1>3, <1>5, Zenon

-----------------------------------------------------------------------------
(* Events, and keys as the driver gives them. *)
Chars == {MapKey(k, b) : k \in Int, b \in BOOLEAN}
TypedKey == [name : Keys, keycode : Int, mapped : Chars, released : BOOLEAN]
DecodedKey == [keycode : Int, mapped : Chars, released : BOOLEAN]

(* Event e is one the keyboard can send, with what should come of it when   *)
(* the held keys and caps lock are h0 and c0 before and h1 and c1 after.    *)
EventOk(e, h0, h1, c0, c1) ==
    /\ e \in TypedKey
    /\ e.name = "pause" => ~e.released
    /\ h1 = HeldAfter(h0, e)
    /\ c1 = CapsAfter(c0, e)
    /\ e.keycode = KeyCode(e.name)
    /\ e.mapped = MapKey(e.keycode, Big(e.keycode, Shift(h1), c1))

History(t, held, caps) ==
    \A i \in 1..Len(t) : EventOk(t[i], held[i - 1], held[i], caps[i - 1], caps[i])

(* Queue q holds the bytes of the events of t after the first d, those of   *)
(* the i-th one from at[i] on; the driver may have taken some of the first. *)
HoldsAt(q, b, p) == \A j \in 1..Len(b) : p + j - 1 >= 1 => q[p + j - 1] = b[j]

Stream(q, t, d, at) ==
    /\ at[Len(t) + 1] = Len(q) + 1
    /\ \A i \in d + 1..Len(t) : /\ at[i + 1] = at[i] + Len(EventBytes(t[i]))
                               /\ HoldsAt(q, EventBytes(t[i]), at[i])
    /\ \A i, j \in d + 1..Len(t) + 1 : i < j => at[i] < at[j]

(* What the driver will do with the bytes before `next', where those of     *)
(* event e begin: discard them, read acknowledgements, or take the byte     *)
(* after the prefix, which it has had already.                              *)
Phase(hd, lf, ext, q, next, names) ==
    \/ hd = "trash" /\ ~ext /\ lf >= 1 /\ next = lf + 1
    \/ hd = "kbd" /\ ~ext /\ next >= 1 /\ \A j \in 1..next - 1 : q[j] = ACK
    \/ hd = "kbd" /\ ext /\ next = 0 /\ names \cap {"right", "print"} # {}

(* The name of the event after the first d of t, if there is one. *)
NextName(t, d) == IF d < Len(t) THEN {t[d + 1].name} ELSE {}

(* The driver knows the modifiers as they were after what it has decoded. *)
Modifiers(kp, on, h, c) ==
    /\ LSHIFT \in kp <=> "shift" \in h
    /\ RSHIFT \in kp <=> "rshift" \in h
    /\ on = c

Tracked(at, held, caps) ==
    /\ held[Len(typed)] = down /\ caps[Len(typed)] = (Presses("caps") % 2 = 1)
    /\ History(typed, held, caps)
    /\ Stream(queue, typed, Len(decoded), at)
    /\ Phase(handler, left, extended_byte, queue, at[Len(decoded) + 1], NextName(typed, Len(decoded)))
    /\ Modifiers(key_pressed, capslock_on, held[Len(decoded)], caps[Len(decoded)])

TypeInv ==
    /\ queue \in Seq(Nat)
    /\ typed \in Seq(TypedKey)
    /\ decoded \in Seq(DecodedKey)
    /\ down \subseteq Keys
    /\ left \in Nat
    /\ extended_byte \in BOOLEAN /\ capslock_on \in BOOLEAN

Put(f, n, v) == [f EXCEPT ![n] = v]
Earlier(at) == [n \in Nat |-> at[n] - 1]
Place == [Nat -> Int]
Holding == [Nat -> SUBSET Keys]
Locking == [Nat -> BOOLEAN]

KeyboardInv ==
    /\ TypeInv
    /\ DecodedInOrder
    /\ \E at \in Place, held \in Holding, caps \in Locking : Tracked(at, held, caps)

-----------------------------------------------------------------------------
(* Every event has between one and six bytes. *)
LEMMA BytesOfEvent ==
    ASSUME NEW e \in TypedKey, e.name = "pause" => ~e.released
    PROVE  /\ EventBytes(e) \in Seq(Nat)
           /\ Len(EventBytes(e)) \in 1..6
           /\ e.name \in KeyNames /\ e.released \in BOOLEAN
<1>1. e.name \in KeyNames /\ e.released \in BOOLEAN
  BY KeysAreNames DEF TypedKey
<1>2. CASE e.name \in PlainKeys
  BY <1>1, <1>2, OneByte DEF EventBytes
<1>3. CASE e.name = "right"
  BY <1>1, <1>3, RightBytes DEF EventBytes
<1>4. CASE e.name = "print"
  BY <1>1, <1>4, PrintBytes DEF EventBytes
<1>5. CASE e.name = "pause"
  <2>1. e.released = FALSE
    BY <1>1, <1>5
  <2>2. EventBytes(e) = Bytes("pause", FALSE)
    BY <1>5, <2>1, Zenon DEF EventBytes
  <2>3. EventBytes(e) \in Seq(Nat) /\ Len(EventBytes(e)) = 6
    BY <2>2, PauseBytes, Zenon
  <2> QED
    BY <1>1, <2>3
<1> QED
  BY <1>1, <1>2, <1>3, <1>4, <1>5 DEF KeyNames, PlainKeys

(* The positions of the bytes of an event lie in the queue. *)
LEMMA InQueue ==
    ASSUME NEW q \in Seq(Nat), NEW t \in Seq(TypedKey), NEW d \in 0..Len(t), NEW at \in Place,
           Stream(q, t, d, at), NEW i \in d + 1..Len(t)
    PROVE  at[i + 1] <= Len(q) + 1
<1>1. Len(t) \in Nat /\ Len(q) \in Nat
  BY LenProperties
<1>2. at[i + 1] \in Int /\ at[Len(t) + 1] = Len(q) + 1
  BY <1>1 DEF Place, Stream
<1>3. CASE i = Len(t)
  BY <1>2, <1>3
<1>4. CASE i < Len(t)
  <2>1. i + 1 \in d + 1..Len(t) + 1 /\ Len(t) + 1 \in d + 1..Len(t) + 1 /\ i + 1 < Len(t) + 1
    BY <1>1, <1>4
  <2>2. at[i + 1] < at[Len(t) + 1]
    BY <2>1 DEF Stream
  <2> QED
    BY <1>1, <1>2, <2>2
<1> QED
  BY <1>1, <1>3, <1>4

LEMMA OneBefore ==
    ASSUME NEW a \in Int, NEW a2, NEW l \in Int, NEW n \in Int, NEW j \in Int,
           1 <= j, j <= l, a + l <= n + 1, a2 = a - 1, a2 + j - 1 >= 1
    PROVE  a2 + j - 1 \in 1..n - 1 /\ a2 + j - 1 + 1 = a + j - 1 /\ a + j - 1 >= 1
OBVIOUS

(* One byte is taken; the event it belongs to may be decoded with it. *)
LEMMA TakeByte ==
    ASSUME NEW q \in Seq(Nat), q # << >>, NEW t \in Seq(TypedKey), NEW d \in 0..Len(t), NEW at \in Place,
           Stream(q, t, d, at), NEW d2 \in {d, d + 1}, d2 <= Len(t),
           \A i \in 1..Len(t) : Len(EventBytes(t[i])) \in 1..6,
           NEW at2, at2 = Earlier(at)
    PROVE  at2 \in Place /\ Stream(Tail(q), t, d2, at2)
<1>1. Len(t) \in Nat /\ Len(q) \in Nat /\ d \in Nat /\ d2 \in Nat /\ d <= d2
  BY LenProperties
<1>2. Len(Tail(q)) = Len(q) - 1 /\ \A j \in 1..Len(q) - 1 : Tail(q)[j] = q[j + 1]
  BY HeadTailProperties
<1>3. \A n \in Nat : at[n] \in Int /\ at2[n] = at[n] - 1
  BY DEF Place, Earlier
<1>4. at2 \in Place
  BY <1>3 DEF Place, Earlier
<1>5. at2[Len(t) + 1] = Len(Tail(q)) + 1
  <2>1. at[Len(t) + 1] = Len(q) + 1
    BY DEF Stream
  <2> QED
    BY <1>1, <1>2, <1>3, <2>1
<1>6. ASSUME NEW i \in d2 + 1..Len(t)
      PROVE  at2[i + 1] = at2[i] + Len(EventBytes(t[i])) /\ HoldsAt(Tail(q), EventBytes(t[i]), at2[i])
  <2> DEFINE b == EventBytes(t[i])
  <2>1. i \in d + 1..Len(t) /\ i \in Nat /\ i + 1 \in Nat
    BY <1>1
  <2>2. at[i + 1] = at[i] + Len(b) /\ HoldsAt(q, b, at[i]) /\ Len(b) \in 1..6
    BY <2>1, <1>1 DEF Stream
  <2>3. at[i + 1] <= Len(q) + 1
    BY <2>1, InQueue
  <2>7. /\ at[i] \in Int /\ at[i + 1] \in Int /\ Len(b) \in Nat
        /\ at2[i] = at[i] - 1 /\ at2[i + 1] = at[i + 1] - 1
    BY <1>3, <2>1, <2>2
  <2> HIDE DEF b
  <2>8. at[i + 1] = at[i] + Len(b)
    BY <2>2
  <2>4. ASSUME NEW j \in 1..Len(b), at2[i] + j - 1 >= 1
        PROVE  Tail(q)[at2[i] + j - 1] = b[j]
    <3>1. at2[i] + j - 1 \in 1..Len(q) - 1 /\ at2[i] + j - 1 + 1 = at[i] + j - 1 /\ at[i] + j - 1 >= 1
      <4>1. j \in Int /\ 1 <= j /\ j <= Len(b) /\ Len(b) \in Int /\ Len(q) \in Int
        BY <1>1, <2>7
      <4>2. at[i] + Len(b) <= Len(q) + 1 /\ at2[i] = at[i] - 1
        BY <2>3, <2>7, <2>8
      <4> QED
        BY <2>4, <2>7, <4>1, <4>2, OneBefore, Zenon
    <3>2. Tail(q)[at2[i] + j - 1] = q[at[i] + j - 1]
      BY <1>2, <3>1
    <3> QED
      BY <2>2, <3>1, <3>2 DEF HoldsAt
  <2>5. HoldsAt(Tail(q), b, at2[i])
    BY <2>4 DEF HoldsAt
  <2>6. at2[i + 1] = at2[i] + Len(b)
    BY <2>7, <2>8
  <2> QED
    BY <2>5, <2>6 DEF b
<1>7. ASSUME NEW i \in d2 + 1..Len(t) + 1, NEW j \in d2 + 1..Len(t) + 1, i < j
      PROVE  at2[i] < at2[j]
  <2>1. i \in d + 1..Len(t) + 1 /\ j \in d + 1..Len(t) + 1 /\ i \in Nat /\ j \in Nat
    BY <1>1
  <2>2. at[i] < at[j]
    BY <2>1, <1>7 DEF Stream
  <2> QED
    BY <1>3, <2>1, <2>2
<1>8. Stream(Tail(q), t, d2, at2)
  BY <1>5, <1>6, <1>7 DEF Stream
<1> QED
  BY <1>4, <1>8

LEMMA Inside ==
    ASSUME NEW a \in Int, NEW l \in Int, NEW n \in Int, NEW j \in Int,
           1 <= j, j <= l, a + l <= n + 1, a + j - 1 >= 1
    PROVE  a + j - 1 \in 1..n
OBVIOUS

LEMMA OneToSix ==
    ASSUME NEW n \in 1..6
    PROVE  n \in Nat /\ n >= 1 /\ 1 \in 1..n
OBVIOUS

(* An event's bytes come in behind the others. *)
LEMMA MoreBytes ==
    ASSUME NEW q \in Seq(Nat), NEW t \in Seq(TypedKey), NEW d \in 0..Len(t), NEW at \in Place,
           Stream(q, t, d, at), NEW e \in TypedKey, EventBytes(e) \in Seq(Nat), Len(EventBytes(e)) \in 1..6,
           \A i \in 1..Len(t) : Len(EventBytes(t[i])) \in 1..6,
           NEW at2, at2 = Put(at, Len(t) + 2, Len(q) + Len(EventBytes(e)) + 1)
    PROVE  /\ at2 \in Place /\ Stream(q \o EventBytes(e), Append(t, e), d, at2)
           /\ at2[d + 1] = at[d + 1] /\ at[d + 1] <= Len(q) + 1
<1> DEFINE t2 == Append(t, e)
           q2 == q \o EventBytes(e)
<1>1. Len(t) \in Nat /\ Len(q) \in Nat /\ d \in Nat /\ d <= Len(t) /\ Len(EventBytes(e)) \in Nat
  BY LenProperties
<1>2. Len(t2) = Len(t) + 1 /\ t2[Len(t) + 1] = e /\ \A i \in 1..Len(t) : t2[i] = t[i]
  BY AppendProperties
<1>3. /\ Len(q2) = Len(q) + Len(EventBytes(e))
      /\ \A i \in 1..Len(q) : q2[i] = q[i]
      /\ \A i \in 1..Len(EventBytes(e)) : q2[Len(q) + i] = EventBytes(e)[i]
  BY ConcatProperties
<1>4. /\ at2 \in Place /\ at2[Len(t) + 2] = Len(q) + Len(EventBytes(e)) + 1
      /\ \A n \in Nat : at[n] \in Int /\ (n # Len(t) + 2 => at2[n] = at[n])
  BY <1>1 DEF Place, Put
<1>5. at[Len(t) + 1] = Len(q) + 1
  BY DEF Stream
<1> HIDE DEF t2, q2
<1>6. at2[Len(t2) + 1] = Len(q2) + 1
  BY <1>1, <1>2, <1>3, <1>4
<1>7. ASSUME NEW i \in d + 1..Len(t2)
      PROVE  at2[i + 1] = at2[i] + Len(EventBytes(t2[i])) /\ HoldsAt(q2, EventBytes(t2[i]), at2[i])
  <2>1. CASE i = Len(t) + 1
    <3>1. at2[i] = Len(q) + 1 /\ at2[i + 1] = Len(q) + Len(EventBytes(e)) + 1 /\ t2[i] = e
      <4>1. i \in Nat /\ i # Len(t) + 2 /\ i + 1 = Len(t) + 2
        BY <1>1, <2>1
      <4>2. at2[i] = at[i]
        BY <1>4, <4>1
      <4> QED
        BY <1>2, <1>4, <1>5, <2>1, <4>1, <4>2
    <3>2. ASSUME NEW j \in 1..Len(EventBytes(e))
          PROVE  q2[Len(q) + 1 + j - 1] = EventBytes(e)[j]
      <4>1. Len(q) + 1 + j - 1 = Len(q) + j
        BY <1>1
      <4> QED
        BY <1>3, <4>1
    <3>3. HoldsAt(q2, EventBytes(e), Len(q) + 1)
      BY <3>2 DEF HoldsAt
    <3>4. Len(q) + Len(EventBytes(e)) + 1 = Len(q) + 1 + Len(EventBytes(e))
      BY <1>1
    <3> QED
      BY <3>1, <3>3, <3>4
  <2>2. CASE i # Len(t) + 1
    <3>1. i \in d + 1..Len(t) /\ i \in Nat /\ i + 1 \in Nat /\ i # Len(t) + 2 /\ i + 1 # Len(t) + 2 /\ i \in 1..Len(t)
      BY <1>1, <1>2, <2>2
    <3>2. t2[i] = t[i] /\ at2[i] = at[i] /\ at2[i + 1] = at[i + 1]
      BY <1>2, <1>4, <3>1
    <3>3. at[i + 1] = at[i] + Len(EventBytes(t[i])) /\ HoldsAt(q, EventBytes(t[i]), at[i])
      BY <3>1 DEF Stream
    <3>4. at[i + 1] <= Len(q) + 1 /\ at[i] \in Int /\ at[i + 1] \in Int
      <4>1. at[i] \in Int /\ at[i + 1] \in Int
        BY <1>4, <3>1
      <4>2. at[i + 1] <= Len(q) + 1
        BY <3>1, InQueue
      <4> QED
        BY <4>1, <4>2
    <3> DEFINE b == EventBytes(t[i])
    <3> HIDE DEF b
    <3>5. ASSUME NEW j \in 1..Len(b), at[i] + j - 1 >= 1
          PROVE  q2[at[i] + j - 1] = b[j]
      <4>1. Len(b) \in Int /\ at[i] + Len(b) <= Len(q) + 1
        BY <3>1, <3>3, <3>4 DEF b
      <4>4. j \in Int /\ 1 <= j /\ j <= Len(b) /\ Len(q) \in Int
        BY <1>1, <4>1
      <4>2. at[i] + j - 1 \in 1..Len(q)
        BY <3>4, <3>5, <4>1, <4>4, Inside, Zenon
      <4>3. q[at[i] + j - 1] = b[j]
        BY <3>3, <3>5 DEF HoldsAt, b
      <4> QED
        BY <1>3, <4>2, <4>3
    <3>6. HoldsAt(q2, b, at[i])
      BY <3>5 DEF HoldsAt
    <3> QED
      BY <3>2, <3>3, <3>6 DEF b
  <2> QED
    BY <2>1, <2>2
<1>8. ASSUME NEW i \in d + 1..Len(t2) + 1, NEW j \in d + 1..Len(t2) + 1, i < j
      PROVE  at2[i] < at2[j]
  <2>1. i \in d + 1..Len(t) + 1 /\ i \in Nat /\ j \in Nat /\ i # Len(t) + 2
    BY <1>1, <1>2, <1>8
  <2>2. at2[i] = at[i] /\ at[i] \in Int
    BY <1>4, <2>1
  <2>3. at[i] <= at[Len(t) + 1]
    <3>1. CASE i = Len(t) + 1
      BY <2>2, <3>1
    <3>2. CASE i < Len(t) + 1
      <4>1. Len(t) + 1 \in d + 1..Len(t) + 1
        BY <1>1
      <4>2. at[i] < at[Len(t) + 1]
        BY <2>1, <3>2, <4>1 DEF Stream
      <4> QED
        BY <1>1, <1>5, <2>2, <4>2
    <3> QED
      BY <1>1, <2>1, <3>1, <3>2
  <2>4. CASE j = Len(t) + 2
    <3>1. at2[j] = Len(q) + Len(EventBytes(e)) + 1
      BY <1>4, <2>4
    <3>2. at[i] <= Len(q) + 1
      BY <1>5, <2>3, Zenon
    <3>3. Len(EventBytes(e)) >= 1
      BY OneToSix, Zenon
    <3> QED
      BY <1>1, <2>2, <3>1, <3>2, <3>3
  <2>5. CASE j # Len(t) + 2
    <3>1. j \in d + 1..Len(t) + 1
      BY <1>1, <1>2, <2>5
    <3>2. at[i] < at[j]
      BY <2>1, <3>1, <1>8 DEF Stream
    <3> QED
      BY <1>4, <2>1, <2>2, <2>5, <3>2
  <2> QED
    BY <2>4, <2>5
<1>9. Stream(q2, t2, d, at2)
  BY <1>6, <1>7, <1>8 DEF Stream
<1>10. at2[d + 1] = at[d + 1] /\ at[d + 1] <= Len(q) + 1
  <2>1. d + 1 \in Nat /\ d + 1 # Len(t) + 2 /\ d + 1 \in d + 1..Len(t) + 1 /\ Len(t) + 1 \in d + 1..Len(t) + 1
    BY <1>1
  <2>2. CASE d = Len(t)
    BY <1>1, <1>4, <1>5, <2>1, <2>2
  <2>3. CASE d < Len(t)
    <3>1. at[d + 1] < at[Len(t) + 1]
      <4>1. \A k, l \in d + 1..Len(t) + 1 : k < l => at[k] < at[l]
        BY DEF Stream
      <4>2. d + 1 < Len(t) + 1
        BY <1>1, <2>3
      <4> QED
        BY <2>1, <4>1, <4>2
    <3> QED
      BY <1>1, <1>4, <1>5, <2>1, <3>1
  <2> QED
    BY <1>1, <2>2, <2>3
<1> QED
  BY <1>4, <1>9, <1>10 DEF t2, q2

(* One more event in the history. *)
LEMMA MoreHistory ==
    ASSUME NEW t \in Seq(TypedKey), NEW held \in Holding, NEW caps \in Locking,
           History(t, held, caps), NEW e \in TypedKey, NEW h \in SUBSET Keys, NEW c \in BOOLEAN,
           EventOk(e, held[Len(t)], h, caps[Len(t)], c),
           NEW held2, held2 = Put(held, Len(t) + 1, h),
           NEW caps2, caps2 = Put(caps, Len(t) + 1, c)
    PROVE  /\ held2 \in Holding /\ caps2 \in Locking
           /\ History(Append(t, e), held2, caps2)
           /\ held2[Len(t) + 1] = h /\ caps2[Len(t) + 1] = c
           /\ \A n \in 0..Len(t) : held2[n] = held[n] /\ caps2[n] = caps[n]
<1>1. Len(t) \in Nat
  BY LenProperties
<1>2. /\ Len(Append(t, e)) = Len(t) + 1 /\ Append(t, e)[Len(t) + 1] = e
      /\ \A i \in 1..Len(t) : Append(t, e)[i] = t[i]
  BY AppendProperties
<1>3. /\ held2 \in Holding /\ held2[Len(t) + 1] = h
      /\ \A n \in Nat : n # Len(t) + 1 => held2[n] = held[n]
  BY <1>1 DEF Holding, Put
<1>4. /\ caps2 \in Locking /\ caps2[Len(t) + 1] = c
      /\ \A n \in Nat : n # Len(t) + 1 => caps2[n] = caps[n]
  BY <1>1 DEF Locking, Put
<1>5. ASSUME NEW i \in 1..Len(t) + 1
      PROVE  EventOk(Append(t, e)[i], held2[i - 1], held2[i], caps2[i - 1], caps2[i])
  <2>1. CASE i = Len(t) + 1
    <3>1. i - 1 = Len(t) /\ Len(t) # Len(t) + 1
      BY <1>1, <2>1, SMTT(30)
    <3>2. held2[i - 1] = held[Len(t)] /\ caps2[i - 1] = caps[Len(t)] /\ held2[i] = h /\ caps2[i] = c
      BY <1>1, <1>3, <1>4, <2>1, <3>1
    <3> QED
      BY <1>2, <2>1, <3>2
  <2>2. CASE i # Len(t) + 1
    <3>1. i \in 1..Len(t) /\ i \in Nat /\ i - 1 \in Nat /\ i - 1 # Len(t) + 1
      BY <1>1, <2>2
    <3>2. held2[i - 1] = held[i - 1] /\ held2[i] = held[i] /\ caps2[i - 1] = caps[i - 1] /\ caps2[i] = caps[i]
      BY <1>3, <1>4, <2>2, <3>1
    <3> QED
      BY <1>2, <3>1, <3>2 DEF History
  <2> QED
    BY <2>1, <2>2
<1>6. History(Append(t, e), held2, caps2)
  BY <1>2, <1>5 DEF History
<1>7. \A n \in 0..Len(t) : held2[n] = held[n] /\ caps2[n] = caps[n]
  BY <1>1, <1>3, <1>4
<1> QED
  BY <1>3, <1>4, <1>6, <1>7

-----------------------------------------------------------------------------
(* The presses of a key, counted. *)
PressesOf(t, k) == {i \in 1..Len(t) : t[i].name = k /\ ~t[i].released}

LEMMA PressesCounted ==
    ASSUME NEW t \in Seq(TypedKey), NEW k
    PROVE  IsFiniteSet(PressesOf(t, k)) /\ Cardinality(PressesOf(t, k)) \in Nat
<1>1. IsFiniteSet(1..Len(t))
  BY FS_Interval, LenProperties
<1>2. PressesOf(t, k) \subseteq 1..Len(t)
  BY DEF PressesOf
<1>3. IsFiniteSet(PressesOf(t, k))
  BY <1>1, <1>2, FS_Subset
<1> QED
  BY <1>3, FS_CardinalityType

LEMMA OneMorePress ==
    ASSUME NEW t \in Seq(TypedKey), NEW k, NEW e \in TypedKey
    PROVE  Cardinality(PressesOf(Append(t, e), k))
             = Cardinality(PressesOf(t, k)) + (IF e.name = k /\ ~e.released THEN 1 ELSE 0)
<1>1. /\ Len(t) \in Nat /\ Len(Append(t, e)) = Len(t) + 1 /\ Append(t, e)[Len(t) + 1] = e
      /\ \A i \in 1..Len(t) : Append(t, e)[i] = t[i]
  BY AppendProperties, LenProperties
<1>2. 1..Len(t) + 1 = (1..Len(t)) \cup {Len(t) + 1} /\ Len(t) + 1 \notin 1..Len(t)
  BY <1>1
<1>3. CASE e.name = k /\ ~e.released
  <2>1. PressesOf(Append(t, e), k) = PressesOf(t, k) \cup {Len(t) + 1}
    BY <1>1, <1>2, <1>3 DEF PressesOf
  <2>2. Len(t) + 1 \notin PressesOf(t, k)
    BY <1>2 DEF PressesOf
  <2>3. Cardinality(PressesOf(t, k) \cup {Len(t) + 1}) = Cardinality(PressesOf(t, k)) + 1
    BY <2>2, PressesCounted, FS_AddElement
  <2> QED
    BY <1>3, <2>1, <2>3
<1>4. CASE ~(e.name = k /\ ~e.released)
  <2>1. PressesOf(Append(t, e), k) = PressesOf(t, k)
    BY <1>1, <1>2, <1>4 DEF PressesOf
  <2> QED
    BY <1>4, <2>1, PressesCounted
<1> QED
  BY <1>3, <1>4

LEMMA Parity ==
    ASSUME NEW n \in Nat
    PROVE  ((n + 1) % 2 = 1) = ~(n % 2 = 1)
OBVIOUS

LEMMA IsChar ==
    ASSUME NEW k \in Int, NEW b \in BOOLEAN
    PROVE  MapKey(k, b) \in Chars
BY DEF Chars

(* The event that Type adds is as the modifiers then are. *)
LEMMA ExpectedOk ==
    ASSUME TypeInv, NEW k \in Keys, NEW r \in BOOLEAN, k = "pause" => ~r
    PROVE  LET e == Expected(k, r)
               n == Cardinality(PressesOf(Append(typed, e), "caps"))
           IN /\ e.name = k /\ e.released = r
              /\ HeldAfter(down, e) \in SUBSET Keys
              /\ EventOk(e, down, HeldAfter(down, e), Presses("caps") % 2 = 1, n % 2 = 1)
<1> DEFINE e == Expected(k, r)
           held == IF r THEN down \ {k} ELSE down \cup {k}
           add == IF k = "caps" /\ ~r THEN 1 ELSE 0
           on == (Presses("caps") + add) % 2 = 1
           big == Big(KeyCode(k), Shift(held), on)
           n == Cardinality(PressesOf(Append(typed, e), "caps"))
<1>1. e = [name |-> k, keycode |-> KeyCode(k), mapped |-> MapKey(KeyCode(k), big), released |-> r]
  BY Zenon DEF Expected, KeyCode, Big, Shift
<1>2. KeyCode(k) \in Int
  BY KeyCodes, KeysAreNames DEF KeyNames
<1>3. big \in BOOLEAN
  BY DEF Big, Shift
<1>4. MapKey(KeyCode(k), big) \in Chars
  BY <1>2, <1>3, IsChar, Zenon
<1> HIDE DEF big, e, n
<1>5. e \in TypedKey /\ e.name = k /\ e.released = r /\ e.keycode = KeyCode(k) /\ e.mapped = MapKey(KeyCode(k), big)
  BY <1>1, <1>2, <1>4 DEF TypedKey
<1>6. HeldAfter(down, e) \in SUBSET Keys /\ Shift(HeldAfter(down, e)) = Shift(held)
  BY <1>5 DEF HeldAfter, Shift, TypeInv
<1>7. Presses("caps") = Cardinality(PressesOf(typed, "caps")) /\ Presses("caps") \in Nat
  BY PressesCounted DEF Presses, PressesOf, TypeInv
<1>8. n = Presses("caps") + add
  <2>1. n = Cardinality(PressesOf(typed, "caps")) + (IF e.name = "caps" /\ ~e.released THEN 1 ELSE 0)
    BY <1>5, OneMorePress DEF TypeInv, n
  <2> QED
    BY <1>5, <1>7, <2>1
<1>9. (n % 2 = 1) = CapsAfter(Presses("caps") % 2 = 1, e)
  <2>1. CASE k = "caps" /\ ~r
    <3>1. n = Presses("caps") + 1
      BY <1>7, <1>8, <2>1
    <3>2. ((Presses("caps") + 1) % 2 = 1) = ~(Presses("caps") % 2 = 1)
      BY <1>7, Parity
    <3> QED
      BY <1>5, <2>1, <3>1, <3>2 DEF CapsAfter
  <2>2. CASE ~(k = "caps" /\ ~r)
    <3>1. n = Presses("caps")
      BY <1>7, <1>8, <2>2
    <3> QED
      BY <1>5, <2>2, <3>1 DEF CapsAfter
  <2> QED
    BY <2>1, <2>2
<1>10. big = Big(KeyCode(k), Shift(HeldAfter(down, e)), n % 2 = 1)
  BY <1>6, <1>8, Zenon DEF big
<1>11. EventOk(e, down, HeldAfter(down, e), Presses("caps") % 2 = 1, n % 2 = 1)
  <2>1. e.name = "pause" => ~e.released
    BY <1>5
  <2>2. e.keycode = KeyCode(e.name)
    BY <1>5, Zenon
  <2>3. MapKey(KeyCode(k), big) = MapKey(e.keycode, Big(e.keycode, Shift(HeldAfter(down, e)), n % 2 = 1))
    BY <1>5, <1>10, Zenon
  <2>4. e.mapped = MapKey(e.keycode, Big(e.keycode, Shift(HeldAfter(down, e)), n % 2 = 1))
    BY <1>5, <2>3, Zenon
  <2> QED
    BY <1>5, <1>9, <2>1, <2>2, <2>4, Zenon DEF EventOk
<1> QED
  BY <1>5, <1>6, <1>11 DEF e, n

(* What DecodedInOrder says of the lengths. *)
LEMMA Lengths ==
    ASSUME TypeInv, DecodedInOrder
    PROVE  /\ Len(typed) \in Nat /\ Len(decoded) \in Nat /\ Len(queue) \in Nat
           /\ Len(decoded) \in 0..Len(typed)
BY LenProperties DEF TypeInv, DecodedInOrder

LEMMA HistoryBytes ==
    ASSUME NEW t \in Seq(TypedKey), NEW held, NEW caps, History(t, held, caps)
    PROVE  \A i \in 1..Len(t) : /\ t[i] \in TypedKey /\ (t[i].name = "pause" => ~t[i].released)
                              /\ Len(EventBytes(t[i])) \in 1..6
<1> SUFFICES ASSUME NEW i \in 1..Len(t)
             PROVE  /\ t[i] \in TypedKey /\ (t[i].name = "pause" => ~t[i].released)
                    /\ Len(EventBytes(t[i])) \in 1..6
  OBVIOUS
<1>1. t[i] \in TypedKey /\ (t[i].name = "pause" => ~t[i].released)
  BY DEF History, EventOk
<1> QED
  BY <1>1, BytesOfEvent, Zenon

LEMMA TypeStep ==
    ASSUME KeyboardInv, NEW k \in Keys, NEW r \in BOOLEAN, Type(k, r)
    PROVE  KeyboardInv'
<1>1. TypeInv /\ DecodedInOrder
  BY DEF KeyboardInv
<1>2. PICK at \in Place, held \in Holding, caps \in Locking : Tracked(at, held, caps)
  BY DEF KeyboardInv
<1> DEFINE e == Expected(k, r)
           b == EventBytes(e)
           h == HeldAfter(down, e)
           n == Cardinality(PressesOf(Append(typed, e), "caps"))
           c == n % 2 = 1
           d == Len(decoded)
<1>3. k = "pause" => ~r
  BY DEF Type
<1>4. e.name = k /\ e.released = r /\ h \in SUBSET Keys
      /\ EventOk(e, down, h, Presses("caps") % 2 = 1, c)
  BY <1>1, <1>3, ExpectedOk
<1> HIDE DEF e
<1>5. e \in TypedKey
  BY <1>4 DEF EventOk
<1>6. b \in Seq(Nat) /\ Len(b) \in 1..6
  BY <1>3, <1>4, <1>5, BytesOfEvent
<1>7. /\ queue' = queue \o b /\ typed' = Append(typed, e) /\ down' = h
      /\ UNCHANGED <<driver, latest_key_handled, decoded>>
  <2>1. down' = IF r THEN down \ {k} ELSE IF k = "pause" THEN down ELSE down \cup {k}
    BY DEF Type
  <2>2. queue' = queue \o Bytes(k, r) /\ typed' = Append(typed, Expected(k, r))
        /\ UNCHANGED <<driver, latest_key_handled, decoded>>
    BY DEF Type
  <2>3. down' = h
    BY <1>4, <2>1 DEF HeldAfter
  <2>4. Bytes(k, r) = b
    BY <1>4 DEF EventBytes
  <2> QED
    BY <2>2, <2>3, <2>4 DEF e
<1>8. /\ queue \in Seq(Nat) /\ typed \in Seq(TypedKey) /\ decoded \in Seq(DecodedKey)
      /\ Len(typed) \in Nat /\ d \in Nat /\ d \in 0..Len(typed) /\ Len(queue) \in Nat
  BY <1>1, Lengths DEF TypeInv
<1>9. /\ held[Len(typed)] = down /\ caps[Len(typed)] = (Presses("caps") % 2 = 1)
      /\ History(typed, held, caps)
      /\ Stream(queue, typed, d, at)
      /\ Phase(handler, left, extended_byte, queue, at[d + 1], NextName(typed, d))
      /\ Modifiers(key_pressed, capslock_on, held[d], caps[d])
  BY <1>2 DEF Tracked
<1>10. \A i \in 1..Len(typed) : Len(EventBytes(typed[i])) \in 1..6
  BY <1>8, <1>9, HistoryBytes
<1>19. PICK at2, held2, caps2 :
          /\ at2 = Put(at, Len(typed) + 2, Len(queue) + Len(EventBytes(e)) + 1)
          /\ held2 = Put(held, Len(typed) + 1, h)
          /\ caps2 = Put(caps, Len(typed) + 1, c)
  OBVIOUS
<1>11. /\ at2 \in Place /\ Stream(queue \o b, Append(typed, e), d, at2)
       /\ at2[d + 1] = at[d + 1] /\ at[d + 1] <= Len(queue) + 1
  BY <1>5, <1>6, <1>8, <1>9, <1>10, <1>19, MoreBytes
<1>12. c \in BOOLEAN
  OBVIOUS
<1> HIDE DEF h, c, b, n
<1>13. /\ held2 \in Holding /\ caps2 \in Locking
       /\ History(Append(typed, e), held2, caps2)
       /\ held2[Len(typed) + 1] = h /\ caps2[Len(typed) + 1] = c
       /\ held2[d] = held[d] /\ caps2[d] = caps[d]
  <2>1. EventOk(e, held[Len(typed)], h, caps[Len(typed)], c)
    BY <1>4, <1>9, Zenon
  <2>2. typed \in Seq(TypedKey) /\ History(typed, held, caps) /\ h \in SUBSET Keys
    BY <1>4, <1>8, <1>9
  <2>3. held2 = Put(held, Len(typed) + 1, h) /\ caps2 = Put(caps, Len(typed) + 1, c)
    BY <1>19
  <2>4. /\ held2 \in Holding /\ caps2 \in Locking
        /\ History(Append(typed, e), held2, caps2)
        /\ held2[Len(typed) + 1] = h /\ caps2[Len(typed) + 1] = c
        /\ \A i \in 0..Len(typed) : held2[i] = held[i] /\ caps2[i] = caps[i]
    BY <1>5, <1>12, <2>1, <2>2, <2>3, MoreHistory
  <2> QED
    BY <1>8, <2>4
<1>14. /\ Len(Append(typed, e)) = Len(typed) + 1
       /\ \A i \in 1..Len(typed) : Append(typed, e)[i] = typed[i]
       /\ Append(typed, e) \in Seq(TypedKey)
  BY <1>5, <1>8, AppendProperties
<1>15. /\ queue \o b \in Seq(Nat)
       /\ \A i \in 1..Len(queue) : (queue \o b)[i] = queue[i]
  BY <1>6, <1>8, ConcatProperties
<1>16. Phase(handler, left, extended_byte, queue \o b, at2[d + 1], NextName(Append(typed, e), d))
  <2>1. ASSUME NEW j \in 1..at[d + 1] - 1, queue[j] = ACK
        PROVE  (queue \o b)[j] = ACK
    <3>1. at[d + 1] \in Int
      BY <1>8 DEF Place
    <3>2. j \in 1..Len(queue)
      BY <1>8, <1>11, <3>1
    <3> QED
      BY <1>15, <2>1, <3>2
  <2>2. NextName(typed, d) \subseteq NextName(Append(typed, e), d)
    BY <1>8, <1>14 DEF NextName
  <2> QED
    BY <1>9, <1>11, <2>1, <2>2 DEF Phase
<1>17. TypeInv'
  <2>1. UNCHANGED <<decoded, left, extended_byte, capslock_on>>
    BY <1>7 DEF driver
  <2> QED
    BY <1>1, <1>4, <1>7, <1>14, <1>15, <2>1 DEF TypeInv
<1>18. DecodedInOrder'
  <2>1. Len(typed') = Len(typed) + 1 /\ decoded' = decoded
    BY <1>7, <1>14
  <2>2. ASSUME NEW i \in 1..d
        PROVE  typed'[i] = typed[i]
    <3>1. i \in 1..Len(typed)
      BY <1>8
    <3> QED
      BY <1>7, <1>14, <3>1
  <2> QED
    BY <1>1, <1>8, <2>1, <2>2 DEF DecodedInOrder
<1>20. Tracked(at2, held2, caps2)'
  <2>1. Presses("caps")' = n
    BY <1>7 DEF Presses, PressesOf, n
  <2>2. (caps2[Len(typed')] = (Presses("caps")' % 2 = 1)) /\ held2[Len(typed')] = down'
    BY <1>7, <1>13, <1>14, <2>1 DEF c
  <2>3. UNCHANGED <<decoded, handler, left, extended_byte, capslock_on, key_pressed>>
    BY <1>7 DEF driver
  <2>4. Stream(queue', typed', Len(decoded'), at2) /\ History(typed', held2, caps2)
    BY <1>7, <1>11, <1>13, <2>3
  <2>5. Phase(handler', left', extended_byte', queue', at2[Len(decoded') + 1], NextName(typed', Len(decoded')))
    BY <1>7, <1>16, <2>3
  <2>6. Modifiers(key_pressed', capslock_on', held2[Len(decoded')], caps2[Len(decoded')])
    BY <1>9, <1>13, <2>3
  <2> QED
    BY <2>2, <2>4, <2>5, <2>6 DEF Tracked
<1> QED
  BY <1>11, <1>13, <1>17, <1>18, <1>20 DEF KeyboardInv

-----------------------------------------------------------------------------
(* The driver takes a byte without decoding an event. *)
LEMMA SkipStep ==
    ASSUME TypeInv, DecodedInOrder, NEW at \in Place, NEW held \in Holding, NEW caps \in Locking,
           Tracked(at, held, caps), queue # << >>,
           queue' = Tail(queue), UNCHANGED <<typed, down, decoded>>,
           left' \in Nat, extended_byte' \in BOOLEAN, capslock_on' \in BOOLEAN,
           Phase(handler', left', extended_byte', Tail(queue), at[Len(decoded) + 1] - 1,
                 NextName(typed, Len(decoded))),
           Modifiers(key_pressed', capslock_on', held[Len(decoded)], caps[Len(decoded)])
    PROVE  KeyboardInv'
<1> DEFINE d == Len(decoded)
<1>1. /\ queue \in Seq(Nat) /\ typed \in Seq(TypedKey) /\ decoded \in Seq(DecodedKey) /\ down \subseteq Keys
      /\ Len(typed) \in Nat /\ d \in Nat /\ d \in 0..Len(typed)
  BY Lengths DEF TypeInv
<1>2. /\ held[Len(typed)] = down /\ caps[Len(typed)] = (Presses("caps") % 2 = 1)
      /\ History(typed, held, caps) /\ Stream(queue, typed, d, at)
  BY DEF Tracked
<1>3. \A i \in 1..Len(typed) : Len(EventBytes(typed[i])) \in 1..6
  BY <1>1, <1>2, HistoryBytes
<1>4. PICK at2 : at2 = Earlier(at)
  OBVIOUS
<1>5. d \in {d, d + 1} /\ d <= Len(typed)
  BY <1>1
<1>6. at2 \in Place /\ Stream(Tail(queue), typed, d, at2)
  BY <1>1, <1>2, <1>3, <1>4, <1>5, TakeByte
<1>7. at2[d + 1] = at[d + 1] - 1
  BY <1>1, <1>4 DEF Earlier
<1>8. Tail(queue) \in Seq(Nat)
  BY <1>1, HeadTailProperties
<1>9. TypeInv' /\ DecodedInOrder'
  BY <1>1, <1>8 DEF TypeInv, DecodedInOrder
<1>10. Presses("caps")' = Presses("caps")
  BY DEF Presses
<1>11. Tracked(at2, held, caps)'
  BY <1>2, <1>6, <1>7, <1>10 DEF Tracked
<1> QED
  BY <1>6, <1>9, <1>11 DEF KeyboardInv

(* The driver decodes the next event, with the byte it takes. *)
LEMMA DecodeStep ==
    ASSUME TypeInv, DecodedInOrder, NEW at \in Place, NEW held \in Holding, NEW caps \in Locking,
           Tracked(at, held, caps), queue # << >>, Len(decoded) < Len(typed),
           queue' = Tail(queue), UNCHANGED <<typed, down>>,
           decoded' = Append(decoded, Event(typed[Len(decoded) + 1])),
           left' \in Nat, extended_byte' \in BOOLEAN, capslock_on' \in BOOLEAN,
           Phase(handler', left', extended_byte', Tail(queue), at[Len(decoded) + 2] - 1,
                 NextName(typed, Len(decoded) + 1)),
           Modifiers(key_pressed', capslock_on', held[Len(decoded) + 1], caps[Len(decoded) + 1])
    PROVE  KeyboardInv'
<1> DEFINE d == Len(decoded)
           e == typed[Len(decoded) + 1]
<1>1. /\ queue \in Seq(Nat) /\ typed \in Seq(TypedKey) /\ decoded \in Seq(DecodedKey) /\ down \subseteq Keys
      /\ Len(typed) \in Nat /\ d \in Nat /\ d \in 0..Len(typed) /\ d + 1 \in 1..Len(typed)
  BY Lengths DEF TypeInv
<1>2. /\ held[Len(typed)] = down /\ caps[Len(typed)] = (Presses("caps") % 2 = 1)
      /\ History(typed, held, caps) /\ Stream(queue, typed, d, at)
  BY DEF Tracked
<1>3. \A i \in 1..Len(typed) : Len(EventBytes(typed[i])) \in 1..6
  BY <1>1, <1>2, HistoryBytes
<1>4. PICK at2 : at2 = Earlier(at)
  OBVIOUS
<1>5. d + 1 \in {d, d + 1} /\ d + 1 <= Len(typed)
  BY <1>1
<1>6. at2 \in Place /\ Stream(Tail(queue), typed, d + 1, at2)
  BY <1>1, <1>2, <1>3, <1>4, <1>5, TakeByte
<1>7. at2[d + 1 + 1] = at[d + 2] - 1
  <2>1. d + 1 + 1 = d + 2 /\ d + 2 \in Nat
    BY <1>1
  <2> QED
    BY <1>4, <2>1 DEF Earlier
<1>8. Tail(queue) \in Seq(Nat)
  BY <1>1, HeadTailProperties
<1>9. Event(e) \in DecodedKey
  <2>1. e \in TypedKey
    BY <1>1
  <2> QED
    BY <2>1 DEF Event, Key, TypedKey, DecodedKey
<1>10. /\ decoded' \in Seq(DecodedKey) /\ Len(decoded') = d + 1
       /\ decoded'[d + 1] = Event(e) /\ \A i \in 1..d : decoded'[i] = decoded[i]
  BY <1>1, <1>9, AppendProperties
<1>11. TypeInv'
  BY <1>1, <1>8, <1>10 DEF TypeInv
<1>12. DecodedInOrder'
  <2>1. ASSUME NEW i \in 1..d + 1
        PROVE  decoded'[i] = Event(typed[i])
    <3>1. CASE i = d + 1
      BY <1>10, <3>1
    <3>2. CASE i # d + 1
      <4>1. i \in 1..d
        BY <1>1, <3>2
      <4> QED
        BY <1>10, <4>1 DEF DecodedInOrder
    <3> QED
      BY <3>1, <3>2
  <2>2. Len(decoded') <= Len(typed')
    BY <1>5, <1>10
  <2>3. \A i \in 1..Len(decoded') : decoded'[i] = Event(typed'[i])
    BY <1>10, <2>1
  <2>4. DecodedInOrder' = (Len(decoded') <= Len(typed') /\ \A i \in 1..Len(decoded') : decoded'[i] = Event(typed'[i]))
    BY DEF DecodedInOrder, Event
  <2> QED
    BY <2>2, <2>3, <2>4
<1>13. Presses("caps")' = Presses("caps")
  BY DEF Presses
<1>14. Tracked(at2, held, caps)'
  BY <1>2, <1>6, <1>7, <1>10, <1>13 DEF Tracked
<1> QED
  BY <1>6, <1>11, <1>12, <1>14 DEF KeyboardInv

(* The driver decodes the last event and sets the lights. *)
LEMMA LightsStep ==
    ASSUME TypeInv, DecodedInOrder, NEW at \in Place, NEW held \in Holding, NEW caps \in Locking,
           Tracked(at, held, caps), Len(decoded) + 1 = Len(typed),
           queue' = <<ACK>>, UNCHANGED <<typed, down>>,
           decoded' = Append(decoded, Event(typed[Len(decoded) + 1])),
           left' \in Nat, handler' = "kbd", extended_byte' = FALSE, capslock_on' \in BOOLEAN,
           Modifiers(key_pressed', capslock_on', held[Len(decoded) + 1], caps[Len(decoded) + 1])
    PROVE  KeyboardInv'
<1> DEFINE d == Len(decoded)
           e == typed[Len(decoded) + 1]
<1>1. /\ typed \in Seq(TypedKey) /\ decoded \in Seq(DecodedKey) /\ down \subseteq Keys
      /\ Len(typed) \in Nat /\ d \in Nat /\ d + 1 \in 1..Len(typed)
  BY Lengths DEF TypeInv
<1>2. /\ held[Len(typed)] = down /\ caps[Len(typed)] = (Presses("caps") % 2 = 1)
      /\ History(typed, held, caps)
  BY DEF Tracked
<1>3. PICK at2 : at2 = [n \in Nat |-> 2]
  OBVIOUS
<1>4. at2 \in Place /\ \A n \in Nat : at2[n] = 2
  BY <1>3 DEF Place
<1>5. ACK \in Nat /\ <<ACK>> \in Seq(Nat) /\ Len(<<ACK>>) = 1 /\ <<ACK>>[1] = ACK
  BY Constants
<1>6. Stream(<<ACK>>, typed, d + 1, at2)
  BY <1>1, <1>4, <1>5 DEF Stream
<1>7. Event(e) \in DecodedKey
  <2>1. e \in TypedKey
    BY <1>1
  <2> QED
    BY <2>1 DEF Event, Key, TypedKey, DecodedKey
<1>8. /\ decoded' \in Seq(DecodedKey) /\ Len(decoded') = d + 1
      /\ decoded'[d + 1] = Event(e) /\ \A i \in 1..d : decoded'[i] = decoded[i]
  BY <1>1, <1>7, AppendProperties
<1>9. TypeInv'
  BY <1>1, <1>5, <1>8 DEF TypeInv
<1>10. DecodedInOrder'
  <2>1. ASSUME NEW i \in 1..d + 1
        PROVE  decoded'[i] = Event(typed[i])
    <3>1. CASE i = d + 1
      BY <1>8, <3>1
    <3>2. CASE i # d + 1
      <4>1. i \in 1..d
        BY <1>1, <3>2
      <4> QED
        BY <1>8, <4>1 DEF DecodedInOrder
    <3> QED
      BY <3>1, <3>2
  <2>2. Len(decoded') <= Len(typed')
    BY <1>1, <1>8
  <2>3. \A i \in 1..Len(decoded') : decoded'[i] = Event(typed'[i])
    BY <1>8, <2>1
  <2>4. DecodedInOrder' = (Len(decoded') <= Len(typed') /\ \A i \in 1..Len(decoded') : decoded'[i] = Event(typed'[i]))
    BY DEF DecodedInOrder, Event
  <2> QED
    BY <2>2, <2>3, <2>4
<1>11. Presses("caps")' = Presses("caps")
  BY DEF Presses
<1>12. Phase(handler', left', extended_byte', <<ACK>>, at2[d + 1 + 1], NextName(typed, d + 1))
  <2>1. at2[d + 1 + 1] = 2
    BY <1>1, <1>4
  <2>2. \A j \in 1..2 - 1 : <<ACK>>[j] = ACK
    BY <1>5
  <2> QED
    BY <2>1, <2>2 DEF Phase
<1>13. Tracked(at2, held, caps)'
  BY <1>2, <1>6, <1>8, <1>11, <1>12 DEF Tracked
<1> QED
  BY <1>4, <1>9, <1>10, <1>13 DEF KeyboardInv

-----------------------------------------------------------------------------
(* What the byte that the driver takes is. *)
LEMMA FirstByte ==
    ASSUME NEW q \in Seq(Nat), q # << >>, NEW t \in Seq(TypedKey), NEW d \in 0..Len(t), NEW at \in Place,
           Stream(q, t, d, at), \A i \in 1..Len(t) : Len(EventBytes(t[i])) \in 1..6
    PROVE  /\ at[d + 1] \in Int
           /\ at[d + 1] = 1 => d < Len(t) /\ Head(q) = EventBytes(t[d + 1])[1]
           /\ (d < Len(t) /\ at[d + 1] = 0 /\ Len(EventBytes(t[d + 1])) >= 2) => Head(q) = EventBytes(t[d + 1])[2]
           /\ (at[d + 1] >= 2 /\ \A j \in 1..at[d + 1] - 1 : q[j] = ACK) => Head(q) = ACK
           /\ d < Len(t) => at[d + 2] = at[d + 1] + Len(EventBytes(t[d + 1]))
           /\ (d < Len(t) /\ at[d + 2] = Len(q) + 1) => d + 1 = Len(t)
<1>1. Len(t) \in Nat /\ Len(q) \in Nat /\ Len(q) >= 1 /\ d \in Nat /\ d <= Len(t) /\ Head(q) = q[1]
  <2>1. Len(q) \in Nat /\ Len(q) # 0 /\ Head(q) = q[1]
    BY LenProperties, EmptySeq, HeadTailProperties
  <2> QED
    BY <2>1, LenProperties
<1>2. at[d + 1] \in Int /\ at[d + 2] \in Int /\ at[Len(t) + 1] = Len(q) + 1
  BY <1>1 DEF Place, Stream
<1>3. ASSUME at[d + 1] = 1
      PROVE  d < Len(t)
  <2>1. CASE d = Len(t)
    BY <1>1, <1>2, <1>3, <2>1
  <2> QED
    BY <1>1, <2>1
<1>4. ASSUME d < Len(t)
      PROVE  /\ at[d + 2] = at[d + 1] + Len(EventBytes(t[d + 1])) /\ HoldsAt(q, EventBytes(t[d + 1]), at[d + 1])
             /\ Len(EventBytes(t[d + 1])) \in 1..6
  <2>1. d + 1 \in d + 1..Len(t) /\ d + 1 \in 1..Len(t) /\ d + 1 + 1 = d + 2
    BY <1>1, <1>4
  <2> QED
    BY <2>1 DEF Stream
<1>5. ASSUME at[d + 1] = 1
      PROVE  Head(q) = EventBytes(t[d + 1])[1]
  <2>1. HoldsAt(q, EventBytes(t[d + 1]), 1) /\ Len(EventBytes(t[d + 1])) \in 1..6
    BY <1>3, <1>4, <1>5
  <2>2. 1 \in 1..Len(EventBytes(t[d + 1])) /\ 1 + 1 - 1 >= 1 /\ 1 + 1 - 1 = 1
    <3>1. 1 \in 1..Len(EventBytes(t[d + 1]))
      BY <2>1, OneToSix, Zenon
    <3> QED
      BY <3>1
  <2>3. q[1 + 1 - 1] = EventBytes(t[d + 1])[1]
    BY <2>1, <2>2 DEF HoldsAt
  <2> QED
    BY <1>1, <2>2, <2>3
<1>6. ASSUME d < Len(t), at[d + 1] = 0, Len(EventBytes(t[d + 1])) >= 2
      PROVE  Head(q) = EventBytes(t[d + 1])[2]
  <2>1. HoldsAt(q, EventBytes(t[d + 1]), 0) /\ Len(EventBytes(t[d + 1])) \in 1..6
    BY <1>4, <1>6
  <2>2. 2 \in 1..Len(EventBytes(t[d + 1])) /\ 0 + 2 - 1 >= 1 /\ 0 + 2 - 1 = 1
    BY <1>6, <2>1
  <2>3. q[0 + 2 - 1] = EventBytes(t[d + 1])[2]
    BY <2>1, <2>2 DEF HoldsAt
  <2> QED
    BY <1>1, <2>2, <2>3
<1>7. ASSUME at[d + 1] >= 2, \A j \in 1..at[d + 1] - 1 : q[j] = ACK
      PROVE  Head(q) = ACK
  <2>1. 1 \in 1..at[d + 1] - 1
    BY <1>2, <1>7
  <2> QED
    BY <1>1, <1>7, <2>1
<1>8. ASSUME d < Len(t), at[d + 2] = Len(q) + 1
      PROVE  d + 1 = Len(t)
  <2>1. CASE d + 1 < Len(t)
    <3>1. d + 2 \in d + 1..Len(t) + 1 /\ Len(t) + 1 \in d + 1..Len(t) + 1 /\ d + 2 < Len(t) + 1
      BY <1>1, <2>1
    <3>2. at[d + 2] < at[Len(t) + 1]
      BY <3>1 DEF Stream
    <3> QED
      BY <1>1, <1>2, <1>8, <3>2
  <2> QED
    BY <1>1, <1>8, <2>1
<1> QED
  BY <1>2, <1>3, <1>4, <1>5, <1>6, <1>7, <1>8

(* Which events begin with which byte. *)
LEMMA BytesTell ==
    ASSUME NEW e \in TypedKey, e.name = "pause" => ~e.released
    PROVE  /\ e.name \in PlainKeys =>
                /\ Len(EventBytes(e)) = 1
                /\ EventBytes(e)[1] = Code[e.name] + (IF e.released THEN 128 ELSE 0)
           /\ e.name = "pause" => Len(EventBytes(e)) = 6 /\ EventBytes(e)[1] = PAUSE_1ST /\ e.released = FALSE
           /\ e.name = "right" =>
                /\ Len(EventBytes(e)) = 2 /\ EventBytes(e)[1] = EXTENDED
                /\ EventBytes(e)[2] = 77 + (IF e.released THEN 128 ELSE 0)
           /\ e.name = "print" =>
                /\ Len(EventBytes(e)) = 4 /\ EventBytes(e)[1] = EXTENDED
                /\ EventBytes(e)[2] = (IF e.released THEN PRINT_RELEASED ELSE PRINT_PRESSED)
           /\ e.name \in PlainKeys \cup {"pause", "right", "print"}
<1>1. e.name \in KeyNames /\ e.released \in BOOLEAN
  BY BytesOfEvent
<1>2. e.name \in PlainKeys =>
        Len(EventBytes(e)) = 1 /\ EventBytes(e)[1] = Code[e.name] + (IF e.released THEN 128 ELSE 0)
  BY <1>1, OneByte DEF EventBytes
<1>3. ASSUME e.name = "pause"
      PROVE  Len(EventBytes(e)) = 6 /\ EventBytes(e)[1] = PAUSE_1ST /\ e.released = FALSE
  <2>1. e.released = FALSE
    BY <1>1, <1>3
  <2>2. EventBytes(e) = Bytes("pause", FALSE)
    BY <1>3, <2>1, Zenon DEF EventBytes
  <2> QED
    BY <2>1, <2>2, PauseBytes, Zenon
<1>4. ASSUME e.name = "right"
      PROVE  /\ Len(EventBytes(e)) = 2 /\ EventBytes(e)[1] = EXTENDED
             /\ EventBytes(e)[2] = 77 + (IF e.released THEN 128 ELSE 0)
  <2>1. EventBytes(e) = Bytes("right", e.released)
    BY <1>4 DEF EventBytes
  <2> QED
    BY <1>1, <2>1, RightBytes, ZenonT(40)
<1>5. ASSUME e.name = "print"
      PROVE  /\ Len(EventBytes(e)) = 4 /\ EventBytes(e)[1] = EXTENDED
             /\ EventBytes(e)[2] = (IF e.released THEN PRINT_RELEASED ELSE PRINT_PRESSED)
  <2>1. EventBytes(e) = Bytes("print", e.released)
    BY <1>5 DEF EventBytes
  <2> QED
    BY <1>1, <2>1, PrintBytes, Zenon
<1>6. e.name \in PlainKeys \cup {"pause", "right", "print"}
  BY <1>1 DEF KeyNames, PlainKeys
<1> QED
  BY <1>2, <1>3, <1>4, <1>5, <1>6, Zenon

(* A byte of a key that has one byte, as kbd_handler takes it apart. *)
LEMMA PlainByte ==
    ASSUME NEW k \in PlainKeys, NEW r \in BOOLEAN, NEW b, b = Code[k] + (IF r THEN 128 ELSE 0)
    PROVE  /\ b \in Nat /\ b # EXTENDED /\ b # PAUSE_1ST /\ b # ACK
           /\ (b >= 128) = r
           /\ b % 128 = Code[k] /\ ~(b % 128 > 88)
           /\ keycode[b % 128] = KeyCode(k)
<1>1. CASE k = "a"
  BY <1>1, Codes, Constants, Keycodes, KeyCodes
<1>2. CASE k = "one"
  BY <1>2, Codes, Constants, Keycodes, KeyCodes
<1>3. CASE k = "enter"
  BY <1>3, Codes, Constants, Keycodes, KeyCodes
<1>4. CASE k = "shift"
  BY <1>4, Codes, Constants, Keycodes, KeyCodes
<1>5. CASE k = "rshift"
  BY <1>5, Codes, Constants, Keycodes, KeyCodes
<1>6. CASE k = "caps"
  BY <1>6, Codes, Constants, Keycodes, KeyCodes
<1> QED
  BY <1>1, <1>2, <1>3, <1>4, <1>5, <1>6 DEF PlainKeys

(* The shift keys after a key of one byte, or the arrow. *)
LEMMA ShiftsAfter ==
    ASSUME NEW k \in PlainKeys \cup {"right"}, NEW r \in BOOLEAN, NEW kp, NEW h,
           NEW e, e.name = k, e.released = r,
           LSHIFT \in kp <=> "shift" \in h, RSHIFT \in kp <=> "rshift" \in h
    PROVE  LET kp2 == IF r THEN kp \ {KeyCode(k)} ELSE kp \cup {KeyCode(k)}
           IN /\ LSHIFT \in kp2 <=> "shift" \in HeldAfter(h, e)
              /\ RSHIFT \in kp2 <=> "rshift" \in HeldAfter(h, e)
<1>1. /\ k # "pause" /\ (KeyCode(k) = LSHIFT <=> k = "shift") /\ (KeyCode(k) = RSHIFT <=> k = "rshift")
  BY KeyCodes, Constants DEF PlainKeys
<1>2. HeldAfter(h, e) = IF r THEN h \ {k} ELSE h \cup {k}
  BY <1>1 DEF HeldAfter
<1> QED
  BY <1>1, <1>2

LEMMA ShiftHeld ==
    ASSUME NEW kp, NEW h, LSHIFT \in kp <=> "shift" \in h, RSHIFT \in kp <=> "rshift" \in h
    PROVE  (kp \cap {LSHIFT, RSHIFT} # {}) = Shift(h)
BY DEF Shift

-----------------------------------------------------------------------------
(* What is known when the driver is about to take a byte. *)
LEMMA BeforeByte ==
    ASSUME TypeInv, DecodedInOrder, NEW at \in Place, NEW held \in Holding, NEW caps \in Locking,
           Tracked(at, held, caps), queue # << >>
    PROVE  LET d == Len(decoded)
               e == typed[d + 1]
               next == at[d + 1]
           IN /\ d \in Nat /\ Len(typed) \in Nat /\ Len(queue) \in Nat /\ next \in Int
              /\ next = 1 => d < Len(typed) /\ Head(queue) = EventBytes(e)[1]
              /\ (d < Len(typed) /\ next = 0 /\ Len(EventBytes(e)) >= 2) => Head(queue) = EventBytes(e)[2]
              /\ (next >= 2 /\ \A j \in 1..next - 1 : queue[j] = ACK) => Head(queue) = ACK
              /\ d < Len(typed) => /\ at[d + 2] = next + Len(EventBytes(e))
                                  /\ EventOk(e, held[d], held[d + 1], caps[d], caps[d + 1])
                                  /\ e \in TypedKey /\ (e.name = "pause" => ~e.released)
              /\ (d < Len(typed) /\ at[d + 2] = Len(queue) + 1) => d + 1 = Len(typed)
              /\ Phase(handler, left, extended_byte, queue, next, NextName(typed, d))
              /\ Modifiers(key_pressed, capslock_on, held[d], caps[d])
              /\ \A j \in 1..Len(queue) - 1 : Tail(queue)[j] = queue[j + 1]
<1> DEFINE d == Len(decoded)
           e == typed[d + 1]
           next == at[d + 1]
<1>1. /\ queue \in Seq(Nat) /\ typed \in Seq(TypedKey)
      /\ Len(typed) \in Nat /\ d \in Nat /\ d \in 0..Len(typed) /\ Len(queue) \in Nat
  BY Lengths DEF TypeInv
<1>2. /\ History(typed, held, caps) /\ Stream(queue, typed, d, at)
      /\ Phase(handler, left, extended_byte, queue, next, NextName(typed, d))
      /\ Modifiers(key_pressed, capslock_on, held[d], caps[d])
  BY DEF Tracked
<1>3. \A i \in 1..Len(typed) : Len(EventBytes(typed[i])) \in 1..6
  BY <1>1, <1>2, HistoryBytes
<1>4. /\ next \in Int
      /\ next = 1 => d < Len(typed) /\ Head(queue) = EventBytes(e)[1]
      /\ (d < Len(typed) /\ next = 0 /\ Len(EventBytes(e)) >= 2) => Head(queue) = EventBytes(e)[2]
      /\ (next >= 2 /\ \A j \in 1..next - 1 : queue[j] = ACK) => Head(queue) = ACK
      /\ d < Len(typed) => at[d + 2] = next + Len(EventBytes(e))
      /\ (d < Len(typed) /\ at[d + 2] = Len(queue) + 1) => d + 1 = Len(typed)
  BY <1>1, <1>2, <1>3, FirstByte
<1>5. ASSUME d < Len(typed)
      PROVE  /\ EventOk(e, held[d], held[d + 1], caps[d], caps[d + 1])
             /\ e \in TypedKey /\ (e.name = "pause" => ~e.released)
  <2>1. d + 1 \in 1..Len(typed) /\ d + 1 - 1 = d
    BY <1>1, <1>5
  <2>2. EventOk(e, held[d], held[d + 1], caps[d], caps[d + 1])
    BY <1>2, <2>1 DEF History
  <2> QED
    BY <2>2 DEF EventOk
<1>6. \A j \in 1..Len(queue) - 1 : Tail(queue)[j] = queue[j + 1]
  BY <1>1, HeadTailProperties
<1> QED
  BY <1>1, <1>2, <1>4, <1>5, <1>6

(* The branches of Irq. *)
LEMMA IrqBranches ==
    ASSUME Irq
    PROVE  /\ queue # << >> /\ UNCHANGED <<typed, down>>
           /\ handler = "trash" => Trash
           /\ (handler = "kbd" /\ Head(queue) = EXTENDED) => Prefix
           /\ (handler = "kbd" /\ Head(queue) = PAUSE_1ST) => PausePressed
           /\ (handler = "kbd" /\ Head(queue) \notin {EXTENDED, PAUSE_1ST}
                  /\ extended_byte /\ Head(queue) \in {PRINT_PRESSED, PRINT_RELEASED}) => PrintScreen(Head(queue))
           /\ (handler = "kbd" /\ Head(queue) \notin {EXTENDED, PAUSE_1ST}
                  /\ ~(extended_byte /\ Head(queue) \in {PRINT_PRESSED, PRINT_RELEASED})) => OrdinaryKey(Head(queue))
<1>1. EXTENDED # PAUSE_1ST /\ EXTENDED \notin {PRINT_PRESSED, PRINT_RELEASED} /\ PAUSE_1ST \notin {PRINT_PRESSED, PRINT_RELEASED}
  BY Constants
<1>2. "trash" # "kbd"
  OBVIOUS
<1> QED
  BY <1>1, <1>2 DEF Irq

LEMMA TrashStep ==
    ASSUME KeyboardInv, Irq, handler = "trash"
    PROVE  KeyboardInv'
<1>1. TypeInv /\ DecodedInOrder
  BY DEF KeyboardInv
<1>2. PICK at \in Place, held \in Holding, caps \in Locking : Tracked(at, held, caps)
  BY DEF KeyboardInv
<1> DEFINE d == Len(decoded)
           next == at[d + 1]
<1>3. Trash /\ queue # << >> /\ UNCHANGED <<typed, down>>
  BY IrqBranches
<1>4. /\ Phase(handler, left, extended_byte, queue, next, NextName(typed, d))
      /\ Modifiers(key_pressed, capslock_on, held[d], caps[d])
  BY <1>1, <1>2, <1>3, BeforeByte
<1>5. ~extended_byte /\ left >= 1 /\ next = left + 1 /\ left \in Nat
  BY <1>1, <1>4 DEF Phase, TypeInv
<1>6. /\ queue' = Tail(queue) /\ left' = left - 1 /\ handler' = (IF left = 1 THEN "kbd" ELSE "trash")
      /\ UNCHANGED <<extended_byte, key_pressed, capslock_on, decoded>>
  BY <1>3 DEF Trash
<1>7. Phase(handler', left', extended_byte', Tail(queue), next - 1, NextName(typed, d))
  <2>1. CASE left = 1
    BY <1>5, <1>6, <2>1 DEF Phase
  <2>2. CASE left # 1
    BY <1>5, <1>6, <2>2 DEF Phase
  <2> QED
    BY <2>1, <2>2
<1>8. left' \in Nat /\ extended_byte' \in BOOLEAN /\ capslock_on' \in BOOLEAN
  BY <1>1, <1>5, <1>6 DEF TypeInv
<1>9. Modifiers(key_pressed', capslock_on', held[d], caps[d])
  BY <1>4, <1>6
<1> QED
  BY <1>1, <1>2, <1>3, <1>6, <1>7, <1>8, <1>9, SkipStep

LEMMA TwoOrFour ==
    ASSUME NEW n, n = 2 \/ n = 4
    PROVE  n >= 2
OBVIOUS

(* A byte that kbd_handler takes is an acknowledgement, or the first byte   *)
(* of the next event, or the second if the prefix has been taken.           *)
LEMMA ByteKinds ==
    ASSUME TypeInv, DecodedInOrder, NEW at \in Place, NEW held \in Holding, NEW caps \in Locking,
           Tracked(at, held, caps), queue # << >>, handler = "kbd"
    PROVE  LET d == Len(decoded)
               e == typed[d + 1]
               next == at[d + 1]
           IN \/ /\ ~extended_byte /\ next >= 2 /\ Head(queue) = ACK
                 /\ \A j \in 1..next - 1 : queue[j] = ACK
              \/ /\ ~extended_byte /\ next = 1 /\ d < Len(typed)
                 /\ Head(queue) = EventBytes(e)[1]
              \/ /\ extended_byte /\ next = 0 /\ d < Len(typed)
                 /\ e.name \in {"right", "print"} /\ Head(queue) = EventBytes(e)[2]
<1> DEFINE d == Len(decoded)
           e == typed[d + 1]
           next == at[d + 1]
<1>1. /\ d \in Nat /\ Len(typed) \in Nat /\ next \in Int
      /\ next = 1 => d < Len(typed) /\ Head(queue) = EventBytes(e)[1]
      /\ (d < Len(typed) /\ next = 0 /\ Len(EventBytes(e)) >= 2) => Head(queue) = EventBytes(e)[2]
      /\ (next >= 2 /\ \A j \in 1..next - 1 : queue[j] = ACK) => Head(queue) = ACK
      /\ d < Len(typed) => e \in TypedKey /\ (e.name = "pause" => ~e.released)
      /\ Phase(handler, left, extended_byte, queue, next, NextName(typed, d))
  BY BeforeByte
<1>2. CASE ~extended_byte
  <2>1. next >= 1 /\ \A j \in 1..next - 1 : queue[j] = ACK
    BY <1>1, <1>2 DEF Phase
  <2>2. next = 1 \/ next >= 2
    BY <1>1, <2>1
  <2> QED
    BY <1>1, <1>2, <2>1, <2>2
<1>3. CASE extended_byte
  <2>1. next = 0 /\ NextName(typed, d) \cap {"right", "print"} # {}
    BY <1>1, <1>3 DEF Phase
  <2>2. d < Len(typed) /\ e.name \in {"right", "print"}
    BY <2>1 DEF NextName
  <2>3. Len(EventBytes(e)) >= 2
    <3>1. (e.name = "right" => Len(EventBytes(e)) = 2) /\ (e.name = "print" => Len(EventBytes(e)) = 4)
      BY <1>1, <2>2, BytesTell, Zenon
    <3>2. Len(EventBytes(e)) = 2 \/ Len(EventBytes(e)) = 4
      BY <2>2, <3>1, Zenon
    <3> QED
      BY <3>2, TwoOrFour, Zenon
  <2> QED
    BY <1>1, <1>3, <2>1, <2>2, <2>3
<1> QED
  BY <1>2, <1>3 DEF TypeInv

(* The bytes that are not of a key with one byte. *)
LEMMA NotPlain ==
    ASSUME NEW e \in TypedKey, e.name = "pause" => ~e.released
    PROVE  /\ EventBytes(e)[1] = EXTENDED => e.name \in {"right", "print"}
           /\ EventBytes(e)[1] = PAUSE_1ST => e.name = "pause"
           /\ EventBytes(e)[1] \notin {EXTENDED, PAUSE_1ST} => e.name \in PlainKeys
           /\ e.name \in {"right", "print"} => EventBytes(e)[2] \notin {EXTENDED, PAUSE_1ST, ACK}
           /\ e.name \in {"right", "print"} =>
                (e.name = "print" <=> EventBytes(e)[2] \in {PRINT_PRESSED, PRINT_RELEASED})
<1>1. e.name \in PlainKeys \cup {"pause", "right", "print"} /\ e.released \in BOOLEAN
  BY BytesTell, BytesOfEvent
<1>2. e.name \in PlainKeys => EventBytes(e)[1] # EXTENDED /\ EventBytes(e)[1] # PAUSE_1ST
  <2> SUFFICES ASSUME e.name \in PlainKeys
               PROVE  EventBytes(e)[1] # EXTENDED /\ EventBytes(e)[1] # PAUSE_1ST
    OBVIOUS
  <2>1. EventBytes(e)[1] = Code[e.name] + (IF e.released THEN 128 ELSE 0)
    BY BytesTell, Zenon
  <2>2. PICK b : b = EventBytes(e)[1]
    OBVIOUS
  <2>3. PICK k \in PlainKeys, r \in BOOLEAN : k = e.name /\ r = e.released
    BY <1>1
  <2>4. b = Code[k] + (IF r THEN 128 ELSE 0)
    BY <2>1, <2>2, <2>3, Zenon
  <2>5. b # EXTENDED /\ b # PAUSE_1ST
    BY <2>3, <2>4, PlainByte, ZenonT(40)
  <2> QED
    BY <2>2, <2>5, Zenon
<1>3. e.name \in {"right", "print"} => EventBytes(e)[1] = EXTENDED
  BY BytesTell
<1>4. e.name = "pause" => EventBytes(e)[1] = PAUSE_1ST
  BY BytesTell
<1>5. e.name = "right" => EventBytes(e)[2] \in {77, 205}
  <2> SUFFICES ASSUME e.name = "right"
               PROVE  EventBytes(e)[2] \in {77, 205}
    OBVIOUS
  <2>1. EventBytes(e)[2] = 77 + (IF e.released THEN 128 ELSE 0)
    BY BytesTell, Zenon
  <2> QED
    BY <1>1, <2>1
<1>6. e.name = "print" => EventBytes(e)[2] \in {42, 183}
  BY <1>1, BytesTell, Constants
<1>7. EXTENDED # PAUSE_1ST
  BY Constants
<1>8. e.name \in {"right", "print"} =>
        /\ EventBytes(e)[2] \notin {EXTENDED, PAUSE_1ST, ACK}
        /\ (e.name = "print" <=> EventBytes(e)[2] \in {PRINT_PRESSED, PRINT_RELEASED})
  BY <1>5, <1>6, Constants
<1> QED
  BY <1>1, <1>2, <1>3, <1>4, <1>7, <1>8

LEMMA PrefixStep ==
    ASSUME KeyboardInv, Irq, handler = "kbd", Head(queue) = EXTENDED
    PROVE  KeyboardInv'
<1>1. TypeInv /\ DecodedInOrder
  BY DEF KeyboardInv
<1>2. PICK at \in Place, held \in Holding, caps \in Locking : Tracked(at, held, caps)
  BY DEF KeyboardInv
<1> DEFINE d == Len(decoded)
           e == typed[d + 1]
           next == at[d + 1]
<1>3. Prefix /\ queue # << >> /\ UNCHANGED <<typed, down>>
  BY IrqBranches
<1>4. /\ d < Len(typed) => e \in TypedKey /\ (e.name = "pause" => ~e.released)
      /\ Modifiers(key_pressed, capslock_on, held[d], caps[d])
  BY <1>1, <1>2, <1>3, BeforeByte
<1>5. \/ Head(queue) = ACK
      \/ next = 1 /\ d < Len(typed) /\ Head(queue) = EventBytes(e)[1]
      \/ d < Len(typed) /\ e.name \in {"right", "print"} /\ Head(queue) = EventBytes(e)[2]
  BY <1>1, <1>2, <1>3, ByteKinds
<1>6. next = 1 /\ d < Len(typed) /\ e.name \in {"right", "print"}
  <2>1. EXTENDED # ACK
    BY Constants
  <2> QED
    BY <1>4, <1>5, <2>1, NotPlain
<1>7. /\ queue' = Tail(queue) /\ extended_byte' = TRUE
      /\ UNCHANGED <<handler, left, key_pressed, capslock_on, decoded>>
  BY <1>3 DEF Prefix
<1>8. Phase(handler', left', extended_byte', Tail(queue), next - 1, NextName(typed, d))
  <2>1. next - 1 = 0 /\ NextName(typed, d) = {e.name}
    BY <1>6 DEF NextName
  <2>2. NextName(typed, d) \cap {"right", "print"} # {}
    BY <1>6, <2>1
  <2> QED
    BY <1>7, <2>1, <2>2 DEF Phase
<1>9. left' \in Nat /\ extended_byte' \in BOOLEAN /\ capslock_on' \in BOOLEAN
  BY <1>1, <1>7 DEF TypeInv
<1>10. Modifiers(key_pressed', capslock_on', held[d], caps[d])
  BY <1>4, <1>7
<1> QED
  BY <1>1, <1>2, <1>3, <1>7, <1>8, <1>9, <1>10, SkipStep

LEMMA PauseStep ==
    ASSUME KeyboardInv, Irq, handler = "kbd", Head(queue) = PAUSE_1ST
    PROVE  KeyboardInv'
<1>1. TypeInv /\ DecodedInOrder
  BY DEF KeyboardInv
<1>2. PICK at \in Place, held \in Holding, caps \in Locking : Tracked(at, held, caps)
  BY DEF KeyboardInv
<1> DEFINE d == Len(decoded)
           e == typed[d + 1]
           next == at[d + 1]
<1>3. PausePressed /\ queue # << >> /\ UNCHANGED <<typed, down>>
  BY IrqBranches
<1>4. /\ d < Len(typed) => /\ e \in TypedKey /\ (e.name = "pause" => ~e.released)
                          /\ EventOk(e, held[d], held[d + 1], caps[d], caps[d + 1])
                          /\ at[d + 2] = next + Len(EventBytes(e))
      /\ Modifiers(key_pressed, capslock_on, held[d], caps[d])
  BY <1>1, <1>2, <1>3, BeforeByte
<1>5. \/ Head(queue) = ACK
      \/ next = 1 /\ d < Len(typed) /\ Head(queue) = EventBytes(e)[1]
      \/ d < Len(typed) /\ e.name \in {"right", "print"} /\ Head(queue) = EventBytes(e)[2]
  BY <1>1, <1>2, <1>3, ByteKinds
<1>6. next = 1 /\ d < Len(typed) /\ e.name = "pause"
  <2>1. PAUSE_1ST # ACK
    BY Constants
  <2> QED
    BY <1>4, <1>5, <2>1, NotPlain
<1>7. /\ queue' = Tail(queue) /\ extended_byte' = FALSE /\ handler' = "trash" /\ left' = 5
      /\ decoded' = Append(decoded, Key(PAUSE, NUL, FALSE))
      /\ UNCHANGED <<key_pressed, capslock_on>>
  BY <1>3 DEF PausePressed, Discard, Store
<1>8. at[d + 2] = 7 /\ e.released = FALSE
  <2>1. Len(EventBytes(e)) = 6 /\ e.released = FALSE
    BY <1>4, <1>6, BytesTell, Zenon
  <2> QED
    BY <1>4, <1>6, <2>1
<1>9. Event(e) = Key(PAUSE, NUL, FALSE)
  <2>1. e.keycode = 98 /\ PAUSE = 98
    BY <1>4, <1>6, KeyCodes, Constants DEF EventOk
  <2>2. Big(e.keycode, Shift(held[d + 1]), caps[d + 1]) \in BOOLEAN
    BY <1>2, <1>6, Lengths, <1>1 DEF Big, Shift, Locking
  <2>3. e.mapped = NUL
    BY <1>4, <1>6, <2>1, <2>2, NoCharacter DEF EventOk
  <2> QED
    BY <1>8, <2>1, <2>3 DEF Event
<1>10. held[d + 1] = held[d] /\ caps[d + 1] = caps[d]
  BY <1>4, <1>6, <1>8 DEF EventOk, HeldAfter, CapsAfter
<1>11. Phase(handler', left', extended_byte', Tail(queue), at[d + 2] - 1, NextName(typed, d + 1))
  BY <1>7, <1>8 DEF Phase
<1>12. left' \in Nat /\ extended_byte' \in BOOLEAN /\ capslock_on' \in BOOLEAN
  BY <1>1, <1>7 DEF TypeInv
<1>13. Modifiers(key_pressed', capslock_on', held[d + 1], caps[d + 1])
  BY <1>4, <1>7, <1>10
<1>14. decoded' = Append(decoded, Event(e))
  BY <1>7, <1>9
<1> QED
  BY <1>1, <1>2, <1>3, <1>6, <1>7, <1>11, <1>12, <1>13, <1>14, DecodeStep

LEMMA PrintStep ==
    ASSUME KeyboardInv, Irq, handler = "kbd", Head(queue) \notin {EXTENDED, PAUSE_1ST},
           extended_byte, Head(queue) \in {PRINT_PRESSED, PRINT_RELEASED}
    PROVE  KeyboardInv'
<1>1. TypeInv /\ DecodedInOrder
  BY DEF KeyboardInv
<1>2. PICK at \in Place, held \in Holding, caps \in Locking : Tracked(at, held, caps)
  BY DEF KeyboardInv
<1> DEFINE d == Len(decoded)
           e == typed[d + 1]
           next == at[d + 1]
           b == Head(queue)
<1>3. PrintScreen(b) /\ queue # << >> /\ UNCHANGED <<typed, down>>
  BY IrqBranches
<1>4. /\ d < Len(typed) => /\ e \in TypedKey /\ (e.name = "pause" => ~e.released)
                          /\ EventOk(e, held[d], held[d + 1], caps[d], caps[d + 1])
                          /\ at[d + 2] = next + Len(EventBytes(e))
      /\ Modifiers(key_pressed, capslock_on, held[d], caps[d])
      /\ d \in Nat
  BY <1>1, <1>2, <1>3, BeforeByte
<1>5. next = 0 /\ d < Len(typed) /\ e.name \in {"right", "print"} /\ b = EventBytes(e)[2]
  BY <1>1, <1>2, <1>3, ByteKinds
<1>6. e.name = "print"
  BY <1>4, <1>5, NotPlain
<1>7. e.released \in BOOLEAN
  BY <1>4, <1>5 DEF TypedKey
<1>8. Len(EventBytes(e)) = 4 /\ b = (IF e.released THEN PRINT_RELEASED ELSE PRINT_PRESSED)
  BY <1>4, <1>5, <1>6, BytesTell, Zenon
<1>9. (b = PRINT_RELEASED) = e.released /\ (b = PRINT_PRESSED) = ~e.released
  BY <1>7, <1>8, Constants
<1>10. at[d + 2] = 4
  BY <1>4, <1>5, <1>8
<1>11. /\ queue' = Tail(queue) /\ extended_byte' = FALSE /\ handler' = "trash" /\ left' = 2
       /\ decoded' = Append(decoded, Key(PRINTSCREEN, NUL, b = PRINT_RELEASED))
       /\ key_pressed' = (IF b = PRINT_PRESSED THEN key_pressed \cup {110} ELSE key_pressed \ {110})
       /\ UNCHANGED capslock_on
  BY <1>3 DEF PrintScreen, Discard, Store
<1>12. Event(e) = Key(PRINTSCREEN, NUL, b = PRINT_RELEASED)
  <2>1. e.keycode = 96 /\ PRINTSCREEN = 96
    BY <1>4, <1>5, <1>6, KeyCodes, Constants DEF EventOk
  <2>2. Big(e.keycode, Shift(held[d + 1]), caps[d + 1]) \in BOOLEAN
    BY <1>2, <1>4 DEF Big, Shift, Locking
  <2>3. e.mapped = NUL
    BY <1>4, <1>5, <2>1, <2>2, NoCharacter DEF EventOk
  <2> QED
    BY <1>9, <2>1, <2>3, Zenon DEF Event
<1>13. /\ "shift" \in held[d + 1] <=> "shift" \in held[d]
       /\ "rshift" \in held[d + 1] <=> "rshift" \in held[d]
       /\ caps[d + 1] = caps[d]
  <2>1. held[d + 1] = HeldAfter(held[d], e) /\ caps[d + 1] = CapsAfter(caps[d], e)
    BY <1>4, <1>5 DEF EventOk
  <2> QED
    BY <1>6, <2>1 DEF HeldAfter, CapsAfter
<1>14. Modifiers(key_pressed', capslock_on', held[d + 1], caps[d + 1])
  BY <1>4, <1>11, <1>13, Constants DEF Modifiers
<1>15. Phase(handler', left', extended_byte', Tail(queue), at[d + 2] - 1, NextName(typed, d + 1))
  BY <1>10, <1>11 DEF Phase
<1>16. left' \in Nat /\ extended_byte' \in BOOLEAN /\ capslock_on' \in BOOLEAN
  BY <1>1, <1>11 DEF TypeInv
<1>17. decoded' = Append(decoded, Event(e))
  BY <1>11, <1>12
<1> QED
  BY <1>1, <1>2, <1>3, <1>5, <1>11, <1>14, <1>15, <1>16, <1>17, DecodeStep

(* What OrdinaryKey does, the keycode given. *)
Ordinary(b, kcode) ==
    LET released == b >= 128
        pressed == IF released THEN key_pressed \ {kcode} ELSE key_pressed \cup {kcode}
        led == kcode \in {CAPSLOCK, SCROLLLOCK} /\ ~released
        caps == IF kcode = CAPSLOCK /\ ~released THEN ~capslock_on ELSE capslock_on
        key == Key(kcode, Mapped(kcode, pressed, caps), released)
    IN /\ astray' = (astray \/ (led /\ Len(queue) > 1) \/ (b = ACK /\ kcode \in key_pressed))
       /\ key_pressed' = pressed
       /\ capslock_on' = caps
       /\ queue' = IF led THEN AfterLed ELSE Tail(queue)
       /\ current_key' = key
       /\ decoded' = IF b = ACK THEN decoded ELSE Append(decoded, key)
       /\ latest_key_handled' = FALSE
       /\ extended_byte' = FALSE
       /\ UNCHANGED <<handler, left>>

LEMMA OrdinaryIs ==
    ASSUME NEW b, OrdinaryKey(b)
    PROVE  \E kcode \in IF b % 128 > 88 /\ ~extended_byte THEN STRAY
                        ELSE {IF extended_byte THEN keycode_extended_byte[b % 128] ELSE keycode[b % 128]} :
              Ordinary(b, kcode)
BY Zenon DEF OrdinaryKey, Ordinary

(* An acknowledgement. *)
LEMMA AckStep ==
    ASSUME ~astray', TypeInv, DecodedInOrder, NEW at \in Place, NEW held \in Holding, NEW caps \in Locking,
           Tracked(at, held, caps), queue # << >>, UNCHANGED <<typed, down>>, handler = "kbd",
           ~extended_byte, at[Len(decoded) + 1] >= 2, \A j \in 1..at[Len(decoded) + 1] - 1 : queue[j] = ACK,
           OrdinaryKey(ACK)
    PROVE  KeyboardInv'
<1> DEFINE d == Len(decoded)
           next == at[d + 1]
<1>1. ACK % 128 > 88 /\ ACK >= 128
  BY Constants
<1>2. PICK kcode \in STRAY : Ordinary(ACK, kcode)
  BY <1>1, OrdinaryIs
<1>3. kcode \notin key_pressed
  BY <1>2, Zenon DEF Ordinary
<1>4. /\ queue' = Tail(queue) /\ key_pressed' = key_pressed \ {kcode} /\ decoded' = decoded
      /\ capslock_on' = capslock_on /\ extended_byte' = FALSE /\ UNCHANGED <<handler, left>>
  BY <1>1, <1>2 DEF Ordinary
<1>5. /\ next \in Int /\ Len(queue) \in Nat /\ d \in Nat
      /\ Modifiers(key_pressed, capslock_on, held[d], caps[d])
      /\ \A j \in 1..Len(queue) - 1 : Tail(queue)[j] = queue[j + 1]
  BY BeforeByte
<1>6. Modifiers(key_pressed', capslock_on', held[d], caps[d])
  BY <1>3, <1>4, <1>5 DEF Modifiers
<1>7. next <= Len(queue) + 1
  <2>1. Stream(queue, typed, d, at) /\ Len(typed) \in Nat /\ d <= Len(typed)
    BY Lengths DEF Tracked
  <2>2. at[Len(typed) + 1] = Len(queue) + 1
    BY <2>1 DEF Stream
  <2>3. CASE d = Len(typed)
    BY <1>5, <2>2, <2>3
  <2>4. CASE d < Len(typed)
    <3>1. d + 1 \in d + 1..Len(typed) + 1 /\ Len(typed) + 1 \in d + 1..Len(typed) + 1 /\ d + 1 < Len(typed) + 1
      BY <1>5, <2>1, <2>4
    <3>2. next < at[Len(typed) + 1]
      BY <2>1, <3>1 DEF Stream
    <3> QED
      BY <1>5, <2>2, <3>2
  <2> QED
    BY <1>5, <2>1, <2>3, <2>4
<1>8. ASSUME NEW j \in 1..next - 1 - 1
      PROVE  Tail(queue)[j] = ACK
  <2>1. j \in 1..Len(queue) - 1 /\ j + 1 \in 1..next - 1
    BY <1>5, <1>7
  <2> QED
    BY <1>5, <2>1
<1>9. Phase(handler', left', extended_byte', Tail(queue), next - 1, NextName(typed, d))
  <2>1. next - 1 >= 1
    BY <1>5
  <2> QED
    BY <1>4, <1>8, <2>1 DEF Phase
<1>10. left' \in Nat /\ extended_byte' \in BOOLEAN /\ capslock_on' \in BOOLEAN
  BY <1>4 DEF TypeInv
<1> QED
  BY <1>4, <1>6, <1>9, <1>10, SkipStep

(* The driver's modifiers after event e. *)
Pressed(e, kp) == IF e.released THEN kp \ {KeyCode(e.name)} ELSE kp \cup {KeyCode(e.name)}
Toggled(e, on) == IF KeyCode(e.name) = CAPSLOCK /\ ~e.released THEN ~on ELSE on

(* Byte b says whether the key of event e was released. *)
Announces(b, e) == ((b >= 128) = e.released) /\ b # ACK

(* The key that the driver makes of an event, and its modifiers then. *)
LEMMA KeyIsEvent ==
    ASSUME NEW e \in TypedKey, NEW h0, NEW h1, NEW c0 \in BOOLEAN, NEW c1,
           EventOk(e, h0, h1, c0, c1), e.name \in PlainKeys \cup {"right"},
           NEW kp, NEW on, Modifiers(kp, on, h0, c0)
    PROVE  /\ Modifiers(Pressed(e, kp), Toggled(e, on), h1, c1)
           /\ Key(KeyCode(e.name), Mapped(KeyCode(e.name), Pressed(e, kp), Toggled(e, on)), e.released) = Event(e)
           /\ Toggled(e, on) \in BOOLEAN
<1> DEFINE kcode == KeyCode(e.name)
           pressed == Pressed(e, kp)
           caps1 == Toggled(e, on)
<1>1. /\ e.released \in BOOLEAN /\ e.name \in KeyNames
      /\ h1 = HeldAfter(h0, e) /\ c1 = CapsAfter(c0, e) /\ e.keycode = kcode
      /\ e.mapped = MapKey(kcode, Big(kcode, Shift(h1), c1))
  BY DEF EventOk, TypedKey, PlainKeys, KeyNames
<1>2. /\ LSHIFT \in kp <=> "shift" \in h0
      /\ RSHIFT \in kp <=> "rshift" \in h0
      /\ on = c0
  BY DEF Modifiers
<1>3. kcode = CAPSLOCK <=> e.name = "caps"
  BY KeyCodes, Constants DEF PlainKeys
<1>4. caps1 = c1 /\ c1 \in BOOLEAN
  BY <1>1, <1>2, <1>3 DEF CapsAfter, Toggled
<1>5. /\ LSHIFT \in pressed <=> "shift" \in h1
      /\ RSHIFT \in pressed <=> "rshift" \in h1
  BY <1>1, <1>2, ShiftsAfter DEF Pressed
<1> HIDE DEF pressed, caps1, kcode
<1>6. (pressed \cap {LSHIFT, RSHIFT} # {}) = Shift(h1)
  BY <1>5, ShiftHeld
<1>7. Mapped(kcode, pressed, caps1) = MapKey(kcode, Big(kcode, pressed \cap {LSHIFT, RSHIFT} # {}, caps1))
  BY <1>1, <1>4, MappedIs DEF kcode
<1>8. Mapped(kcode, pressed, caps1) = e.mapped
  BY <1>1, <1>4, <1>6, <1>7, Zenon
<1>9. Key(kcode, Mapped(kcode, pressed, caps1), e.released) = Event(e)
  BY <1>1, <1>8, Zenon DEF Event
<1>10. Modifiers(pressed, caps1, h1, c1)
  BY <1>4, <1>5, Zenon DEF Modifiers
<1> QED
  BY <1>4, <1>9, <1>10 DEF kcode, pressed, caps1

(* What Ordinary leaves behind it, for such a key. *)
LEMMA OrdinaryLeaves ==
    ASSUME NEW b, NEW e \in TypedKey, Ordinary(b, KeyCode(e.name)), Announces(b, e),
           NEW h0, NEW h1, NEW c0 \in BOOLEAN, NEW c1,
           EventOk(e, h0, h1, c0, c1), e.name \in PlainKeys \cup {"right"},
           Modifiers(key_pressed, capslock_on, h0, c0)
    PROVE  /\ Modifiers(key_pressed', capslock_on', h1, c1)
           /\ decoded' = Append(decoded, Event(e))
           /\ capslock_on' \in BOOLEAN /\ extended_byte' = FALSE /\ UNCHANGED <<handler, left>>
           /\ \/ queue' = Tail(queue)
              \/ queue' = <<ACK>> /\ (astray' \/ ~(Len(queue) > 1))
<1> DEFINE kcode == KeyCode(e.name)
           key == Key(kcode, Mapped(kcode, Pressed(e, key_pressed), Toggled(e, capslock_on)), e.released)
           led == kcode \in {CAPSLOCK, SCROLLLOCK} /\ ~e.released
<1>1. (b >= 128) = e.released /\ b # ACK
  BY DEF Announces
<1>2. /\ led => astray' \/ ~(Len(queue) > 1)
      /\ key_pressed' = Pressed(e, key_pressed)
      /\ capslock_on' = Toggled(e, capslock_on)
      /\ queue' = (IF led THEN AfterLed ELSE Tail(queue))
      /\ decoded' = Append(decoded, key)
      /\ extended_byte' = FALSE
      /\ UNCHANGED <<handler, left>>
  BY <1>1, Zenon DEF Ordinary, Pressed, Toggled
<1>3. /\ Modifiers(Pressed(e, key_pressed), Toggled(e, capslock_on), h1, c1)
      /\ key = Event(e)
      /\ Toggled(e, capslock_on) \in BOOLEAN
  BY KeyIsEvent
<1> HIDE DEF key, led
<1> QED
  BY <1>2, <1>3 DEF AfterLed

(* The second byte of the arrow key. *)
LEMMA ArrowStep ==
    ASSUME TypeInv, DecodedInOrder, NEW at \in Place, NEW held \in Holding, NEW caps \in Locking,
           Tracked(at, held, caps), queue # << >>, UNCHANGED <<typed, down>>, handler = "kbd",
           extended_byte, at[Len(decoded) + 1] = 0, Len(decoded) < Len(typed),
           typed[Len(decoded) + 1].name = "right", Head(queue) = EventBytes(typed[Len(decoded) + 1])[2],
           OrdinaryKey(Head(queue))
    PROVE  KeyboardInv'
<1> DEFINE d == Len(decoded)
           e == typed[d + 1]
           b == Head(queue)
<1>1. /\ e \in TypedKey /\ (e.name = "pause" => ~e.released)
      /\ EventOk(e, held[d], held[d + 1], caps[d], caps[d + 1])
      /\ at[d + 2] = 0 + Len(EventBytes(e)) /\ d \in Nat
      /\ Modifiers(key_pressed, capslock_on, held[d], caps[d])
  BY BeforeByte
<1>2. e.released \in BOOLEAN /\ Len(EventBytes(e)) = 2 /\ b = 77 + (IF e.released THEN 128 ELSE 0)
  <2>1. Len(EventBytes(e)) = 2 /\ b = 77 + (IF e.released THEN 128 ELSE 0)
    BY <1>1, BytesTell, Zenon
  <2> QED
    BY <1>1, <2>1 DEF TypedKey
<1>3. (b >= 128) = e.released /\ b % 128 = 77 /\ b # ACK
  BY <1>2, Constants
<1>4. Ordinary(b, KeyCode(e.name)) /\ Announces(b, e)
  <2>1. keycode_extended_byte[77] = KeyCode("right")
    BY Keycodes, KeyCodes
  <2> QED
    BY <1>3, <2>1, OrdinaryIs DEF Announces
<1>5. /\ Modifiers(key_pressed', capslock_on', held[d + 1], caps[d + 1])
      /\ decoded' = Append(decoded, Event(e))
      /\ capslock_on' \in BOOLEAN /\ extended_byte' = FALSE /\ UNCHANGED <<handler, left>>
  <2>1. caps[d] \in BOOLEAN /\ e.name \in PlainKeys \cup {"right"}
    BY <1>1 DEF Locking
  <2> QED
    BY <1>1, <1>4, <2>1, OrdinaryLeaves
<1>6. queue' = Tail(queue)
  <2>1. KeyCode(e.name) \notin {CAPSLOCK, SCROLLLOCK}
    BY KeyCodes, Constants
  <2> QED
    BY <1>4, <2>1 DEF Ordinary
<1>7. Phase(handler', left', extended_byte', Tail(queue), at[d + 2] - 1, NextName(typed, d + 1))
  <2>1. at[d + 2] - 1 = 1
    BY <1>1, <1>2
  <2>2. \A j \in 1..1 - 1 : Tail(queue)[j] = ACK
    OBVIOUS
  <2> QED
    BY <1>5, <2>1, <2>2 DEF Phase
<1>8. left' \in Nat /\ extended_byte' \in BOOLEAN
  BY <1>5 DEF TypeInv
<1> QED
  BY <1>5, <1>6, <1>7, <1>8, DecodeStep

LEMMA LastByte ==
    ASSUME NEW q \in Seq(Nat), q # << >>, ~(Len(q) > 1)
    PROVE  Len(q) = 1
<1> DEFINE n == Len(q)
<1>1. n # 0
  BY LenProperties, EmptySeq
<1>2. n \in Nat /\ ~(n > 1)
  BY LenProperties
<1> HIDE DEF n
<1>3. n = 1
  BY <1>1, <1>2
<1> QED
  BY <1>3 DEF n

(* The byte of a key that has one. *)
LEMMA PlainStep ==
    ASSUME ~astray', TypeInv, DecodedInOrder, NEW at \in Place, NEW held \in Holding, NEW caps \in Locking,
           Tracked(at, held, caps), queue # << >>, UNCHANGED <<typed, down>>, handler = "kbd",
           ~extended_byte, at[Len(decoded) + 1] = 1, Len(decoded) < Len(typed),
           Head(queue) = EventBytes(typed[Len(decoded) + 1])[1], Head(queue) \notin {EXTENDED, PAUSE_1ST},
           OrdinaryKey(Head(queue))
    PROVE  KeyboardInv'
<1> DEFINE d == Len(decoded)
           e == typed[d + 1]
           b == Head(queue)
<1>1. /\ e \in TypedKey /\ (e.name = "pause" => ~e.released)
      /\ EventOk(e, held[d], held[d + 1], caps[d], caps[d + 1])
      /\ at[d + 2] = 1 + Len(EventBytes(e)) /\ d \in Nat /\ Len(typed) \in Nat
      /\ at[d + 2] = Len(queue) + 1 => d + 1 = Len(typed)
      /\ Modifiers(key_pressed, capslock_on, held[d], caps[d])
  BY BeforeByte
<1>2. e.name \in PlainKeys /\ e.released \in BOOLEAN
  BY <1>1, NotPlain DEF TypedKey
<1>3. Len(EventBytes(e)) = 1 /\ b = Code[e.name] + (IF e.released THEN 128 ELSE 0)
  BY <1>1, <1>2, BytesTell, Zenon
<1>4. b # ACK /\ (b >= 128) = e.released /\ ~(b % 128 > 88) /\ keycode[b % 128] = KeyCode(e.name)
  <2>1. PICK k, r, c : k \in PlainKeys /\ r \in BOOLEAN /\ k = e.name /\ r = e.released /\ c = b
    BY <1>2, Zenon
  <2>2. c = Code[k] + (IF r THEN 128 ELSE 0)
    BY <1>3, <2>1, Zenon
  <2>3. c # ACK /\ (c >= 128) = r /\ ~(c % 128 > 88) /\ keycode[c % 128] = KeyCode(k)
    BY <2>1, <2>2, PlainByte, SMTT(30)
  <2> QED
    BY <2>1, <2>3, Zenon
<1>5. Ordinary(b, KeyCode(e.name)) /\ Announces(b, e)
  <2>1. \E kcode \in {keycode[b % 128]} : Ordinary(b, kcode)
    BY <1>4, OrdinaryIs
  <2> QED
    BY <1>4, <2>1 DEF Announces
<1>6. /\ Modifiers(key_pressed', capslock_on', held[d + 1], caps[d + 1])
      /\ decoded' = Append(decoded, Event(e))
      /\ capslock_on' \in BOOLEAN /\ extended_byte' = FALSE /\ UNCHANGED <<handler, left>>
      /\ \/ queue' = Tail(queue)
         \/ queue' = <<ACK>> /\ (astray' \/ ~(Len(queue) > 1))
  <2>1. caps[d] \in BOOLEAN /\ e.name \in PlainKeys \cup {"right"}
    BY <1>1, <1>2 DEF Locking
  <2> QED
    BY <1>1, <1>5, <2>1, OrdinaryLeaves
<1>7. left' \in Nat /\ extended_byte' \in BOOLEAN
  BY <1>6 DEF TypeInv
<1>8. CASE queue' = Tail(queue)
  <2>1. at[d + 2] - 1 = 1
    BY <1>1, <1>3
  <2>2. \A j \in 1..1 - 1 : Tail(queue)[j] = ACK
    OBVIOUS
  <2>3. Phase(handler', left', extended_byte', Tail(queue), at[d + 2] - 1, NextName(typed, d + 1))
    BY <1>6, <2>1, <2>2 DEF Phase
  <2> QED
    BY <1>6, <1>7, <1>8, <2>3, DecodeStep
<1>9. CASE queue' = <<ACK>> /\ (astray' \/ ~(Len(queue) > 1))
  <2>1. Len(queue) = 1
    <3>1. queue \in Seq(Nat) /\ ~(Len(queue) > 1)
      BY <1>9 DEF TypeInv
    <3> QED
      BY <3>1, LastByte
  <2>2. d + 1 = Len(typed)
    BY <1>1, <1>3, <2>1
  <2> QED
    BY <1>6, <1>7, <1>9, <2>2, LightsStep
<1> QED
  BY <1>6, <1>8, <1>9

LEMMA OrdinaryStep ==
    ASSUME ~astray', KeyboardInv, Irq, handler = "kbd", Head(queue) \notin {EXTENDED, PAUSE_1ST},
           ~(extended_byte /\ Head(queue) \in {PRINT_PRESSED, PRINT_RELEASED})
    PROVE  KeyboardInv'
<1>1. TypeInv /\ DecodedInOrder
  BY DEF KeyboardInv
<1>2. PICK at \in Place, held \in Holding, caps \in Locking : Tracked(at, held, caps)
  BY DEF KeyboardInv
<1> DEFINE d == Len(decoded)
           e == typed[d + 1]
           next == at[d + 1]
<1>3. OrdinaryKey(Head(queue)) /\ queue # << >> /\ UNCHANGED <<typed, down>>
  BY IrqBranches
<1>4. d < Len(typed) => e \in TypedKey /\ (e.name = "pause" => ~e.released)
  BY <1>1, <1>2, <1>3, BeforeByte
<1>5. \/ /\ ~extended_byte /\ next >= 2 /\ Head(queue) = ACK
         /\ \A j \in 1..next - 1 : queue[j] = ACK
      \/ ~extended_byte /\ next = 1 /\ d < Len(typed) /\ Head(queue) = EventBytes(e)[1]
      \/ /\ extended_byte /\ next = 0 /\ d < Len(typed)
         /\ e.name \in {"right", "print"} /\ Head(queue) = EventBytes(e)[2]
  BY <1>1, <1>2, <1>3, ByteKinds
<1>6. CASE ~extended_byte /\ next >= 2 /\ Head(queue) = ACK /\ \A j \in 1..next - 1 : queue[j] = ACK
  BY <1>1, <1>2, <1>3, <1>6, AckStep
<1>7. CASE ~extended_byte /\ next = 1 /\ d < Len(typed) /\ Head(queue) = EventBytes(e)[1]
  BY <1>1, <1>2, <1>3, <1>7, PlainStep
<1>8. CASE /\ extended_byte /\ next = 0 /\ d < Len(typed)
           /\ e.name \in {"right", "print"} /\ Head(queue) = EventBytes(e)[2]
  <2>1. e.name = "right"
    BY <1>4, <1>8, NotPlain
  <2> QED
    BY <1>1, <1>2, <1>3, <1>8, <2>1, ArrowStep
<1> QED
  BY <1>5, <1>6, <1>7, <1>8

LEMMA IrqStep ==
    ASSUME ~astray', KeyboardInv, Irq
    PROVE  KeyboardInv'
<1>1. handler \in {"kbd", "trash"}
  <2>1. PICK at \in Place, held \in Holding, caps \in Locking : Tracked(at, held, caps)
    BY DEF KeyboardInv
  <2> QED
    BY <2>1 DEF Tracked, Phase
<1> QED
  BY <1>1, TrashStep, PrefixStep, PauseStep, PrintStep, OrdinaryStep

(* Steps that change nothing that the invariant is about. *)
LEMMA OtherStep ==
    ASSUME KeyboardInv, UNCHANGED <<queue, down, typed, driver, decoded>>
    PROVE  KeyboardInv'
<1>1. UNCHANGED <<queue, down, typed, handler, left, extended_byte, key_pressed, capslock_on, decoded>>
  BY DEF driver
<1>2. TypeInv' /\ DecodedInOrder'
  BY <1>1 DEF KeyboardInv, TypeInv, DecodedInOrder
<1>3. PICK at \in Place, held \in Holding, caps \in Locking : Tracked(at, held, caps)
  BY DEF KeyboardInv
<1>4. Presses("caps")' = Presses("caps")
  BY <1>1 DEF Presses
<1>5. Tracked(at, held, caps)'
  BY <1>1, <1>3, <1>4 DEF Tracked
<1> QED
  BY <1>2, <1>5 DEF KeyboardInv

LEMMA KeyboardInit ==
    ASSUME Init
    PROVE  KeyboardInv
<1>1. /\ down = {} /\ typed = << >> /\ decoded = << >> /\ handler = "kbd" /\ left = 0
      /\ extended_byte = FALSE /\ key_pressed = {} /\ capslock_on = FALSE
      /\ queue \in {<< >>, <<ACK, ACK>>}
  BY DEF Init, Unread
<1>2. ACK \in Nat
  BY Constants
<1>3. queue \in Seq(Nat) /\ Len(queue) \in Nat /\ \A j \in 1..Len(queue) : queue[j] = ACK
  <2>1. CASE queue = << >>
    BY <2>1
  <2>2. CASE queue = <<ACK, ACK>>
    BY <1>2, <2>2
  <2> QED
    BY <1>1, <2>1, <2>2
<1>4. Len(typed) = 0 /\ Len(decoded) = 0 /\ typed \in Seq(TypedKey) /\ decoded \in Seq(DecodedKey)
  BY <1>1
<1>5. TypeInv /\ DecodedInOrder
  <2>1. TypeInv
    BY <1>1, <1>3, <1>4 DEF TypeInv
  <2>2. Len(decoded) <= Len(typed) /\ 1..Len(decoded) = {}
    BY <1>4
  <2>3. DecodedInOrder
    BY <2>2, Zenon DEF DecodedInOrder
  <2> QED
    BY <2>1, <2>3
<1>6. PICK at, held, caps : /\ at = [n \in Nat |-> Len(queue) + 1]
                            /\ held = [n \in Nat |-> {}] /\ caps = [n \in Nat |-> FALSE]
  OBVIOUS
<1>7. /\ at \in Place /\ held \in Holding /\ caps \in Locking
      /\ at[1] = Len(queue) + 1 /\ held[0] = {} /\ caps[0] = FALSE
  BY <1>3, <1>6 DEF Place, Holding, Locking
<1>8. (Presses("caps") % 2 = 1) = FALSE
  <2>1. {i \in 1..Len(typed) : typed[i].name = "caps" /\ ~typed[i].released} = {}
    BY <1>4
  <2>2. Presses("caps") = 0
    BY <2>1, FS_EmptySet DEF Presses
  <2> QED
    BY <2>2
<1>9. History(typed, held, caps)
  BY <1>4 DEF History
<1>10. Stream(queue, typed, 0, at)
  <2>1. at[Len(typed) + 1] = Len(queue) + 1
    BY <1>4, <1>7
  <2> QED
    BY <1>4, <2>1 DEF Stream
<1>11. Phase(handler, left, extended_byte, queue, at[0 + 1], NextName(typed, 0))
  <2>1. at[0 + 1] = Len(queue) + 1 /\ at[0 + 1] >= 1
    BY <1>3, <1>7
  <2>2. \A j \in 1..at[0 + 1] - 1 : queue[j] = ACK
    BY <1>3, <2>1
  <2> QED
    BY <1>1, <2>1, <2>2 DEF Phase
<1>12. Modifiers(key_pressed, capslock_on, held[0], caps[0])
  BY <1>1, <1>7 DEF Modifiers
<1>13. Tracked(at, held, caps)
  BY <1>1, <1>4, <1>7, <1>8, <1>9, <1>10, <1>11, <1>12 DEF Tracked
<1> QED
  BY <1>5, <1>7, <1>13 DEF KeyboardInv

LEMMA AstrayStays ==
    ASSUME ~astray', [Next]_vars
    PROVE  ~astray
<1>1. CASE Irq
  <2>1. Trash \/ Prefix \/ PausePressed \/ PrintScreen(Head(queue)) \/ OrdinaryKey(Head(queue))
    BY <1>1 DEF Irq
  <2>2. CASE OrdinaryKey(Head(queue))
    BY <2>2, OrdinaryIs, Zenon DEF Ordinary
  <2> QED
    BY <2>1, <2>2 DEF Trash, Prefix, PausePressed, PrintScreen
<1>2. CASE ~Irq
  BY <1>2 DEF Next, Type, Tick, Thread, WaitBegins, Check, Halt, Take, Copy, vars
<1> QED
  BY <1>1, <1>2

LEMMA KeyboardStays ==
    ASSUME ~astray', KeyboardInv, [Next]_vars
    PROVE  KeyboardInv'
<1>1. CASE \E k \in Keys, r \in BOOLEAN : Type(k, r)
  BY <1>1, TypeStep
<1>2. CASE Irq
  BY <1>2, IrqStep
<1>3. CASE Tick \/ Thread \/ UNCHANGED vars
  <2>1. UNCHANGED <<queue, down, typed, driver, decoded>>
    BY <1>3 DEF Tick, Thread, WaitBegins, Check, Halt, Take, Copy, vars
  <2> QED
    BY <2>1, OtherStep
<1> QED
  BY <1>1, <1>2, <1>3 DEF Next

LEMMA KeyboardSafe ==
    ASSUME KeyboardInv
    PROVE  DecodedInOrder /\ InStep
<1>1. TypeInv /\ DecodedInOrder
  BY DEF KeyboardInv
<1>2. PICK at \in Place, held \in Holding, caps \in Locking : Tracked(at, held, caps)
  BY DEF KeyboardInv
<1> DEFINE d == Len(decoded)
           next == at[d + 1]
<1>3. ASSUME queue = << >>
      PROVE  /\ handler = "kbd" /\ ~extended_byte
             /\ LSHIFT \in key_pressed <=> "shift" \in down
             /\ RSHIFT \in key_pressed <=> "rshift" \in down
             /\ capslock_on = (Presses("caps") % 2 = 1)
  <2>1. /\ Len(typed) \in Nat /\ d \in Nat /\ d <= Len(typed) /\ typed \in Seq(TypedKey) /\ Len(queue) = 0
    BY <1>1, <1>3, Lengths DEF TypeInv
  <2>2. /\ held[Len(typed)] = down /\ caps[Len(typed)] = (Presses("caps") % 2 = 1)
        /\ History(typed, held, caps) /\ Stream(queue, typed, d, at)
        /\ Phase(handler, left, extended_byte, queue, next, NextName(typed, d))
        /\ Modifiers(key_pressed, capslock_on, held[d], caps[d])
    BY <1>2 DEF Tracked
  <2>3. next \in Int /\ at[d + 2] \in Int /\ at[Len(typed) + 1] = 1
    BY <1>2, <2>1, <2>2 DEF Place, Stream
  <2>4. d < Len(typed) => next < 1
    <3>1. d < Len(typed) => /\ d + 1 \in d + 1..Len(typed) + 1 /\ Len(typed) + 1 \in d + 1..Len(typed) + 1
                            /\ d + 1 < Len(typed) + 1
      BY <2>1
    <3>2. \A i, j \in d + 1..Len(typed) + 1 : i < j => at[i] < at[j]
      BY <2>2 DEF Stream
    <3> QED
      BY <2>3, <3>1, <3>2
  <2>5. d = Len(typed) => next = 1
    BY <2>3
  <2>6. ~(next = 0 /\ d < Len(typed) /\ NextName(typed, d) \cap {"right", "print"} # {})
    <3> SUFFICES ASSUME next = 0, d < Len(typed), NextName(typed, d) \cap {"right", "print"} # {}
                 PROVE  FALSE
      OBVIOUS
    <3> DEFINE e == typed[d + 1]
    <3>1. e.name \in {"right", "print"} /\ d + 1 \in 1..Len(typed) /\ d + 1 \in d + 1..Len(typed) /\ d + 1 + 1 = d + 2
      BY <2>1 DEF NextName
    <3>2. e \in TypedKey /\ (e.name = "pause" => ~e.released)
      BY <2>1, <2>2, <3>1, HistoryBytes
    <3>3. Len(EventBytes(e)) = 2 \/ Len(EventBytes(e)) = 4
      BY <3>1, <3>2, BytesTell, Zenon
    <3>4. at[d + 2] = next + Len(EventBytes(e))
      BY <2>2, <3>1 DEF Stream
    <3>5. at[d + 2] <= 1
      <4>1. queue \in Seq(Nat) /\ d \in 0..Len(typed)
        BY <1>1, Lengths DEF TypeInv
      <4>2. at[d + 1 + 1] <= Len(queue) + 1
        BY <2>1, <2>2, <3>1, <4>1, InQueue
      <4> QED
        BY <2>1, <2>3, <3>1, <4>2
    <3>6. Len(EventBytes(e)) >= 2
      BY <3>3, TwoOrFour, Zenon
    <3>7. at[d + 2] = 0 + Len(EventBytes(e))
      BY <3>4, Zenon
    <3> HIDE DEF e, next
    <3> QED
      BY <2>3, <3>5, <3>6, <3>7
  <2>7. handler = "kbd" /\ ~extended_byte /\ next >= 1
    BY <2>1, <2>2, <2>3, <2>4, <2>5, <2>6, <1>1 DEF Phase, NextName, TypeInv
  <2>8. d = Len(typed)
    BY <2>1, <2>3, <2>4, <2>7
  <2> QED
    BY <2>2, <2>7, <2>8 DEF Modifiers
<1> QED
  BY <1>1, <1>3 DEF InStep

(* What is typed is what the driver decodes, key by key and in order, with  *)
(* the characters that the modifiers ask for, and when every byte is read   *)
(* the driver is in step: for any keys, any number of events, any           *)
(* interleaving of keyboard, interrupts and thread, and whatever lies past  *)
(* the end of keycode[], until kbd_set_led drops a byte of a key or its     *)
(* second acknowledgement releases one (kbd_handler, kbd_set_led,           *)
(* kbd_trash_int_handler).                                                  *)
THEOREM KeysAreDecoded == KeyboardSpec => []KeysDecoded
<1>1. Init => (astray \/ KeyboardInv)
  BY KeyboardInit
<1>2. (astray \/ KeyboardInv) /\ [Next]_vars => (astray \/ KeyboardInv)'
  BY AstrayStays, KeyboardStays
<1>3. (astray \/ KeyboardInv) => KeysDecoded
  BY KeyboardSafe DEF KeysDecoded
<1> QED
  BY <1>1, <1>2, <1>3, PTL DEF KeyboardSpec

-----------------------------------------------------------------------------
(* From here to the end: the key that the thread is given.  When it is      *)
(* about to take one, current_key was stored after the wait began, or is a  *)
(* release (an acknowledgement counts as one), which it drops.              *)
Fresh ==
    \/ current_key.released
    \/ Len(decoded) > since /\ current_key = decoded[Len(decoded)]

IsKey(key) == \E k, m, r : key = Key(k, m, r)

WaitInv ==
    /\ \E S : decoded \in Seq(S)
    /\ \E S : out \in Seq(S)
    /\ since \in Nat /\ since <= Len(decoded)
    /\ IsKey(current_key) /\ IsKey(taken)
    /\ (pc \in {"take", "copy"} \/ (pc \in {"check", "halting", "hlt"} /\ ~latest_key_handled)) => Fresh

LEMMA AppendAny ==
    ASSUME NEW q, NEW x, \E S : q \in Seq(S)
    PROVE  /\ \E S : Append(q, x) \in Seq(S)
           /\ Len(q) \in Nat /\ Len(Append(q, x)) = Len(q) + 1 /\ Append(q, x)[Len(q) + 1] = x
<1>1. PICK S : q \in Seq(S)
  OBVIOUS
<1> DEFINE R == S \cup {x}
<1>2. q \in Seq(R) /\ x \in R
  BY <1>1
<1> HIDE DEF R
<1>3. Append(q, x) \in Seq(R) /\ Len(Append(q, x)) = Len(q) + 1 /\ Append(q, x)[Len(q) + 1] = x /\ Len(q) \in Nat
  BY <1>2, AppendProperties, LenProperties
<1> QED
  BY <1>3

(* An interrupt leaves current_key and decoded alone, or stores a new key   *)
(* in both, or reads an acknowledgement.                                    *)
LEMMA IrqStores ==
    ASSUME Irq
    PROVE  /\ UNCHANGED <<since, taken, out>>
           /\ pc' = IF pc = "hlt" THEN "check" ELSE pc
           /\ \/ UNCHANGED <<current_key, decoded, latest_key_handled>>
              \/ \E key : IsKey(key) /\ current_key' = key /\ decoded' = Append(decoded, key)
              \/ IsKey(current_key') /\ current_key'.released /\ UNCHANGED decoded
<1>1. UNCHANGED <<since, taken, out>> /\ pc' = IF pc = "hlt" THEN "check" ELSE pc
  BY DEF Irq
<1>2. Trash \/ Prefix \/ PausePressed \/ PrintScreen(Head(queue)) \/ OrdinaryKey(Head(queue))
  BY DEF Irq
<1>3. CASE Trash \/ Prefix
  BY <1>1, <1>3 DEF Trash, Prefix
<1>4. CASE PausePressed \/ PrintScreen(Head(queue))
  BY <1>1, <1>4, Zenon DEF PausePressed, PrintScreen, Store, IsKey
<1>5. CASE OrdinaryKey(Head(queue))
  <2>1. PICK kcode : Ordinary(Head(queue), kcode)
    BY <1>5, OrdinaryIs
  <2>2. PICK key : /\ IsKey(key) /\ current_key' = key /\ key.released = (Head(queue) >= 128)
                   /\ decoded' = (IF Head(queue) = ACK THEN decoded ELSE Append(decoded, key))
    <3> DEFINE r == Head(queue) >= 128
               p == IF r THEN key_pressed \ {kcode} ELSE key_pressed \cup {kcode}
               c == IF kcode = CAPSLOCK /\ ~r THEN ~capslock_on ELSE capslock_on
               key1 == Key(kcode, Mapped(kcode, p, c), r)
    <3>1. /\ current_key' = key1
          /\ decoded' = (IF Head(queue) = ACK THEN decoded ELSE Append(decoded, key1))
      BY <2>1, Zenon DEF Ordinary
    <3>2. key1.released = r
      <4> HIDE DEF r, p, c
      <4> QED
        BY DEF Key
    <3>3. IsKey(key1)
      BY Zenon DEF IsKey
    <3> HIDE DEF key1
    <3> QED
      BY <3>1, <3>2, <3>3, Zenon
  <2>3. CASE Head(queue) = ACK
    <3>1. ACK >= 128
      BY Constants
    <3> QED
      BY <1>1, <2>2, <2>3, <3>1
  <2>4. CASE Head(queue) # ACK
    BY <1>1, <2>2, <2>4
  <2> QED
    BY <2>3, <2>4
<1> QED
  BY <1>2, <1>3, <1>4, <1>5

LEMMA WaitStays ==
    ASSUME WaitInv, [Next]_vars
    PROVE  WaitInv'
<1> USE DEF WaitInv
<1>1. Len(decoded) \in Nat /\ since \in Nat
  BY LenProperties
<1>2. CASE Irq
  <2>1. /\ since' = since /\ out' = out /\ taken' = taken /\ pc' = IF pc = "hlt" THEN "check" ELSE pc
        /\ \/ UNCHANGED <<current_key, decoded, latest_key_handled>>
           \/ \E key : IsKey(key) /\ current_key' = key /\ decoded' = Append(decoded, key)
           \/ IsKey(current_key') /\ current_key'.released /\ UNCHANGED decoded
    BY <1>2, IrqStores
  <2>2. CASE UNCHANGED <<current_key, decoded, latest_key_handled>>
    <3>1. Fresh' = Fresh
      BY <2>1, <2>2 DEF Fresh
    <3> QED
      BY <2>1, <2>2, <3>1
  <2>3. CASE \E key : IsKey(key) /\ current_key' = key /\ decoded' = Append(decoded, key)
    <3>1. PICK key : IsKey(key) /\ current_key' = key /\ decoded' = Append(decoded, key)
      BY <2>3
    <3>2. /\ \E S : decoded' \in Seq(S)
          /\ Len(decoded') = Len(decoded) + 1 /\ decoded'[Len(decoded) + 1] = key
      BY <3>1, AppendAny
    <3>3. Fresh' /\ since' <= Len(decoded')
      BY <1>1, <2>1, <3>1, <3>2 DEF Fresh
    <3> QED
      BY <2>1, <3>1, <3>2, <3>3
  <2>4. CASE IsKey(current_key') /\ current_key'.released /\ UNCHANGED decoded
    <3>1. Fresh'
      BY <2>4 DEF Fresh
    <3> QED
      BY <2>1, <2>4, <3>1
  <2> QED
    BY <2>1, <2>2, <2>3, <2>4
<1>3. CASE WaitBegins
  BY <1>1, <1>3 DEF WaitBegins, Goto, driver
<1>4. CASE Copy
  <2>1. /\ pc' = "idle" /\ UNCHANGED <<decoded, since, current_key, taken>>
        /\ \E key : out' = out \/ out' = Append(out, key)
    BY <1>4 DEF Copy, Goto, driver
  <2>2. \E S : out' \in Seq(S)
    <3>1. PICK key : out' = out \/ out' = Append(out, key)
      BY <2>1
    <3>2. \E S : out \in Seq(S)
      OBVIOUS
    <3>3. \E S : Append(out, key) \in Seq(S)
      BY <3>2, AppendAny, Zenon
    <3> QED
      BY <3>1, <3>2, <3>3
  <2> QED
    BY <2>1, <2>2
<1>5. CASE Check \/ Halt \/ Take \/ Tick
  <2>1. UNCHANGED <<decoded, since, out, current_key>> /\ taken' \in {taken, current_key}
    BY <1>5 DEF Check, Halt, Take, Tick, driver
  <2>2. Fresh' = Fresh
    BY <2>1 DEF Fresh
  <2> QED
    BY <1>5, <2>1, <2>2 DEF Check, Halt, Take, Tick, Goto
<1>6. CASE (\E k \in Keys, r \in BOOLEAN : Type(k, r)) \/ UNCHANGED vars
  <2>1. UNCHANGED <<decoded, since, out, current_key, taken, pc, latest_key_handled>>
    BY <1>6 DEF Type, vars, driver
  <2>2. Fresh' = Fresh
    BY <2>1 DEF Fresh
  <2> QED
    BY <2>1, <2>2
<1> QED
  BY <1>2, <1>3, <1>4, <1>5, <1>6 DEF Next, Thread

LEMMA GivesNewKey ==
    ASSUME WaitInv, [Next]_vars, out' # out
    PROVE  \E i \in since + 1..Len(decoded) :
              decoded[i] = out'[Len(out')] \/ (out'[Len(out')] = Torn /\ decoded[i] = current_key)
<1>1. Copy
  BY IrqStores DEF Next, Thread, WaitBegins, Check, Halt, Take, Tick, Type, vars
<1>2. PICK key \in {current_key, Torn} : pc = "copy" /\ out' = IF key.released THEN out ELSE Append(out, key)
  BY <1>1 DEF Copy, Goto, Copies
<1>3. ~key.released /\ out' = Append(out, key)
  BY <1>2
<1>4. out'[Len(out')] = key
  BY <1>3, AppendAny DEF WaitInv
<1>5. Torn.released = current_key.released
  <2>1. PICK k, m, r : taken = [keycode |-> k, mapped |-> m, released |-> r]
    BY DEF WaitInv, IsKey, Key
  <2> QED
    BY <2>1 DEF Torn
<1>6. Len(decoded) > since /\ current_key = decoded[Len(decoded)]
  BY <1>2, <1>3, <1>5 DEF WaitInv, Fresh
<1>7. Len(decoded) \in since + 1..Len(decoded)
  BY <1>6, LenProperties DEF WaitInv
<1> QED
  BY <1>2, <1>4, <1>6, <1>7

(* Every key that kproc_stdin gets from kbd_wait_key was decoded after that *)
(* wait began, whatever interrupts come between the steps of the wait, or   *)
(* is torn between the key before and one that came inside the copy.        *)
THEOREM KeysAreNew == KeyboardSpec => NewKey
<1>1. Init => WaitInv
  <2> SUFFICES ASSUME Init
               PROVE  WaitInv
    OBVIOUS
  <2>1. /\ decoded = << >> /\ out = << >> /\ since = 0 /\ pc = "idle"
        /\ current_key = Key(0, NUL, FALSE) /\ taken = current_key
    BY DEF Init
  <2>2. << >> \in Seq({}) /\ Len(<< >>) = 0
    OBVIOUS
  <2>3. IsKey(current_key) /\ IsKey(taken)
    BY <2>1, Zenon DEF IsKey
  <2>4. /\ \E S : decoded \in Seq(S)
        /\ \E S : out \in Seq(S)
        /\ since \in Nat /\ since <= Len(decoded)
    BY <2>1, <2>2
  <2> QED
    BY <2>1, <2>3, <2>4 DEF WaitInv
<1>2. WaitInv /\ [Next]_vars => WaitInv'
  BY WaitStays
<1>3. WaitInv /\ [Next]_vars
        => [out' # out => LET key == out'[Len(out')]
                          IN \E i \in since + 1..Len(decoded) :
                                decoded[i] = key \/ (key = Torn /\ decoded[i] = current_key)]_vars
  BY GivesNewKey
<1> QED
  BY <1>1, <1>2, <1>3, PTL DEF KeyboardSpec, NewKey

=============================================================================
