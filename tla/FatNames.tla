------------------------------ MODULE FatNames ------------------------------
(***************************************************************************)
(* How a name and its flags become the slots of a FAT32 directory entry    *)
(* and are read back: is_valid_sfn, the short and the long name made by    *)
(* fat32_add_entry, and parse_lfn, process_lfn_entry and process_sfn_entry *)
(* in kernel/src/filesystem/fat32.c.  Module Fat32Dir takes names as they  *)
(* are and is about where the slots go; here one directory is a sequence   *)
(* of slots in the order in which they are scanned.                        *)
(*                                                                         *)
(* The widths 8, 3, 13 and FILENAME_LIMIT are constants.  The checksum of  *)
(* a long slot is left out: nothing reads it.                              *)
(***************************************************************************)
EXTENDS Integers, Sequences, SequencesExt

CONSTANTS
    Char,            \* characters of names
    LEN,             \* bound on the length of a name
    Others,          \* names that may follow the first
    BASE, EXT,       \* 8 and 3: the parts of a short name
    PIECE,           \* 13: characters in a long slot
    FILENAME_LIMIT   \* length of a name in memory, with its NUL

VARIABLES
    slots,           \* the directory
    given            \* history: the entries that were added

vars == <<slots, given>>

NUL == "nul"
JUNK == "junk"                              \* what is on the stack
Special == {" ", "+", ",", ";", "=", "[", "]"}
Dots == {<<".">>, <<".", ".">>}
HIDDEN == "hidden"
DIRECTORY == "directory"
Flags == SUBSET {HIDDEN, DIRECTORY}

toupper(c) == IF c = "a" THEN "A" ELSE IF c = "b" THEN "B" ELSE c
IsLower(c) == toupper(c) # c
Upper(s) == [i \in DOMAIN s |-> toupper(s[i])]
First(s, n) == SubSeq(s, 1, IF Len(s) < n THEN Len(s) ELSE n)
Padded(s, n) == [i \in 1..n |-> IF i <= Len(s) THEN s[i] ELSE " "]

(* A C string: the characters in front of the first NUL. *)
CString(s) ==
    LET ends == {i \in 1..Len(s) : s[i] = NUL} \cup {Len(s) + 1}
    IN SubSeq(s, 1, Min(ends) - 1)

-----------------------------------------------------------------------------
(* is_valid_sfn: a name that needs no long slots. *)
IsValidSfn(name) ==
    LET dots == {i \in 1..Len(name) : name[i] = "."}
        dot  == Max(dots)
    IN /\ Len(name) \in 1..BASE + 1 + EXT
       /\ \A i \in 1..Len(name) : ~IsLower(name[i]) /\ name[i] \notin Special
       /\ IF dots = {} THEN Len(name) <= BASE
          ELSE Cardinality(dots) = 1 /\ dot - 1 \in 1..BASE /\ Len(name) - dot <= EXT

(* The short name: the first characters before and behind the last dot,     *)
(* where a directory has no extension; ~1 stands at the end of a long one.  *)
ShortName(name, isdir) ==
    LET dot   == Max({1} \cup {i \in 1..Len(name) : name[i] = "."})
        split == dot > 1 /\ ~isdir
        Kept(c)     == c \notin Special
        KeptBase(c) == c \notin Special \cup {"."}
        ext   == IF split THEN SelectSeq(SubSeq(name, dot + 1, Len(name)), Kept) ELSE << >>
        base  == SelectSeq(IF split THEN SubSeq(name, 1, dot - 1) ELSE name, KeptBase)
        short == Padded(First(base, BASE), BASE) \o Padded(First(ext, EXT), EXT)
        tail  == dot - 1 > BASE \/ (isdir /\ Len(name) > BASE)
    IN IF name \in Dots THEN Padded(name, BASE + EXT)
       ELSE Upper(IF tail THEN [short EXCEPT ![BASE - 1] = "~", ![BASE] = "1"] ELSE short)

LfnEntryCount(name) ==
    IF name \in Dots \/ IsValidSfn(name) THEN 0 ELSE (Len(name) + PIECE - 1) \div PIECE

(* The slot of piece i; the last piece comes first and is marked.           *)
LongSlot(name, i) ==
    [k |-> "lfn", order |-> i, last |-> i = LfnEntryCount(name),
     chars |-> [j \in 1..PIECE |-> IF (i - 1) * PIECE + j <= Len(name)
                                   THEN name[(i - 1) * PIECE + j] ELSE NUL]]

to_fat_attr(flags) == flags \cap {HIDDEN, DIRECTORY}
to_fs_node_flags(attr) == attr \cap {HIDDEN, DIRECTORY}

Slots(name, flags) ==
    LET n == LfnEntryCount(name)
    IN [p \in 1..n |-> LongSlot(name, n - p + 1)]
       \o <<[k |-> "sfn", name |-> ShortName(name, DIRECTORY \in flags), attr |-> to_fat_attr(flags)]>>

-----------------------------------------------------------------------------
(* What a scan keeps: entry_name, namelen, lfn_ready, found_last_LFN_entry. *)
Scan == [buf |-> [i \in 1..FILENAME_LIMIT |-> JUNK], len |-> 0, ready |-> FALSE, found |-> FALSE]

(* parse_lfn: up to and with the first NUL, within the buffer.              *)
ParseLfn(chars, offset) ==
    LET ends == {j \in 1..PIECE : chars[j] = NUL} \cup {PIECE}
        n    == Min({Min(ends), FILENAME_LIMIT - offset})
    IN SubSeq(chars, 1, n)

ProcessLfnEntry_counts(st, slot) ==     \* mutant: every piece sets the length
    LET offset == (slot.order - 1) * PIECE
        text   == ParseLfn(slot.chars, offset)
    IN [buf   |-> [i \in 1..FILENAME_LIMIT |-> IF i - offset \in DOMAIN text THEN text[i - offset] ELSE st.buf[i]],
        len   |-> offset + Len(text), ready |-> TRUE, found |-> TRUE]

ProcessLfnEntry(st, slot) ==
    LET offset == (slot.order - 1) * PIECE
        text   == ParseLfn(slot.chars, offset)
        full   == offset + Len(text) >= FILENAME_LIMIT
        buf    == [i \in 1..FILENAME_LIMIT |->
                      IF i - offset \in DOMAIN text THEN text[i - offset] ELSE st.buf[i]]
    IN [buf   |-> IF ~st.found /\ full THEN [buf EXCEPT ![FILENAME_LIMIT] = NUL] ELSE buf,
        len   |-> IF st.found THEN st.len ELSE IF full THEN FILENAME_LIMIT ELSE offset + Len(text),
        ready |-> TRUE,
        found |-> TRUE]

ProcessSfnEntry(st, slot) ==
    LET UpToBlank(s) == SubSeq(s, 1, Min({i \in DOMAIN s : s[i] = " "} \cup {Len(s) + 1}) - 1)
        base == UpToBlank(SubSeq(slot.name, 1, BASE))
        ext  == UpToBlank(SubSeq(slot.name, BASE + 1, BASE + EXT))
        name == base \o (IF slot.name[BASE + 1] # " " THEN <<".">> \o ext ELSE << >>) \o <<NUL>>
    IN [st EXCEPT !.buf = [i \in 1..FILENAME_LIMIT |-> IF i \in DOMAIN name THEN name[i] ELSE @[i]],
                  !.len = Len(name)]

Named(st, slot) == IF st.ready THEN st ELSE ProcessSfnEntry(st, slot)

(* fat32_iterate_directory until ERR_FS_EOF: a fresh scan for every entry.  *)
IterateDirectory(s) ==
    LET Turn(r, slot) ==
            IF slot.k = "lfn" THEN [r EXCEPT !.st = ProcessLfnEntry(@, slot)]
            ELSE LET st == Named(r.st, slot)
                 IN [list |-> Append(r.list, <<CString(SubSeq(st.buf, 1, st.len)), to_fs_node_flags(slot.attr)>>),
                     st   |-> Scan]
    IN FoldLeft(Turn, [list |-> << >>, st |-> Scan], s).list

(* The scan of fat32_add_entry: the buffer is not cleared between entries,  *)
(* and a name is compared to its first NUL.                                 *)
SameName(buf, name) == Upper(CString(buf)) = Upper(name)

Existed(s, name) ==
    LET Turn(r, slot) ==
            IF slot.k = "lfn" THEN [r EXCEPT !.st = ProcessLfnEntry(@, slot)]
            ELSE LET st == Named(r.st, slot)
                 IN [dup |-> r.dup \/ SameName(st.buf, name),
                     st  |-> [st EXCEPT !.ready = FALSE, !.found = FALSE]]
    IN FoldLeft(Turn, [dup |-> FALSE, st |-> Scan], s).dup

-----------------------------------------------------------------------------
AddEntry(name, flags) ==
    IF Existed(slots, name) THEN UNCHANGED <<slots, given>>
    ELSE /\ slots' = slots \o Slots(name, flags)
         /\ given' = Append(given, <<name, flags>>)

Init == slots = << >> /\ given = << >>

Next ==
    \E flags \in Flags :
        \/ given = << >> /\ \E name \in BoundedSeq(Char, LEN) \ {<< >>} : AddEntry(name, flags)
        \/ Len(given) = 1 /\ \E name \in Others : AddEntry(name, flags)

Spec == Init /\ [][Next]_vars

-----------------------------------------------------------------------------
(* The names that come back as they were: not a short name that ends with   *)
(* a dot, nor one of a directory with a dot in it.                          *)
Kept(name, flags) ==
    IsValidSfn(name) /\ name \notin Dots
        => Last(name) # "." /\ (DIRECTORY \in flags => "." \notin Range(name))

(* The names that fat32_add_entry recognises: a long name that fills its    *)
(* last slot has no NUL, and is compared with what is behind it.            *)
Terminated(name) == LfnEntryCount(name) > 0 => Len(name) % PIECE # 0

Listed == IterateDirectory(slots)

(* A directory lists as many entries as it was given, one behind the other, *)
(* with their flags.  The name of an entry, long or short, is read back as  *)
(* it was given exactly if it is not one of the short names whose dot is    *)
(* lost (fat32_add_entry, fat32_iterate_directory and what they call).      *)
NamesKept ==
    /\ Len(Listed) = Len(given)
    /\ \A i \in DOMAIN given :
          /\ Listed[i][2] = given[i][2]
          /\ Listed[i][1] = given[i][1] <=> Kept(given[i][1], given[i][2])

(* A name is refused exactly if the directory lists it, in whatever case,   *)
(* as long as no name in it fills its last long slot.  A name is listed     *)
(* twice only if it fills its last slot, or the later of the two has lost   *)
(* its dot (the scan of fat32_add_entry).                                   *)
NamesDistinct ==
    /\ \A i, j \in DOMAIN given :
          i < j /\ Upper(Listed[i][1]) = Upper(Listed[j][1])
            => ~Terminated(given[i][1]) \/ ~Kept(given[j][1], given[j][2])
    /\ (\A i \in DOMAIN given : Terminated(given[i][1])) =>
          \A name \in Others :
             Existed(slots, name) <=> \E i \in DOMAIN given : Upper(Listed[i][1]) = Upper(name)
=============================================================================
