-------------------------------- MODULE Disk --------------------------------
(***************************************************************************)
(* kernel/src/driver/ata/ata_pio.c: polled access to the first drive of    *)
(* the primary bus, with disk_init of kernel/src/kernel.c, mbr.c and       *)
(* vfs_detectfs, which use it first.                                       *)
(*                                                                         *)
(* The driver and the drive take turns: the driver writes registers and    *)
(* reads the status, the drive goes on in its own time and may fail        *)
(* whatever it is doing.  A sector is WORDS words; sector 0 is the one     *)
(* with the partition table, and a partition is named by its first sector. *)
(***************************************************************************)
EXTENDS Integers, Sequences

CONSTANTS
    SECTORS,      \* sectors of the drive
    Partitions,   \* the first sectors of the partitions, 0 for an empty entry
    WORDS,        \* words of a sector: 256 in the code
    Values,       \* what a word may hold
    MAX_COUNT,    \* sectors of an access: sectors_per_cluster, 1 on the
                  \* project's disk images
    ACCESSES      \* bound on the number of accesses

(* The table's partitions begin on the drive. *)
DriveAssumption ==
    /\ SECTORS \in Nat \ {0} /\ WORDS \in Nat \ {0} /\ MAX_COUNT \in Nat
    /\ Partitions \in Seq(0..SECTORS - 1)

VARIABLES
    drive,     \* the device: what it is, its state and registers
    medium,    \* what its sectors hold
    pc,        \* where the driver is
    call,      \* the access in progress, or the last one
    ata_lock,
    usable,    \* LBA28_mode
    calls,     \* accesses by the file system so far
    boot,      \* what disk_init reads next: the partition table, a partition,
               \* or nothing any more
    asked,     \* disk_init has read it
    fs0,       \* the partition that is mounted at /fs0, 0 for none
    fault,     \* history: a read of disk_init has failed
    expect     \* history: what each sector must hold after a write that
               \* succeeded; a set, since one that failed may have arrived

bootVars == <<boot, asked, fs0, fault>>
vars == <<drive, medium, pc, call, ata_lock, usable, calls, expect, bootVars>>

Lba == 0..SECTORS - 1
Sector == [1..WORDS -> Values]
NoCall == [read |-> TRUE, lba |-> 0, cnt |-> 0, buff |-> << >>, i |-> 0, err |-> FALSE]

(* The states of the drive.  After a command it takes up to 400 ns until    *)
(* the status says busy ("settling").                                       *)
BSY == drive.state = "busy"
DRQ == drive.state = "drq"
ERR == drive.err

Kinds == {"none", "empty", "packet", "chs", "disk"}   \* 0xff, 0, not ATA, no LBA, ATA

Goto(p) == pc' = p

-----------------------------------------------------------------------------
(* The drive. *)

(* It notices a command and is busy. *)
DriveBusy ==
    /\ drive.state = "settling"
    /\ drive' = [drive EXCEPT !.state = "busy", !.err = FALSE]
    /\ UNCHANGED <<medium, pc, call, ata_lock, usable, calls, expect, bootVars>>

(* It has the next sector, wants one, has stored one, or is done. *)
DriveReady ==
    /\ BSY
    /\ drive' = [drive EXCEPT
                   !.state = IF drive.cmd \notin {"reset", "flush"} /\ drive.left > 0
                             THEN "drq" ELSE "idle",
                   !.word  = 1]
    /\ UNCHANGED <<medium, pc, call, ata_lock, usable, calls, expect, bootVars>>

DriveFails ==
    /\ BSY
    /\ drive.cmd # "reset"
    /\ drive' = [drive EXCEPT !.state = "idle", !.err = TRUE]
    /\ medium' \in (IF drive.cmd = "flush"
                    THEN {[medium EXCEPT ![call.lba] = s] : s \in Sector} ELSE {medium})
    /\ UNCHANGED <<pc, call, ata_lock, usable, calls, expect, bootVars>>

(* The driver moves word i of the sector the drive is at.  With the last    *)
(* one the drive is done with a sector it was asked for, and stores one it  *)
(* was given.                                                               *)
Transfer(v) ==
    LET at   == drive.lba
        last == drive.word = WORDS
        m    == IF call.read THEN medium ELSE [medium EXCEPT ![at][drive.word] = v]
    IN IF ~DRQ THEN UNCHANGED <<drive, medium>>      \* nobody takes it
       ELSE /\ medium' = m
            /\ drive' = IF ~last THEN [drive EXCEPT !.word = @ + 1]
                        ELSE [drive EXCEPT !.left = @ - 1, !.lba = @ + 1, !.word = 1,
                                !.state = IF @ = "drq" /\ (drive.left > 1 \/ ~call.read)
                                          THEN "busy" ELSE "idle"]

(* A command register write. *)
Command(c, lba, cnt) ==
    drive' = [drive EXCEPT !.state = "settling", !.cmd = c, !.lba = lba, !.left = cnt, !.word = 1]

-----------------------------------------------------------------------------
(* ata_pio_init: software_reset, ata_pio_identify, wait_ata(1), and the     *)
(* words that say how many sectors there are.                               *)
NoDisk ==
    /\ Goto("no disk")
    /\ boot' = Len(Partitions) + 1
    /\ UNCHANGED <<drive, usable>>

InitReset ==
    /\ pc = "off"
    /\ IF drive.kind = "none" THEN NoDisk               \* status 0xff
       ELSE Goto("reset") /\ Command("reset", 0, 0) /\ UNCHANGED <<usable, boot>>
    /\ UNCHANGED <<medium, call, ata_lock, calls, expect, asked, fs0, fault>>

InitIdentify ==
    /\ pc = "reset"
    /\ drive.state = "idle"                              \* wait_400ns, wait_until_not_busy
    /\ IF drive.kind = "empty" THEN NoDisk              \* status 0
       ELSE Goto("identify") /\ Command("identify", 0, 1) /\ UNCHANGED <<usable, boot>>
    /\ UNCHANGED <<medium, call, ata_lock, calls, expect, asked, fs0, fault>>

InitDone ==
    /\ pc = "identify"
    /\ drive.state \in {"idle", "drq"}                   \* wait_400ns, wait_until_not_busy
    /\ IF ERR \/ drive.kind = "packet" THEN NoDisk
       ELSE /\ Goto("idle")
            /\ usable' = (drive.kind # "chs")            \* total_addressable_sec_LBA28
            /\ drive' = [drive EXCEPT !.state = "idle"]  \* the 256 words are read
            /\ UNCHANGED boot
    /\ UNCHANGED <<medium, call, ata_lock, calls, expect, asked, fs0, fault>>

-----------------------------------------------------------------------------
(* ata_pio_LBA28_access *)
Begin(read, lba, cnt, data) ==
    /\ pc = "idle"
    /\ call' = [read |-> read, lba |-> lba, cnt |-> cnt, buff |-> IF read THEN << >> ELSE data,
                i |-> 0, err |-> ~usable \/ cnt = 0]
    /\ IF usable /\ cnt # 0 THEN Goto("select") /\ ata_lock' = TRUE
       ELSE UNCHANGED <<pc, ata_lock>>
    /\ UNCHANGED <<drive, medium, usable, expect>>

(* wait_until_not_busy, the registers and the command. *)
Issue ==
    /\ pc = "select"
    /\ ~BSY
    /\ Goto("wait")
    /\ Command(IF call.read THEN "read" ELSE "write", call.lba, call.cnt)
    /\ UNCHANGED <<medium, call, ata_lock, usable, calls, expect, bootVars>>

(* wait_ata: 400 ns later the drive has seen the command; then until it is  *)
(* not busy.                                                                *)
Settled_atOnce == TRUE     \* mutant: the status is read at once

Settled == drive.state # "settling"

NotBusy == Settled /\ ~BSY

(* What must be on the drive after an access: what was written, unless the  *)
(* drive has failed, in the flush at the end too.                           *)
Kept(ok) ==
    expect' = IF call.read THEN expect
              ELSE [l \in Lba |->
                      IF l \notin call.lba..call.lba + call.cnt - 1 THEN expect[l]
                      ELSE IF ok THEN {call.buff[l - call.lba + 1]} ELSE Sector]

Return(failed) ==
    /\ Goto("idle")
    /\ ata_lock' = FALSE
    /\ call' = [call EXCEPT !.err = failed]
    /\ Kept(~ERR)

Started ==
    /\ pc = "wait"
    /\ NotBusy
    /\ IF ERR THEN Return(TRUE)
       ELSE Goto("data") /\ UNCHANGED <<call, ata_lock, expect>>
    /\ UNCHANGED <<drive, medium, usable, calls, bootVars>>

(* One word of sector i \div WORDS. *)
Word(v) ==
    LET j == (call.i \div WORDS) + 1
        w == (call.i % WORDS) + 1
    IN /\ pc = "data"
       /\ v \in (IF ~call.read THEN {call.buff[j][w]}
                 ELSE IF DRQ THEN {medium[drive.lba][drive.word]} ELSE Values)
       /\ Transfer(v)
       /\ call' = [call EXCEPT !.i = @ + 1, !.buff = IF call.read THEN Append(@, v) ELSE @]
       /\ Goto(IF w = WORDS THEN "ready" ELSE "data")
       /\ UNCHANGED <<ata_lock, usable, calls, expect, bootVars>>

(* wait_until_data_ready *)
DataReady_drq == DRQ \/ ERR     \* mutant: waits for the next sector also behind the last

DataReady == ~BSY /\ ~DRQ

SectorDone ==
    /\ pc = "ready"
    /\ DataReady
    /\ IF ERR THEN Return(TRUE) /\ UNCHANGED drive
       ELSE IF call.i < call.cnt * WORDS
            THEN Goto("data") /\ UNCHANGED <<drive, call, ata_lock, expect>>
       ELSE /\ Goto("last")
            /\ IF call.read THEN UNCHANGED drive ELSE Command("flush", 0, 0)
            /\ UNCHANGED <<call, ata_lock, expect>>
    /\ UNCHANGED <<medium, usable, calls, bootVars>>

(* wait_ata(0): whatever came of the flush. *)
Finish ==
    /\ pc = "last"
    /\ NotBusy
    /\ Return(FALSE)
    /\ UNCHANGED <<drive, medium, usable, calls, bootVars>>

-----------------------------------------------------------------------------
(* disk_init reads sector 0 and then the first sector of each partition.    *)
BootRead ==
    /\ boot \in 0..Len(Partitions) /\ ~asked
    /\ pc = "idle"
    /\ IF boot > 0 /\ Partitions[boot] = 0                 \* sector_count is 0
       THEN boot' = boot + 1 /\ UNCHANGED <<pc, call, ata_lock, drive, medium, usable, expect, asked>>
       ELSE /\ Begin(TRUE, IF boot = 0 THEN 0 ELSE Partitions[boot], 1, << >>)
            /\ asked' = TRUE /\ UNCHANGED boot
    /\ UNCHANGED <<calls, fs0, fault>>

Signature(words) == words[1] = 1        \* of the table, and of a FAT32 partition

(* mbr_load; after an error the drive is reset for the message's sake. *)
MbrLoad ==
    /\ boot = 0 /\ asked /\ pc = "idle"
    /\ asked' = FALSE
    /\ fault' = call.err
    /\ boot' = IF call.err \/ ~Signature(call.buff) THEN Len(Partitions) + 1 ELSE 1
    /\ IF call.err /\ usable THEN Command("reset", 0, 0) ELSE UNCHANGED drive
    /\ UNCHANGED <<medium, pc, call, ata_lock, usable, calls, expect, fs0>>

(* vfs_detectfs, and fat32_init for what looks like FAT32.  What a read     *)
(* returned is not looked at: after a failure sect[] is whatever was there. *)
Detect ==
    /\ boot \in 1..Len(Partitions) /\ asked /\ pc = "idle"
    /\ asked' = FALSE
    /\ boot' = boot + 1
    /\ \E fat32 \in (IF call.err THEN BOOLEAN ELSE {Signature(call.buff)}) :
          fs0' = IF fat32 THEN Partitions[boot] ELSE fs0
    /\ fault' = (fault \/ call.err)
    /\ UNCHANGED <<drive, medium, pc, call, ata_lock, usable, calls, expect>>

-----------------------------------------------------------------------------
Init ==
    /\ drive \in [kind : Kinds, state : {"idle"}, err : {FALSE}, cmd : {"none"}, lba : {0},
                  left : {0}, word : {1}]
    /\ medium \in [Lba -> {[w \in 1..WORDS |-> v] : v \in Values}]
    /\ \A l, m \in Lba \ {0} : Signature(medium[l]) /\ Signature(medium[m]) => l = m
    /\ pc = "off" /\ call = NoCall
    /\ ata_lock = FALSE /\ usable = FALSE
    /\ calls = 0
    /\ boot = 0 /\ asked = FALSE /\ fs0 = 0 /\ fault = FALSE
    /\ expect = [l \in Lba |-> {medium[l]}]

Driver ==
    \/ InitReset \/ InitIdentify \/ InitDone
    \/ Issue \/ Started \/ SectorDone \/ Finish
    \/ \E v \in Values : Word(v)

Drive == DriveBusy \/ DriveReady \/ DriveFails

(* An access of the file system that is mounted. *)
Access(read, lba, cnt, data) ==
    /\ boot > Len(Partitions) /\ fs0 # 0
    /\ lba \in fs0..SECTORS - cnt
    /\ calls < ACCESSES
    /\ calls' = calls + 1
    /\ Begin(read, lba, cnt, data)
    /\ UNCHANGED bootVars

Next ==
    \/ Driver \/ Drive
    \/ BootRead \/ MbrLoad \/ Detect
    \/ \E lba \in Lba, cnt \in 1..MAX_COUNT :
          \/ Access(TRUE, lba, cnt, << >>)
          \/ \E data \in [1..cnt -> Sector] : Access(FALSE, lba, cnt, data)

-----------------------------------------------------------------------------
(* The words a read has returned, sector by sector. *)
ReadBack == [l \in call.lba..call.lba + call.cnt - 1 |->
               [w \in 1..WORDS |-> call.buff[(l - call.lba) * WORDS + w]]]

(* An access that reports success has moved the sectors it was asked for:   *)
(* what a write reported as done is on the drive, whatever failed before    *)
(* and after, unless it was the flush at its own end, whose failure the     *)
(* driver does not look at, and a read returns what is there.               *)
Transferred ==
    pc = "idle" =>
        /\ \A l \in Lba : medium[l] \in expect[l]
        /\ call.read /\ ~call.err /\ call.cnt > 0 => \A l \in DOMAIN ReadBack : ReadBack[l] = medium[l]

(* The lock is held during an access and given back on every way out. *)
LockFollowsCall == ata_lock <=> pc \in {"select", "wait", "data", "ready", "last"}

(* When no read of disk_init has failed, /fs0 is the FAT32 partition that a *)
(* drive with a partition table has, and there is none if the drive is not  *)
(* there, is something else or has no table.                                *)
MountedRight ==
    boot > Len(Partitions) /\ ~fault /\ calls = 0 =>
        fs0 = IF \E k \in 1..Len(Partitions) :
                    usable /\ Partitions[k] # 0 /\ Signature(medium[0]) /\ Signature(medium[Partitions[k]])
              THEN CHOOSE l \in Lba \ {0} : Signature(medium[l]) ELSE 0

(* Every access returns: the polling loops end for each way the drive can   *)
(* answer, its failures included.                                           *)
AccessReturns == ata_lock ~> ~ata_lock
=============================================================================
