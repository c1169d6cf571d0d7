------------------------------- MODULE Machine -------------------------------
(***************************************************************************)
(* Three parts of the machine and the code that drives them: the processor *)
(* with its interrupt controllers (Interrupts), the drive (Disk) and the   *)
(* clock (Clock).  The drivers share no state; a behaviour exercises one   *)
(* of them.  Their time scales differ too: an access to the drive or to    *)
(* the clock's registers runs to its end in one system call or at boot.    *)
(***************************************************************************)
EXTENDS Integers, Sequences, FiniteSets

CONSTANTS
    Users, Threads, Boot, Kmain, EVENTS,                      \* see Interrupts
    SECTORS, Partitions, WORDS, Values, MAX_COUNT, ACCESSES,      \* see Disk
    MINUTE, HOUR, FREQUENCY, Starts, RTC_TICKS, SECONDS, DAYS  \* see Clock

VARIABLES
    part,       \* the part that this behaviour exercises
    cpu, cur, kstack, saved_esp, esp0, ready, dead, raised, service, events, want,
    drive, medium, pc, call, ata_lock, usable, calls, boot, asked, fs0, fault, expect,
    now, mode, uip, passed, reading, last, registers, seen, start, ticks, seconds_since_start, date

Processor == INSTANCE Interrupts
Ata == INSTANCE Disk
Rtc == INSTANCE Clock WITH pc <- reading, cur <- registers

ASSUME ThreadsAssumption == Processor!ProcessAssumption
ASSUME SectorsAssumption == Ata!DriveAssumption

MachineInit ==
    /\ part \in {"processor", "drive", "clock"}
    /\ Processor!Init /\ Ata!Init /\ Rtc!Init
    /\ part # "drive" => drive.kind = "none" /\ medium = [l \in Ata!Lba |-> [w \in 1..WORDS |-> 0]]
    /\ part # "clock" => mode.bcd /\ mode.h24 /\ now = CHOOSE s \in Starts : TRUE

cpuVars == <<cpu, cur, kstack, saved_esp, esp0, ready, dead, raised, service, events, want>>
diskVars == <<drive, medium, pc, call, ata_lock, usable, calls, boot, asked, fs0, fault, expect>>
clockVars == <<now, mode, uip, passed, reading, last, registers, seen, start, ticks,
               seconds_since_start, date>>

machineVars == <<part, cpuVars, diskVars, clockVars>>

CpuStep(A) == part = "processor" /\ A /\ UNCHANGED <<part, diskVars, clockVars>>
DiskStep(A) == part = "drive" /\ A /\ UNCHANGED <<part, cpuVars, clockVars>>
ClockStep(A) == part = "clock" /\ A /\ UNCHANGED <<part, cpuVars, diskVars>>

MachineNext == CpuStep(Processor!Next) \/ DiskStep(Ata!Next) \/ ClockStep(Rtc!Next)

(* A handler runs to its end and the processor takes an interrupt that is   *)
(* pending whenever it may; the driver goes on polling, and the drive       *)
(* completes or fails whatever it is doing.                                 *)
MachineSpec ==
    /\ MachineInit /\ [][MachineNext]_machineVars
    /\ WF_machineVars(CpuStep(Processor!Handler))
    /\ \A line \in Processor!Lines : SF_machineVars(CpuStep(Processor!Deliver(line)))
    /\ WF_machineVars(DiskStep(Ata!Driver))
    /\ WF_machineVars(DiskStep(Ata!Drive))

-----------------------------------------------------------------------------
(* A process goes on where it was interrupted with what it had, and its     *)
(* kernel stack is unwound when it does: see Interrupts.                    *)
ContextsKept == Processor!ContextRestored /\ []Processor!StackUnwound

(* Raised interrupts are delivered: see Interrupts. *)
LinesServed == Processor!LinesServed

(* An access that succeeds has moved its sectors, up to a flush that fails, *)
(* the lock is given back on every way out, and /fs0 is the partition that  *)
(* holds a FAT32 file system: see Disk.                                     *)
AccessSound == Ata!Transferred /\ Ata!LockFollowsCall /\ Ata!MountedRight

(* Accesses to the drive return: see Disk. *)
AccessReturns == Ata!AccessReturns

(* The time read at boot was shown by the clock, but for 12 o'clock on a    *)
(* 12-hour clock, seconds and dates agree through 130 years, and time       *)
(* stamps of files are kept: see Clock.                                     *)
DatesRight == Rtc!ReadWasShown /\ Rtc!CalendarAgrees /\ Rtc!StampKept
=============================================================================
