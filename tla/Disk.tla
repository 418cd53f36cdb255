-------------------------------- MODULE Disk --------------------------------
(***************************************************************************)
(* The disk: the ATA driver (ata.c), the FAT32 look-up on it (fat32.c) and *)
(* the shell's command that runs a Stellar file, on the heap of PhysMem.   *)
(* fat32_init runs at boot with interrupts off, the command in the         *)
(* keyboard's handler: main() stands still during both.                    *)
(*                                                                         *)
(* A sector is its words; the heap remembers which word of which sector    *)
(* was stored at an address, so a buffer is a sector if it holds all of    *)
(* that sector's words in order, and nothing otherwise.  What the drive    *)
(* does between a command and its answer is a process of its own.          *)
(***************************************************************************)
EXTENDS PhysMem

CONSTANTS
  Char,               \* the characters
  NameSize, ExtSize,  \* 8 and 3
  Upper,              \* the letters a..z and their capitals, a function
  Dot, Space, Zero,   \* characters
  SectorWords,        \* 256
  Entries,            \* 16: directory entries in a sector
  Base, TopBase,      \* 2^8 and 2^4: what the address registers take
  ClusterBase,        \* 2^16
  Images,             \* disks
  Typed,              \* what may be typed after `stellar `
  Missing, None

CapitalLetters == {Upper[c] : c \in DOMAIN Upper}
Cells == NameSize + ExtSize

ASSUME DiskAssumption ==
  /\ NameSize \in Nat \ {0} /\ ExtSize \in Nat \ {0}
  /\ SectorWords \in Nat \ {0} /\ Entries \in Nat
  /\ Base \in Nat \ {0} /\ TopBase \in Nat \ {0} /\ ClusterBase \in Nat \ {0}
  /\ 2 * SectorWords <= BootSize
  /\ Len(RunSizes) = 3
  /\ 2 * SectorWords <= RunSizes[1] /\ 2 * SectorWords <= RunSizes[3]
  /\ Upper \in [DOMAIN Upper -> Char] /\ {Dot, Space, Zero} \subseteq Char
  /\ {Dot, Space, Zero} \cap (DOMAIN Upper \cup CapitalLetters) = {}
  /\ CapitalLetters \cap DOMAIN Upper = {}
  /\ Dot # Space /\ Typed \subseteq Seq(Char)
  /\ None \notin Typed /\ Missing # None

Sectors == 0 .. Base * Base * Base * TopBase - 1

VARIABLES
  disk,              \* the disk in the drive
  drive,             \* what the drive is doing
  reg,               \* its address registers
  word,              \* words of the sector read so far
  step,              \* which read_sectors() is under way, or "idle"
  phase,             \* where it is
  ram,               \* words stored in the heap, by address
  returned,          \* what kmalloc has returned to this command
  main_bpb, data_region_start, cluster,
  typed, outcome     \* the file asked for, and what came of it

readVars == <<drive, reg, word, phase, ram>>
fileVars == <<main_bpb, data_region_start, cluster, typed, outcome>>
diskVars == <<disk, step, returned, readVars, fileVars>>

-----------------------------------------------------------------------------
(* Names.                                                                  *)

Capital(c) == IF c \in DOMAIN Upper THEN Upper[c] ELSE c

(* The first dot of s; one past its end if it has none.                    *)
FirstDot(s) ==
  CHOOSE d \in 1 .. Len(s) + 1 :
    /\ d = Len(s) + 1 \/ s[d] = Dot
    /\ \A k \in 1 .. d - 1 : s[k] # Dot

(* format_to_fat: capitals, cut to 8 and 3, filled with spaces.            *)
format_to_fat(s) ==
  LET d == FirstDot(s)
      At8(k) == IF k < d THEN Capital(s[k]) ELSE Space
      At3(k) == IF d + k <= Len(s) THEN Capital(s[d + k]) ELSE Space
  IN [k \in 1 .. Cells |->
        IF k <= NameSize THEN At8(k) ELSE At3(k - NameSize)]

(* Mutant: only the first eight characters are compared.                   *)
stellar_name_checkShort(s1, s2) == \A k \in 1 .. NameSize : s1[k] = s2[k]

stellar_name_check(s1, s2) == \A k \in 1 .. Cells : s1[k] = s2[k]

-----------------------------------------------------------------------------
(* The drive, from how read_sectors() uses it.  It has taken a command     *)
(* before it shows that it is busy; it ends with data, or with an error    *)
(* nobody looks at.                                                        *)

BSY == drive = "busy"
DRQ == drive = "ready"

Addressed ==
  reg.low + Base * (reg.mid + Base * (reg.high + Base * reg.sel))

DriveStep(from, to) ==
  /\ drive = from /\ drive' = to
  /\ UNCHANGED <<memoryVars, disk, step, returned, reg, word, phase, ram,
                 fileVars>>

DriveBegins   == DriveStep("accepted", "busy")
DriveDelivers == DriveStep("busy", "ready")
DriveFails    == DriveStep("busy", "failed")

-----------------------------------------------------------------------------
(* read_sectors(lba, 1, buffer): every caller reads one sector.            *)

(* The sector a buffer holds.                                              *)
SectorAt(buffer) ==
  {l \in Sectors : \A k \in 0 .. SectorWords - 1 :
     /\ buffer + 2 * k \in DOMAIN ram
     /\ ram[buffer + 2 * k] = <<l, k>>}

src_buffer == returned[1]
root_dir   == returned[3]

(* The fields of the boot sector in the heap: nothing if it is not there.  *)
Bpb ==
  IF 0 \in SectorAt(main_bpb) THEN disk.boot
                              ELSE [f \in DOMAIN disk.boot |-> 0]

FileSector == data_region_start + (cluster - 2) * Bpb.sectors_per_cluster

lba == CASE step = "mount" -> 0
         [] step = "find"  -> data_region_start
         [] step = "load"  -> FileSector

(* Mutant: the directory is read into the boot sector's buffer.            *)
bufferShared ==
  CASE step = "mount" -> main_bpb
    [] step = "find"  -> main_bpb
    [] step = "load"  -> src_buffer

buffer ==
  CASE step = "mount" -> main_bpb
    [] step = "find"  -> root_dir
    [] step = "load"  -> src_buffer

(* A step of the code that touches the disk: memory is allocated first.    *)
Reading(p) == ~Busy /\ step # "idle" /\ phase = p

Command ==
  /\ Reading("command") /\ ~BSY
  /\ reg' = [sel  |-> (lba \div (Base * Base * Base)) % TopBase,
             low  |-> lba % Base,
             mid  |-> (lba \div Base) % Base,
             high |-> (lba \div (Base * Base)) % Base]
  /\ drive' = "accepted" /\ word' = 0 /\ phase' = "bsy"
  /\ UNCHANGED <<memoryVars, disk, step, returned, ram, fileVars>>

ata_wait_bsy ==
  /\ Reading("bsy") /\ ~BSY
  /\ phase' = "drq"
  /\ UNCHANGED <<memoryVars, disk, step, returned, drive, reg, word, ram,
                 fileVars>>

(* Mutant: it waits for both bits.                                         *)
ata_wait_drqBusy ==
  /\ Reading("drq") /\ DRQ /\ BSY
  /\ phase' = "data"
  /\ UNCHANGED <<memoryVars, disk, step, returned, drive, reg, word, ram,
                 fileVars>>

ata_wait_drq ==
  /\ Reading("drq") /\ DRQ
  /\ phase' = "data"
  /\ UNCHANGED <<memoryVars, disk, step, returned, drive, reg, word, ram,
                 fileVars>>

ReadWord ==
  /\ Reading("data") /\ word < SectorWords
  /\ ram' = [a \in DOMAIN ram \cup {buffer + 2 * word} |->
               IF a = buffer + 2 * word THEN <<Addressed, word>> ELSE ram[a]]
  /\ word' = word + 1
  /\ drive' = IF word + 1 = SectorWords THEN "idle" ELSE drive
  /\ UNCHANGED <<memoryVars, disk, step, returned, reg, phase, fileVars>>

(* Mutant: the last word is left in the drive.                             *)
ReadShort == Reading("data") /\ word = SectorWords - 1

Read == Reading("data") /\ word = SectorWords

-----------------------------------------------------------------------------
(* fat32_init, after its read: a mount that fails leaves everything as is. *)

Mount ==
  /\ step = "mount" /\ Read
  /\ \/ /\ Bpb.boot_sig \in {40, 41}   \* 0x28, 0x29
        /\ data_region_start' =
             Bpb.reserved_sectors + Bpb.fat_count * Bpb.fat_size_32
     \/ /\ Bpb.boot_sig \notin {40, 41}
        /\ UNCHANGED data_region_start
  /\ step' = "idle" /\ phase' = "command"
  /\ UNCHANGED <<memoryVars, disk, returned, drive, reg, word, ram, main_bpb,
                 cluster, typed, outcome>>

(* The command: its buffers are allocated, then the directory is read.     *)
RunStellar(n) ==
  /\ step = "idle" /\ RunFile
  /\ typed' = n /\ outcome' = None
  /\ returned' = << >>
  /\ step' = "find" /\ phase' = "command"
  /\ UNCHANGED <<disk, drive, reg, word, ram, main_bpb, data_region_start,
                 cluster>>

(* What a sector holds, read as a directory: no names if it is not one.    *)
DirectoryIn(l) ==
  IF l \in DOMAIN disk.directories THEN disk.directories[l] ELSE << >>

Listed(dir) ==
  {k \in 1 .. Len(dir) :
     k <= Entries /\ \A j \in 1 .. k : dir[j].name[1] # Zero}

Match(dir, k) ==
  /\ k \in Listed(dir)
  /\ stellar_name_check(dir[k].name, format_to_fat(typed))
  /\ \A j \in 1 .. k - 1 : ~stellar_name_check(dir[j].name, format_to_fat(typed))

ClusterOf(e) == e.cluster_high * ClusterBase + e.cluster_low

Answered(result) ==
  /\ outcome' = result /\ typed' = None
  /\ step' = "idle" /\ phase' = "command"
  /\ UNCHANGED <<memoryVars, disk, returned, drive, reg, word, ram, main_bpb,
                 data_region_start, cluster>>

(* No such entry, or one of a file without clusters.                       *)
NotFound ==
  /\ step = "find" /\ Read
  /\ \E l \in SectorAt(root_dir) :
       \A k \in Listed(DirectoryIn(l)) :
         Match(DirectoryIn(l), k) => ClusterOf(DirectoryIn(l)[k]) < 2
  /\ Answered(Missing)

Found ==
  /\ step = "find" /\ Read
  /\ \E l \in SectorAt(root_dir) : \E k \in Listed(DirectoryIn(l)) :
       /\ Match(DirectoryIn(l), k)
       /\ ClusterOf(DirectoryIn(l)[k]) >= 2
       /\ cluster' = ClusterOf(DirectoryIn(l)[k])
  /\ step' = "load" /\ phase' = "command"
  /\ UNCHANGED <<memoryVars, disk, returned, drive, reg, word, ram, main_bpb,
                 data_region_start, typed, outcome>>

(* The program is compiled from the sector that was read, and runs.        *)
Loaded ==
  /\ step = "load" /\ Read
  /\ \E l \in SectorAt(src_buffer) : Answered(l)

-----------------------------------------------------------------------------
(* The heap and main()'s own page, as in PhysMem.                          *)

kmalloc ==
  /\ Bump
  /\ returned' = Append(returned, heap_current)
  /\ main_bpb' = IF step = "mount" THEN heap_current ELSE main_bpb
  /\ UNCHANGED <<disk, step, readVars, data_region_start, cluster, typed,
                 outcome>>

kmallocPays == Charge /\ UNCHANGED diskVars

MainStep ==
  /\ step = "idle"
  /\ Scan \/ LoadByte \/ StoreByte \/ LoadCount \/ StoreCount
  /\ UNCHANGED diskVars

DiskInit ==
  /\ Init
  /\ disk \in Images
  /\ drive = "idle" /\ reg = [sel |-> 0, low |-> 0, mid |-> 0, high |-> 0]
  /\ word = 0 /\ step = "mount" /\ phase = "command"
  /\ ram = << >> /\ returned = << >>
  /\ main_bpb = 0 /\ data_region_start = 0 /\ cluster = 0
  /\ typed = None /\ outcome = None

Host  == \/ Command \/ ata_wait_bsy \/ ata_wait_drq \/ ReadWord
         \/ Mount \/ NotFound \/ Found \/ Loaded
         \/ kmalloc \/ kmallocPays
Drive == DriveBegins \/ DriveDelivers \/ DriveFails

DiskNext == \/ Host \/ Drive \/ MainStep
            \/ \E n \in Typed : RunStellar(n)

vars == <<memoryVars, diskVars>>

(* A handler runs on, and a drive ends a command with data or an error.    *)
DiskSpec == /\ DiskInit /\ [][DiskNext]_vars
            /\ WF_vars(Host) /\ WF_vars(Drive)
=============================================================================
