----------------------------- MODULE DiskProps -----------------------------
(***************************************************************************)
(* What the disk's code promises, against a directory's own reading of its *)
(* names: an image also says where its directory and its files really are. *)
(***************************************************************************)
EXTENDS Disk

(* A disk of the kinds this driver may find: its numbers are numbers, and  *)
(* the sectors it says its directory and its files begin at are those its  *)
(* boot sector and its clusters give, within the reach of 28 bits.  A      *)
(* boot sector read as a directory has no names.                           *)
ASSUME ImageAssumption ==
  \A d \in Images :
    /\ d.boot \in [boot_sig : Nat, reserved_sectors : Nat, fat_count : Nat,
                   fat_size_32 : Nat, sectors_per_cluster : Nat]
    /\ d.root \in DOMAIN d.directories /\ DOMAIN d.directories \subseteq Sectors \ {0}
    /\ d.boot.boot_sig \in {40, 41} =>
         d.root = d.boot.reserved_sectors + d.boot.fat_count * d.boot.fat_size_32
    /\ \A l \in DOMAIN d.directories :
         d.directories[l] \in Seq([name : [1 .. Cells -> Char \ {Dot}],
                                  cluster_high : Nat, cluster_low : Nat,
                                  sector : Sectors])
    /\ \A k \in DOMAIN d.directories[d.root] :
         LET e == d.directories[d.root][k]
         IN e.sector = IF ClusterOf(e) < 2 THEN 0
                       ELSE d.root + (ClusterOf(e) - 2) * d.boot.sectors_per_cluster

Bits == [sel : 0 .. TopBase - 1, low : 0 .. Base - 1, mid : 0 .. Base - 1,
         high : 0 .. Base - 1]

(* Types; and the code is in a read_sectors() only when it has asked for   *)
(* one, the drive busy only then.                                          *)
DiskTypeOK ==
  /\ disk \in Images /\ reg \in Bits /\ word \in 0 .. SectorWords
  /\ drive \in {"idle", "accepted", "busy", "ready", "failed"}
  /\ step \in {"mount", "find", "load", "idle"}
  /\ phase \in {"command", "bsy", "drq", "data"}
  /\ phase = "command" => drive = "idle"
  /\ step = "idle" => phase = "command"
  /\ DOMAIN ram \subseteq Nat /\ returned \in Seq(Nat)
  /\ main_bpb \in Nat /\ data_region_start \in Nat /\ cluster \in Nat
  /\ typed \in Typed \cup {None} /\ outcome \in Sectors \cup {Missing, None}

(* The boot sector, read once at boot and consulted for every file, is in  *)
(* its buffer for ever: no later block or read of the heap disturbs it,    *)
(* though the code never looks where its sectors land.                     *)
BpbIntact == step # "mount" => SectorAt(main_bpb) = {0}

(* Whatever is read ends, unless the drive fails: fat32_init at boot, and  *)
(* the command, which holds up everything else.                            *)
ReadsEnd == (step # "idle") ~> (step = "idle" \/ drive = "failed")

-----------------------------------------------------------------------------
(* The refinement: FileStore.                                              *)

Trim(s) ==
  SubSeq(s, 1, CHOOSE k \in 0 .. Len(s) :
                 /\ \A j \in k + 1 .. Len(s) : s[j] = Space
                 /\ k = 0 \/ s[k] # Space)

(* How an entry's name is written.                                         *)
Spelling(e) ==
  LET ext == Trim(SubSeq(e.name, NameSize + 1, Cells))
  IN Trim(SubSeq(e.name, 1, NameSize))
       \o (IF ext = << >> THEN << >> ELSE <<Dot>> \o ext)

(* The root directory, as far as it is in the first sector.                *)
Root == disk.directories[disk.root]

(* A typed name that is 8.3: the others may be taken for any file.         *)
Is83(n) ==
  /\ \A k \in 1 .. Len(n) : n[k] # Space
  /\ \E b \in 1 .. NameSize, x \in 0 .. ExtSize :
       \/ Len(n) = b /\ \A k \in 1 .. b : n[k] # Dot
       \/ /\ x > 0 /\ Len(n) = b + 1 + x
          /\ \A k \in 1 .. Len(n) : n[k] = Dot <=> k = b + 1

Denotes(n, k) ==
  /\ Spelling(Root[k]) = [j \in 1 .. Len(n) |-> Capital(n[j])]
  /\ \A j \in 1 .. k - 1 : Spelling(Root[j]) # Spelling(Root[k])

(* A file that has a sector is answered with its first one, unless a label *)
(* or an empty file of the same name comes first.                          *)
Held(k) ==
  IF Root[k].sector = 0 THEN Missing ELSE Root[k].sector

Right(n) == {Held(k) : k \in {j \in Listed(Root) : Denotes(n, j)}}

Store ==
  [n \in Typed |->
     IF disk.boot.boot_sig \notin {40, 41} THEN {Missing}
     ELSE IF ~Is83(n) THEN {Held(k) : k \in Listed(Root)} \cup {Missing}
     ELSE IF Right(n) = {} THEN {Missing}
     ELSE Right(n)]

Files == INSTANCE FileStore WITH Name <- Typed, store <- Store,
                                 request <- typed, answer <- outcome

(* The command answers with the file of the name typed, small letters or   *)
(* capitals, or with nothing if the disk has none; and it is always a file *)
(* of the disk, whatever the registers, clusters and buffers in between.   *)
ImplementsFileStore == Files!StoreSpec
=============================================================================
