------------------------------ MODULE GptLayout ------------------------------
(***************************************************************************)
(* How create_gpt_image.py turns the partition file (gpt.ini) into the     *)
(* list of partitions of an image: TLBInfos reads the parts of the ini in  *)
(* four groups and lays them one after the other (_read_ini), then         *)
(* compute_last_size_entry gives the one part of length -1 what is left of *)
(* the image and _recompute_partition_begin lays the list again.           *)
(*                                                                         *)
(* Every loop of the code is a loop of the model, one action for each      *)
(* iteration, so that what a loop maintains can be stated and proved.      *)
(* Sizes and offsets in bytes are scaled: the constants stand for the      *)
(* literals of the code and keep their order (table smaller than the       *)
(* reserve, block smaller than a MiB).                                     *)
(***************************************************************************)
EXTENDS Integers, Sequences

CONSTANTS
  BlockSize,       \* option --block, in bytes
  MB,              \* 1024 * 1024 bytes
  ReservedBlocks,  \* the literal 2048 of compute_last_size_entry
  EntrySize,       \* bytes of one entry of the partition table (128)
  TableLength,     \* entries of the partition table (128)
  Configs,         \* the partition files a run may be given
  ImageSizes       \* the values of option --size, in bytes

Suffixes == {"", "_a", "_b", "_c"}

(* A section [partition.x]. An option the section lacks is <<>>, a comma   *)
(* separated option is the sequence of its values.                         *)
Part == [label: STRING, type: STRING, has_slot: BOOLEAN,
         start_lba: Seq(Nat), len: Seq(Int) \ {<<>>}]

(* A partition file: section [base] and the part lists of the four groups. *)
Groups == {"start", "bsp", "aosp", "end"}
Config == [nb_slot: 0..3, start_lba: Seq(Nat), parts: [Groups -> Seq(Part)]]

ASSUME LayoutAssumption ==
  /\ BlockSize \in Nat \ {0}
  /\ MB \in Nat \ {0}
  /\ ReservedBlocks \in Nat
  /\ EntrySize \in Nat \ {0}
  /\ TableLength \in Nat \ {0}
  /\ ImageSizes \subseteq Nat
  /\ Configs \subseteq Config

(* 32 blocks against 2048 for blocks of 512 bytes.                         *)
ASSUME ReserveAssumption ==
  (TableLength * EntrySize) \div BlockSize < ReservedBlocks

-----------------------------------------------------------------------------
(* Geometry of an image of "size" bytes, as GPTHeaderInfos computes it.    *)

SizeInBlock(size) == size \div BlockSize
TableSize         == (TableLength * EntrySize) \div BlockSize
LbaBackup(size)   == SizeInBlock(size) - 1
LbaFirst          == TableSize + 2
LbaLast(size)     == SizeInBlock(size) - 2 - TableSize
LbaStart(size)    == SizeInBlock(size) - 1 - TableSize

(* Wrong variant of Capacity: the MiB in front is not held back.           *)
CapacityWithoutMB(size) == size \div BlockSize - ReservedBlocks

(* The blocks compute_last_size_entry shares out.                          *)
Capacity(size) == (size - MB) \div BlockSize - ReservedBlocks

(* Without an option start_lba the first part starts one MiB in.           *)
DefaultStart == MB \div BlockSize

-----------------------------------------------------------------------------

VARIABLES
  pc,          \* the loop the program is in
  cfg,         \* the partition file, an input
  img_size,    \* option --size, an input
  tlb,         \* the list TLBInfos: one entry for each partition
  start_lba,   \* where the next part begins unless its section says where
  part, slot,  \* the cursors of the reading loops
  pos,         \* the entries the loops over tlb have passed
  last,        \* the entry of size -1, 0 when none was met
  remaining,   \* remaining_size
  new_begin    \* new_begin of _recompute_partition_begin

layoutVars == <<pc, cfg, img_size, tlb, start_lba, part, slot,
                pos, last, remaining, new_begin>>

Entry == [begin: Int, size: Int, type: STRING, label: STRING, suffix: Suffixes]

LayoutTypeOK ==
  /\ cfg \in Configs
  /\ img_size \in ImageSizes
  /\ tlb \in Seq(Entry)
  /\ start_lba \in Int
  /\ part \in Nat \ {0}
  /\ slot \in 0..3
  /\ pos \in 0..Len(tlb)
  /\ last \in 0..Len(tlb)
  /\ remaining \in Int
  /\ new_begin \in Int

-----------------------------------------------------------------------------
(* Reading the partition file (_read_ini).                                 *)

StartLba(c) == IF c.start_lba = <<>> THEN DefaultStart ELSE c.start_lba[1]

LayoutInit ==
  /\ pc = "start"
  /\ cfg \in Configs
  /\ img_size \in ImageSizes
  /\ tlb = <<>>
  /\ start_lba = StartLba(cfg)
  /\ part = 1 /\ slot = 0
  /\ pos = 0 /\ last = 0
  /\ remaining = Capacity(img_size)
  /\ new_begin = -1

Parts == cfg.parts[pc]

(* A part outside the slot groups has two slots only when the file has two *)
(* and the part asks for them.                                             *)
NbSlots(p) == IF cfg.nb_slot = 2 /\ p.has_slot THEN 2 ELSE 1

SlotSuffix(s) == IF s = 0 THEN "_a" ELSE IF s = 1 THEN "_b" ELSE "_c"

PartSuffix(p, s) == IF NbSlots(p) = 1 THEN "" ELSE SlotSuffix(s)

(* start_lba has no value for this slot: an IndexError nobody catches.     *)
(* len falls back on getint, which refuses a list.                         *)
Readable(p, s) ==
  /\ p.start_lba = <<>> \/ s < Len(p.start_lba)
  /\ s < Len(p.len) \/ Len(p.len) = 1

BeginOf(p, s)   == IF p.start_lba = <<>> THEN start_lba ELSE p.start_lba[s + 1]
ReadlenOf(p, s) == IF s < Len(p.len) THEN p.len[s + 1] ELSE p.len[1]
Blocks(readlen) == IF readlen > 0 THEN (readlen * MB) \div BlockSize ELSE readlen

(* The body both reading loops share: append the entry of slot s of p, and *)
(* move start_lba past it unless its size is still open.                   *)
AppendEntry(p, s, suffix) ==
  LET size == Blocks(ReadlenOf(p, s))
  IN  /\ tlb' = Append(tlb, [begin |-> BeginOf(p, s), size |-> size,
                             type |-> p.type, label |-> p.label,
                             suffix |-> suffix])
      /\ start_lba' = IF ReadlenOf(p, s) > 0 THEN BeginOf(p, s) + size
                                             ELSE start_lba

(* _contruct_tlb_info: the slots of a part follow one another.             *)
ReadPart ==
  /\ pc \in {"start", "end"}
  /\ part <= Len(Parts)
  /\ LET p == Parts[part]
     IN  /\ Readable(p, slot)
         /\ AppendEntry(p, slot, PartSuffix(p, slot))
         /\ IF slot + 1 < NbSlots(p)
            THEN slot' = slot + 1 /\ part' = part
            ELSE slot' = 0 /\ part' = part + 1
  /\ UNCHANGED <<pc, cfg, img_size, pos, last, remaining, new_begin>>

(* _contruct_tlb_grp_info: all parts of slot a, then all parts of slot b.  *)
ReadGroupPart ==
  /\ pc \in {"bsp", "aosp"}
  /\ slot < cfg.nb_slot /\ part <= Len(Parts)
  /\ LET p == Parts[part]
     IN  /\ Readable(p, slot)
         /\ AppendEntry(p, slot, SlotSuffix(slot))
  /\ IF part = Len(Parts) THEN part' = 1 /\ slot' = slot + 1
                          ELSE part' = part + 1 /\ slot' = slot
  /\ UNCHANGED <<pc, cfg, img_size, pos, last, remaining, new_begin>>

(* Wrong variant of GroupRead: the last slot is not seen as the last.      *)
GroupReadPastLast ==
  \/ pc \in {"start", "end"} /\ part > Len(Parts)
  \/ pc \in {"bsp", "aosp"} /\ (slot > cfg.nb_slot \/ part > Len(Parts))

GroupRead ==
  \/ pc \in {"start", "end"} /\ part > Len(Parts)
  \/ pc \in {"bsp", "aosp"} /\ (slot >= cfg.nb_slot \/ part > Len(Parts))

NextGroup ==
  /\ pc \in Groups
  /\ GroupRead
  /\ pc' = [start |-> "bsp", bsp |-> "aosp", aosp |-> "end", end |-> "measure"][pc]
  /\ part' = 1 /\ slot' = 0
  /\ UNCHANGED <<cfg, img_size, tlb, start_lba, pos, last, remaining, new_begin>>

(* An option with too few values ends the program with a traceback.        *)
ReadFails ==
  /\ pc \in Groups
  /\ ~GroupRead
  /\ ~Readable(Parts[part], slot)
  /\ pc' = "failed"
  /\ UNCHANGED <<cfg, img_size, tlb, start_lba, part, slot, pos, last,
                 remaining, new_begin>>

-----------------------------------------------------------------------------
(* Sharing out the image (compute_last_size_entry).                        *)

(* _replace of a namedtuple.                                               *)
Replace(e, begin, size) ==
  [begin |-> begin, size |-> size, type |-> e.type, label |-> e.label,
   suffix |-> e.suffix]

(* Wrong variant of MeasureEntry: the entries behind the open one are not  *)
(* counted.                                                                *)
MeasureEntryUpToOpen ==
  /\ pc = "measure"
  /\ pos < Len(tlb)
  /\ LET size == tlb[pos + 1].size
     IN  \/ /\ size < 0 /\ last = 0
            /\ last' = pos + 1
            /\ UNCHANGED <<pc, remaining>>
         \/ /\ size < 0 /\ last # 0
            /\ pc' = "failed"
            /\ UNCHANGED <<last, remaining>>
         \/ /\ size >= 0
            /\ remaining' = IF last = 0 THEN remaining - size ELSE remaining
            /\ UNCHANGED <<pc, last>>
  /\ pos' = pos + 1
  /\ UNCHANGED <<cfg, img_size, tlb, start_lba, part, slot, new_begin>>

MeasureEntry ==
  /\ pc = "measure"
  /\ pos < Len(tlb)
  /\ LET size == tlb[pos + 1].size
     IN  \/ /\ size < 0 /\ last = 0
            /\ last' = pos + 1
            /\ UNCHANGED <<pc, remaining>>
         \/ /\ size < 0 /\ last # 0        \* only one partition of size -1
            /\ pc' = "failed"
            /\ UNCHANGED <<last, remaining>>
         \/ /\ size >= 0
            /\ remaining' = remaining - size
            /\ UNCHANGED <<pc, last>>
  /\ pos' = pos + 1
  /\ UNCHANGED <<cfg, img_size, tlb, start_lba, part, slot, new_begin>>

(* All sizes are defined: the list stays as it was read.                   *)
NothingOpen ==
  /\ pc = "measure"
  /\ pos = Len(tlb)
  /\ last = 0
  /\ pc' = "laid"
  /\ UNCHANGED <<cfg, img_size, tlb, start_lba, part, slot, pos, last,
                 remaining, new_begin>>

ImageTooSmall ==
  /\ pc = "measure"
  /\ pos = Len(tlb)
  /\ last # 0 /\ remaining < 0
  /\ pc' = "failed"
  /\ UNCHANGED <<cfg, img_size, tlb, start_lba, part, slot, pos, last,
                 remaining, new_begin>>

(* Wrong variant of FillLast: the last entry is taken for the open one.    *)
FillFinalEntry ==
  /\ pc = "measure"
  /\ pos = Len(tlb)
  /\ last # 0 /\ remaining >= 0
  /\ tlb' = [tlb EXCEPT ![Len(tlb)] = Replace(tlb[Len(tlb)], tlb[Len(tlb)].begin,
                                              remaining)]
  /\ pc' = "recompute"
  /\ pos' = 0
  /\ UNCHANGED <<cfg, img_size, start_lba, part, slot, last, remaining, new_begin>>

FillLast ==
  /\ pc = "measure"
  /\ pos = Len(tlb)
  /\ last # 0 /\ remaining >= 0
  /\ tlb' = [tlb EXCEPT ![last] = Replace(tlb[last], tlb[last].begin, remaining)]
  /\ pc' = "recompute"
  /\ pos' = 0
  /\ UNCHANGED <<cfg, img_size, start_lba, part, slot, last, remaining, new_begin>>

(* Wrong variant of RecomputeEntry: the second partition begins where the  *)
(* first one does.                                                         *)
RecomputeEntryFromBegin ==
  /\ pc = "recompute"
  /\ pos < Len(tlb)
  /\ \/ /\ new_begin = -1
        /\ new_begin' = tlb[pos + 1].begin
        /\ UNCHANGED tlb
     \/ /\ new_begin # -1
        /\ tlb' = [tlb EXCEPT ![pos + 1] =
                              Replace(tlb[pos + 1], new_begin, tlb[pos + 1].size)]
        /\ new_begin' = new_begin + tlb[pos + 1].size
  /\ pos' = pos + 1
  /\ UNCHANGED <<pc, cfg, img_size, start_lba, part, slot, last, remaining>>

(* One turn of _recompute_partition_begin; -1 marks the first one.         *)
RecomputeEntry ==
  /\ pc = "recompute"
  /\ pos < Len(tlb)
  /\ \/ /\ new_begin = -1
        /\ new_begin' = tlb[pos + 1].begin + tlb[pos + 1].size
        /\ UNCHANGED tlb
     \/ /\ new_begin # -1
        /\ tlb' = [tlb EXCEPT ![pos + 1] =
                              Replace(tlb[pos + 1], new_begin, tlb[pos + 1].size)]
        /\ new_begin' = new_begin + tlb[pos + 1].size
  /\ pos' = pos + 1
  /\ UNCHANGED <<pc, cfg, img_size, start_lba, part, slot, last, remaining>>

RecomputeDone ==
  /\ pc = "recompute"
  /\ pos = Len(tlb)
  /\ pc' = "laid"
  /\ UNCHANGED <<cfg, img_size, tlb, start_lba, part, slot, pos, last,
                 remaining, new_begin>>

LayoutNext ==
  \/ ReadPart \/ ReadGroupPart \/ NextGroup \/ ReadFails
  \/ MeasureEntry \/ NothingOpen \/ ImageTooSmall \/ FillLast
  \/ RecomputeEntry \/ RecomputeDone

LayoutSpec == LayoutInit /\ [][LayoutNext]_layoutVars

-----------------------------------------------------------------------------
(* Properties.                                                             *)

TypeOK ==
  /\ LayoutTypeOK
  /\ pc \in Groups \cup {"measure", "recompute", "laid", "failed"}

EndOf(e) == e.begin + e.size

(* No option start_lba of a part moves it away from its predecessor.       *)
Unpinned(c) ==
  \A g \in Groups : \A i \in DOMAIN c.parts[g] : c.parts[g][i].start_lba = <<>>

(* "Ensure that partitions do not overlap" (_recompute_partition_begin):   *)
(* once the list is laid, every partition ends before the ones after it    *)
(* begin, whatever start_lba options the file holds, when one part takes   *)
(* the rest of the image; and when none does, if no part is pinned.        *)
NoOverlap ==
  pc = "laid" /\ (last # 0 \/ Unpinned(cfg)) =>
    \A i, j \in DOMAIN tlb : i < j => EndOf(tlb[i]) <= tlb[j].begin

(* The part of length -1 takes exactly what the others leave: the list     *)
(* spans the whole capacity, from the begin of the first partition on.     *)
FillsImage ==
  pc = "laid" /\ last # 0 =>
    EndOf(tlb[Len(tlb)]) = tlb[1].begin + Capacity(img_size)

(* When the first partition begins in the first MiB, past the primary      *)
(* table, the reserve of 2048 blocks keeps every partition between the two *)
(* partition tables (lba_first and lba_last of GPTHeaderInfos).            *)
InsideUsable ==
  pc = "laid" /\ last # 0 /\ tlb[1].begin \in LbaFirst..DefaultStart =>
    \A i \in DOMAIN tlb : /\ LbaFirst <= tlb[i].begin
                          /\ EndOf(tlb[i]) <= LbaLast(img_size) + 1

(* What a step leaves of the entries there are: all but the first may get  *)
(* a new begin, those without a size a size.                               *)
KeepsEntries ==
  \A i \in DOMAIN tlb :
    /\ i \in DOMAIN tlb'
    /\ tlb[i].size >= 0 => tlb'[i].size = tlb[i].size
    /\ tlb'[i].label = tlb[i].label /\ tlb'[i].type = tlb[i].type
    /\ tlb'[i].suffix = tlb[i].suffix
    /\ i = 1 => tlb'[1].begin = tlb[1].begin

(* compute_last_size_entry may give a size to the open entry and new       *)
(* begins to all but the first; it never changes a size the file defines,  *)
(* nor the order, the labels or the types of the entries.                  *)
OnlyOpenSizeChanges == [][KeepsEntries]_layoutVars
=============================================================================
