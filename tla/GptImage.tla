------------------------------- MODULE GptImage -------------------------------
(***************************************************************************)
(* create_gpt_image.py --create as a whole: the partition file is read and *)
(* laid out (GptLayout), the inputs are checked, the previous image is     *)
(* removed and the new one is written piece by piece into one file:        *)
(* headers, primary table, backup table, partitions, checksums.            *)
(*                                                                         *)
(* The file is a sequence of cells. A cell is the smallest thing the model *)
(* tells apart (it stands for some bytes of the real file); a write past   *)
(* the end fills the gap with zero as a seek does.                         *)
(***************************************************************************)
EXTENDS GptLayout

CONSTANTS
  BackupTableBlocks,   \* the literal 32 of write and _write_crc
  AndroidPartitions,   \* ANDROID_PARTITIONS: the labels with an option
  PlainTypes,          \* the types of TableEntryInfos.write with one GUID
  LinuxLabels,         \* <<label, suffix>> the type "linux" has a GUID for
  Binaries(_)          \* the sets of binaries a run may be given with a file

None == -1             \* the option is "none"
Missing == -2          \* the option names a file that does not exist

ASSUME ImageAssumption ==
  /\ BackupTableBlocks \in Nat
  /\ \A c \in Configs : Binaries(c) \subseteq [AndroidPartitions -> Nat \cup {None, Missing}]
  /\ \A size \in ImageSizes : /\ LbaBackup(size) >= BackupTableBlocks
                              /\ LbaLast(size) >= 0

VARIABLES
  binaries,   \* binaries_path: the size of the file each option names
  image,      \* the file FILE names: "none", "old" or "new"
  disk        \* its contents when it is new

imageVars == <<layoutVars, binaries, image, disk>>

-----------------------------------------------------------------------------
(* The file.                                                               *)

Zero == <<"zero">>
Zeros(n) == [k \in 1..n |-> Zero]

Write(d, offset, cells) ==
  LET end    == offset + Len(cells)
      padded == IF end > Len(d) THEN d \o Zeros(end - Len(d)) ELSE d
  IN  IF cells = <<>> THEN d
      ELSE SubSeq(padded, 1, offset) \o cells \o SubSeq(padded, end + 1, Len(padded))

(* A read past the end returns what there is.                              *)
Read(d, offset, count) ==
  SubSeq(d, offset + 1, IF offset + count <= Len(d) THEN offset + count ELSE Len(d))

(* A checksum that two different contents never share.                     *)
Crc32(cells) == <<"crc", cells>>

(* A header is a body, its own checksum (offset 16 of 92 in the code) and  *)
(* the checksum of its table (offset 88).                                  *)
HeaderSize == 3
CrcAt      == 1
TableCrcAt == 2
Header(copy) == << <<"header", copy>>, Zero, Zero >>

ASSUME HeaderAssumption == HeaderSize <= BlockSize

Mbr == << <<"mbr">> >>

Data(label, n) == [k \in 1..n |-> <<"data", label, k>>]
TableBytes == TableLength * EntrySize

PrimaryTable == 2 * BlockSize
(* Wrong variant of SecondaryTable: one block further.                     *)
SecondaryTableOneOff ==
  (LbaBackup(img_size) - BackupTableBlocks + 1) * BlockSize

(* Where write and _write_crc put the backup table.                        *)
SecondaryTable == (LbaBackup(img_size) - BackupTableBlocks) * BlockSize

-----------------------------------------------------------------------------
(* main: nothing is touched before the inputs are checked; then the        *)
(* previous image goes and the new file is opened.                         *)

InputsOk(b) == tlb # <<>> /\ \A l \in AndroidPartitions : b[l] # Missing

(* Wrong variant of StartImage: the previous image is not replaced.        *)
StartImageInPlace ==
  /\ pc = "laid"
  /\ \E b \in Binaries(cfg) : InputsOk(b) /\ binaries' = b
  /\ disk' = <<>>
  /\ pc' = "headers"
  /\ pos' = 0
  /\ UNCHANGED <<cfg, img_size, tlb, start_lba, part, slot, last, remaining,
                 new_begin, image>>

StartImage ==
  /\ pc = "laid"
  /\ \E b \in Binaries(cfg) : InputsOk(b) /\ binaries' = b
  /\ image' = "new"
  /\ disk' = <<>>
  /\ pc' = "headers"
  /\ pos' = 0
  /\ UNCHANGED <<cfg, img_size, tlb, start_lba, part, slot, last, remaining,
                 new_begin>>

RejectInputs ==
  /\ pc = "laid"
  /\ \E b \in Binaries(cfg) : ~InputsOk(b)
  /\ pc' = "failed"
  /\ UNCHANGED <<cfg, img_size, tlb, start_lba, part, slot, pos, last,
                 remaining, new_begin, binaries, image, disk>>

laidOut == <<cfg, img_size, tlb, start_lba, part, slot, last, remaining,
             new_begin, binaries, image>>

(* GPTImage.write up to GPTHeaderInfos.write: zero the header area, then   *)
(* the MBR, then both headers, each stuffed to the end of its block.       *)
WriteHeaders ==
  /\ pc = "headers"
  /\ LET stuffing == Zeros(BlockSize - HeaderSize)
         area   == Write(disk, 0, Zeros(PrimaryTable + TableBytes))
         mbr    == Write(area, 0, Mbr)
         first  == Write(mbr, BlockSize, Header("primary") \o stuffing)
     IN  disk' = Write(first, LbaBackup(img_size) * BlockSize,
                       Header("backup") \o stuffing)
  /\ pc' = "table"
  /\ UNCHANGED <<laidOut, pos>>

(* TableEntryInfos.write knows a GUID for the type of the entry, and its   *)
(* last block is a number pack takes.                                      *)
Typed(e) == /\ \/ e.type \in PlainTypes
               \/ e.type = "linux" /\ <<e.label, e.suffix>> \in LinuxLabels
            /\ EndOf(e) >= 1

(* The entries 1..n, one behind the other.                                 *)
Entries(n) == [c \in 1..(n * EntrySize) |-> <<"entry", c>>]

(* PartTableInfos.write: all entries at "offset", then a copy of them at   *)
(* the byte offset lba_last + 1.                                           *)
PutTable(d, offset) ==
  Write(Write(d, offset, Entries(Len(tlb))), LbaLast(img_size) + 1,
        Entries(Len(tlb)))

TableOffset == IF pc = "table" THEN PrimaryTable ELSE SecondaryTable

WriteTable ==
  /\ pc \in {"table", "backup"}
  /\ \A i \in DOMAIN tlb : Typed(tlb[i])
  /\ disk' = PutTable(disk, TableOffset)
  /\ pc' = IF pc = "table" THEN "backup" ELSE "partitions"
  /\ UNCHANGED <<laidOut, pos>>

(* The first entry of unknown type ends the program: those before it are   *)
(* in the file already.                                                    *)
UnknownType ==
  /\ pc = "table"
  /\ \E i \in DOMAIN tlb :
       /\ ~Typed(tlb[i])
       /\ \A j \in 1..(i - 1) : Typed(tlb[j])
       /\ disk' = Write(disk, TableOffset, Entries(i - 1))
  /\ pc' = "failed"
  /\ UNCHANGED <<laidOut, pos>>

-----------------------------------------------------------------------------
(* _write_partitions, one entry a step.                                    *)

(* "_c" is not a suffix the code strips: no option has such a name.        *)
HasOption(e) == e.suffix # "_c" /\ e.label \in AndroidPartitions

Flashed(e) == binaries[e.label] # None /\ e.suffix # "_b"

(* Wrong variant of TooLarge: a binary of the partition's size is refused. *)
TooLargeOrExact(e) == e.size <= binaries[e.label] \div BlockSize

(* Compared in blocks, the binary's rounded down.                          *)
TooLarge(e) == e.size < binaries[e.label] \div BlockSize

(* Wrong variant of WritePartition: offsets count from the first partition.*)
WritePartitionRelative ==
  /\ pc = "partitions"
  /\ pos < Len(tlb)
  /\ LET e == tlb[pos + 1]
     IN  /\ HasOption(e)
         /\ ~(Flashed(e) /\ TooLarge(e))
         /\ disk' = Write(disk, (e.begin - tlb[1].begin) * BlockSize,
                          IF Flashed(e) THEN Data(e.label, binaries[e.label])
                                        ELSE <<Zero>>)
  /\ pos' = pos + 1
  /\ UNCHANGED <<laidOut, pc>>

WritePartition ==
  /\ pc = "partitions"
  /\ pos < Len(tlb)
  /\ LET e == tlb[pos + 1]
     IN  /\ HasOption(e)
         /\ ~(Flashed(e) /\ TooLarge(e))
         /\ disk' = Write(disk, e.begin * BlockSize,
                          IF Flashed(e) THEN Data(e.label, binaries[e.label])
                                        ELSE <<Zero>>)
  /\ pos' = pos + 1
  /\ UNCHANGED <<laidOut, pc>>

(* _write_crc: the checksums of both tables into the headers, then those   *)
(* of the headers. The backup header is sought from the end of the image.  *)
WithCrcs(d) ==
  LET tail == img_size - BlockSize
      put(c, at, cells) == Write(c, at, <<Crc32(cells)>>)
      d1 == put(d, BlockSize + TableCrcAt, Read(d, PrimaryTable, TableBytes))
      d2 == put(d1, tail + TableCrcAt, Read(d, SecondaryTable, TableBytes))
      d3 == put(d2, BlockSize + CrcAt, Read(d2, BlockSize, HeaderSize))
  IN  put(d3, tail + CrcAt, Read(d3, tail, HeaderSize))

(* Wrong variant of PartitionFails: the checksums are written all the same.*)
PartitionFailsWithCrcs ==
  /\ pc = "partitions"
  /\ pos < Len(tlb)
  /\ LET e == tlb[pos + 1]
     IN  HasOption(e) => Flashed(e) /\ TooLarge(e)
  /\ disk' = WithCrcs(disk)
  /\ pc' = "failed"
  /\ UNCHANGED <<laidOut, pos>>

(* A KeyError or the size check ends the program.                          *)
PartitionFails ==
  /\ pc = "partitions"
  /\ pos < Len(tlb)
  /\ LET e == tlb[pos + 1]
     IN  HasOption(e) => Flashed(e) /\ TooLarge(e)
  /\ pc' = "failed"
  /\ UNCHANGED <<laidOut, pos, disk>>

WriteCrc ==
  /\ pc = "partitions"
  /\ pos = Len(tlb)
  /\ disk' = WithCrcs(disk)
  /\ pc' = "written"
  /\ UNCHANGED <<laidOut, pos>>

(* GPTImage.read unpacks the headers and the table and checks nothing.     *)
ReadBack ==
  /\ pc = "written"
  /\ pc' = "done"
  /\ UNCHANGED <<laidOut, pos, disk>>

-----------------------------------------------------------------------------

ImageInit ==
  /\ LayoutInit
  /\ binaries = <<>>
  /\ image \in {"none", "old"}
  /\ disk = <<>>

LayOut == LayoutNext /\ UNCHANGED <<binaries, image, disk>>

ImageNext ==
  \/ LayOut
  \/ StartImage \/ RejectInputs
  \/ WriteHeaders \/ WriteTable \/ UnknownType
  \/ WritePartition \/ PartitionFails
  \/ WriteCrc \/ ReadBack

(* One process, which is scheduled until it exits.                         *)
ImageSpec == ImageInit /\ [][ImageNext]_imageVars /\ WF_imageVars(ImageNext)

-----------------------------------------------------------------------------
(* Properties.                                                             *)

ImageTypeOK ==
  /\ LayoutTypeOK
  /\ pc \in Groups \cup {"measure", "recompute", "laid", "headers", "table",
                         "backup", "partitions", "written", "done", "failed"}
  /\ binaries \in Binaries(cfg) \cup {<<>>}
  /\ image \in {"none", "old", "new"}
  /\ DOMAIN disk = 1..Len(disk)
  /\ image # "new" => disk = <<>>

(* What a GPT reader finds at header offset h and table offset t.          *)
HeaderValid(h, copy) ==
  /\ h + HeaderSize <= Len(disk)
  /\ disk[h + 1] = <<"header", copy>>
  /\ disk[h + CrcAt + 1] =
       Crc32([Read(disk, h, HeaderSize) EXCEPT ![CrcAt + 1] = Zero])

TableValid(h, t) ==
  LET table == Read(disk, t, TableBytes)
  IN  /\ table = Entries(Len(tlb)) \o Zeros(TableBytes - Len(tlb) * EntrySize)
      /\ disk[h + TableCrcAt + 1] = Crc32(table)

PrimaryValid == HeaderValid(BlockSize, "primary")
                  /\ TableValid(BlockSize, PrimaryTable)

(* The backup header is the last block, its table where it says.           *)
BackupHeaderAt == LbaBackup(img_size) * BlockSize
BackupValid == HeaderValid(BackupHeaderAt, "backup")
                 /\ TableValid(BackupHeaderAt, LbaStart(img_size) * BlockSize)

Written == pc \in {"written", "done"}

InUsable == \A i \in DOMAIN tlb : /\ LbaFirst <= tlb[i].begin
                                  /\ EndOf(tlb[i]) <= LbaLast(img_size) + 1

Disjoint == \A i, j \in DOMAIN tlb :
              i < j => \/ EndOf(tlb[i]) <= tlb[j].begin
                       \/ EndOf(tlb[j]) <= tlb[i].begin

Carries(e) == HasOption(e) /\ Flashed(e)
Fits(e) == Carries(e) => binaries[e.label] <= e.size * BlockSize
AllFit == \A i \in DOMAIN tlb : Fits(tlb[i])

(* Where no binary goes a zero is written at the begin of the partition,   *)
(* which is not its own if it has no block.                                *)
MarksFit == \A i \in DOMAIN tlb : Carries(tlb[i]) \/ tlb[i].size > 0

(* The size is a whole number of blocks; and the copy at the byte offset   *)
(* lba_last + 1 lands behind the primary table, as it does in any image of *)
(* more than 9 MiB.                                                        *)
UsualSize == /\ img_size % BlockSize = 0
             /\ LbaLast(img_size) >= LbaFirst * BlockSize

(* When the partitions lie between the tables and what is written for each *)
(* has room in it, the finished image has two valid copies of its table:   *)
(* signature, entries and checksums agree, though partitions and a stray   *)
(* copy of the entries are written after the tables they could hit.        *)
TablesIntact ==
  Written /\ UsualSize /\ InUsable /\ AllFit /\ MarksFit
    /\ Len(tlb) <= TableLength =>
    PrimaryValid /\ BackupValid

(* When moreover no two partitions overlap, each partition that takes a    *)
(* binary holds all of it, byte for byte.                                  *)
BinariesIntact ==
  Written /\ UsualSize /\ InUsable /\ AllFit /\ MarksFit /\ Disjoint =>
    \A i \in DOMAIN tlb :
      Carries(tlb[i]) =>
        Read(disk, tlb[i].begin * BlockSize, binaries[tlb[i].label])
          = Data(tlb[i].label, binaries[tlb[i].label])

(* A run that stops half way leaves a file without checksums: nobody takes *)
(* it for an image.                                                        *)
FailedIsInvalid == pc = "failed" /\ image = "new" => ~PrimaryValid

(* A run that fails has destroyed the previous image only because of an    *)
(* entry it looks at too late: of unknown type or label, or too small.     *)
LostImageExplained ==
  pc = "failed" /\ image = "new" =>
    \E i \in DOMAIN tlb : LET e == tlb[i]
                          IN  ~Typed(e) \/ ~HasOption(e) \/ ~Fits(e)

(* Every run ends, by exit(0) or by an error.                              *)
Terminates == <>(pc \in {"done", "failed"})

-----------------------------------------------------------------------------
(* What comments of the code say and the code does not do.                 *)

(* "sets lba start at the value of first lba used by GPT header"           *)
(* (GPTHeaderInfos.__init__): the backup table is where the backup header  *)
(* says, for blocks of any size.                                           *)
BackupTableFound ==
  Written /\ UsualSize /\ InUsable /\ AllFit /\ MarksFit => BackupValid

(* "checks if partition size is greather or equal to the binary file"      *)
(* (_write_partitions): no binary longer than its partition is written.    *)
FitIsChecked == Written => AllFit
=============================================================================
