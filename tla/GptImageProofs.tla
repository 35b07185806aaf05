---------------------------- MODULE GptImageProofs ----------------------------
(***************************************************************************)
(* Proofs about GptLayout and GptImage, for every partition file, image    *)
(* size, block size and set of binaries that the assumptions of the two    *)
(* allow.                                                                  *)
(*                                                                         *)
(* The layout comes first: its theorems are about LayoutSpec, and the      *)
(* lemmas about its steps serve the image too. The file of an image grows  *)
(* by writes at places of their own. The proofs follow three things        *)
(* through all of them: the cells of both headers, those of both tables,   *)
(* and those of the binaries written so far.                               *)
(***************************************************************************)
EXTENDS GptImage, TLAPS

-----------------------------------------------------------------------------
(* The layout.                                                             *)

(* The number of blocks of a length in MiB is an integer, not negative for *)
(* a positive length; other lengths (0, and -1 for open) stay as they are. *)
LEMMA BlocksInt ==
  ASSUME NEW r \in Int
  PROVE  /\ Blocks(r) \in Int
         /\ r > 0 => Blocks(r) >= 0
         /\ r <= 0 => Blocks(r) = r
  <1>1. CASE r > 0
    <2> DEFINE m == r * MB
    <2>1. m \in Nat
      BY <1>1, LayoutAssumption
    <2> HIDE DEF m
    <2>2. m \div BlockSize \in Nat
      BY <2>1, LayoutAssumption
    <2>3. Blocks(r) = m \div BlockSize
      BY <1>1 DEF Blocks, m
    <2> QED BY <1>1, <2>2, <2>3
  <1>2. CASE r <= 0
    BY <1>2 DEF Blocks
  <1> QED BY <1>1, <1>2

(* The capacity shared out is an integer, negative for small images.       *)
LEMMA CapacityInt == \A size \in Nat : Capacity(size) \in Int
  BY LayoutAssumption DEF Capacity

(* What the options of a section are, and that the reading loops look them *)
(* up inside their lists.                                                  *)
LEMMA ConfigFacts ==
  ASSUME NEW c \in Configs
  PROVE  /\ c.nb_slot \in 0..3
         /\ StartLba(c) \in Nat
         /\ \A g \in Groups : c.parts[g] \in Seq(Part)
  <1>1. c \in Config
    BY LayoutAssumption
  <1>2. DefaultStart \in Nat
    BY LayoutAssumption DEF DefaultStart
  <1>3. StartLba(c) \in Nat
    BY <1>1, <1>2 DEF Config, StartLba
  <1> QED BY <1>1, <1>3 DEF Config

(* The length and the begin _contruct_tlb_info reads are integers; without *)
(* an option start_lba the begin is the running start.                     *)
LEMMA EntryFacts ==
  ASSUME NEW p \in Part, NEW s \in 0..3, Readable(p, s), start_lba \in Int
  PROVE  /\ ReadlenOf(p, s) \in Int
         /\ BeginOf(p, s) \in Int
         /\ p.start_lba = <<>> => BeginOf(p, s) = start_lba
         /\ p.start_lba # <<>> => BeginOf(p, s) \in Nat
         /\ p.type \in STRING /\ p.label \in STRING
  <1>1. p.start_lba \in Seq(Nat) /\ p.len \in Seq(Int) /\ p.len # <<>>
        /\ p.type \in STRING /\ p.label \in STRING
    BY DEF Part
  <1>2. ReadlenOf(p, s) \in Int
    BY <1>1 DEF ReadlenOf
  <1>3. p.start_lba # <<>> => BeginOf(p, s) \in Nat
    BY <1>1 DEF BeginOf, Readable
  <1> QED BY <1>1, <1>2, <1>3 DEF BeginOf

(* A part has one slot or two.                                             *)
LEMMA NbSlotsFacts == \A p : NbSlots(p) \in 1..2
  BY DEF NbSlots

(* Every slot of a group has one of the suffixes.                          *)
LEMMA SlotSuffixFacts == \A s \in 0..3 : SlotSuffix(s) \in Suffixes
  BY DEF SlotSuffix, Suffixes

(* Replacing the begin and the size of an entry leaves its other fields.   *)
LEMMA EntryTyping ==
  ASSUME NEW e \in Entry
  PROVE  /\ e.begin \in Int /\ e.size \in Int
         /\ \A b, z \in Int : /\ Replace(e, b, z) \in Entry
                              /\ Replace(e, b, z).begin = b
                              /\ Replace(e, b, z).size = z
         /\ \A b, z : /\ Replace(e, b, z).type = e.type
                      /\ Replace(e, b, z).label = e.label
                      /\ Replace(e, b, z).suffix = e.suffix
  BY DEF Entry, Replace

(* What AppendEntry does to the list and to start_lba.                     *)
LEMMA AppendFacts ==
  ASSUME NEW p \in Part, NEW s \in 0..3, NEW x \in Suffixes,
         Readable(p, s), start_lba \in Int, tlb \in Seq(Entry),
         AppendEntry(p, s, x)
  PROVE  LET b == BeginOf(p, s)
             z == Blocks(ReadlenOf(p, s))
         IN  /\ tlb' \in Seq(Entry)
             /\ Len(tlb') = Len(tlb) + 1
             /\ \A i \in 1..Len(tlb) : tlb'[i] = tlb[i]
             /\ tlb'[Len(tlb) + 1].begin = b
             /\ tlb'[Len(tlb) + 1].size = z
             /\ b \in Int /\ z \in Int
             /\ start_lba' \in Int
             /\ z >= 0 /\ ReadlenOf(p, s) > 0 => start_lba' = b + z
             /\ ReadlenOf(p, s) <= 0 => start_lba' = start_lba /\ z <= 0
  <1> DEFINE b == BeginOf(p, s)
             z == Blocks(ReadlenOf(p, s))
             e == [begin |-> b, size |-> z, type |-> p.type,
                   label |-> p.label, suffix |-> x]
  <1>1. /\ b \in Int /\ z \in Int
        /\ ReadlenOf(p, s) \in Int
        /\ ReadlenOf(p, s) <= 0 => z <= 0
    BY EntryFacts, BlocksInt
  <1>2. e \in Entry
    BY <1>1, EntryFacts DEF Entry
  <1>3. tlb' = Append(tlb, e)
        /\ start_lba' = IF ReadlenOf(p, s) > 0 THEN b + z ELSE start_lba
    BY DEF AppendEntry
  <1>4. start_lba' \in Int
    BY <1>1, <1>3
  <1>5. tlb' \in Seq(Entry) /\ Len(tlb') = Len(tlb) + 1
    BY <1>2, <1>3
  <1>6. \A i \in 1..Len(tlb) : tlb'[i] = tlb[i]
    BY <1>2, <1>3
  <1>7. tlb'[Len(tlb) + 1] = e
    BY <1>2, <1>3
  <1>8. e.begin = b /\ e.size = z
    OBVIOUS
  <1> HIDE DEF e, b, z
  <1> QED BY <1>1, <1>3, <1>4, <1>5, <1>6, <1>7, <1>8 DEF b, z

-----------------------------------------------------------------------------
(* The cursors of the loops start inside their lists.                      *)
LEMMA TypingInit == LayoutInit => TypeOK
  <1> SUFFICES ASSUME LayoutInit PROVE TypeOK
    OBVIOUS
  <1>1. Capacity(img_size) \in Int /\ StartLba(cfg) \in Nat
    BY CapacityInt, ConfigFacts, LayoutAssumption DEF LayoutInit
  <1> QED BY <1>1 DEF LayoutInit, TypeOK, LayoutTypeOK, Groups

(* No turn of a loop leaves the list it walks, whatever the file says.     *)
LEMMA TypingStep == TypeOK /\ [LayoutNext]_layoutVars => TypeOK'
  <1> SUFFICES ASSUME TypeOK, [LayoutNext]_layoutVars PROVE TypeOK'
    OBVIOUS
  <1> USE DEF TypeOK, LayoutTypeOK
  <1>1. CASE ReadPart
    <2> DEFINE p == Parts[part]
               x == PartSuffix(p, slot)
    <2>1. p \in Part
      <3>1. pc \in Groups
        BY <1>1 DEF ReadPart, Groups
      <3>2. Parts \in Seq(Part)
        BY <3>1, ConfigFacts DEF Parts
      <3> QED BY <1>1, <3>2 DEF ReadPart
    <2>2. x \in Suffixes
      BY SlotSuffixFacts DEF Suffixes, PartSuffix
    <2>3. Readable(p, slot) /\ AppendEntry(p, slot, x)
      BY <1>1 DEF ReadPart
    <2>4. tlb' \in Seq(Entry) /\ Len(tlb') = Len(tlb) + 1 /\ start_lba' \in Int
      BY <2>1, <2>2, <2>3, AppendFacts
    <2>5. slot' \in 0..3 /\ part' \in Nat \ {0}
      <3>1. NbSlots(p) \in 1..2
        BY NbSlotsFacts
      <3> QED BY <1>1, <3>1 DEF ReadPart
    <2> QED BY <1>1, <2>4, <2>5 DEF ReadPart
  <1>2. CASE ReadGroupPart
    <2> DEFINE p == Parts[part]
    <2>1. p \in Part
      <3>1. pc \in Groups
        BY <1>2 DEF ReadGroupPart, Groups
      <3>2. Parts \in Seq(Part)
        BY <3>1, ConfigFacts DEF Parts
      <3> QED BY <1>2, <3>2 DEF ReadGroupPart
    <2>2. Readable(p, slot) /\ AppendEntry(p, slot, SlotSuffix(slot))
      BY <1>2 DEF ReadGroupPart
    <2>3. tlb' \in Seq(Entry) /\ Len(tlb') = Len(tlb) + 1 /\ start_lba' \in Int
      BY <2>1, <2>2, SlotSuffixFacts, AppendFacts
    <2>4. slot' \in 0..3 /\ part' \in Nat \ {0}
      <3>1. cfg.nb_slot \in 0..3
        BY ConfigFacts
      <3>2. slot < cfg.nb_slot
        BY <1>2 DEF ReadGroupPart
      <3>3. \/ part' = 1 /\ slot' = slot + 1
            \/ part' = part + 1 /\ slot' = slot
        BY <1>2 DEF ReadGroupPart
      <3> QED BY <3>1, <3>2, <3>3
    <2> QED BY <1>2, <2>3, <2>4 DEF ReadGroupPart
  <1>3. CASE NextGroup
    BY <1>3 DEF NextGroup, Groups
  <1>4. CASE ReadFails
    BY <1>4 DEF ReadFails
  <1>5. CASE MeasureEntry
    <2>1. tlb[pos + 1] \in Entry
      BY <1>5 DEF MeasureEntry
    <2>2. tlb[pos + 1].size \in Int
      BY <2>1, EntryTyping
    <2> QED BY <1>5, <2>2 DEF MeasureEntry
  <1>6. CASE NothingOpen \/ ImageTooSmall
    BY <1>6 DEF NothingOpen, ImageTooSmall
  <1>7. CASE FillLast
    <2>1. tlb[last] \in Entry
      BY <1>7 DEF FillLast
    <2>2. Replace(tlb[last], tlb[last].begin, remaining) \in Entry
      BY <2>1, EntryTyping
    <2> QED BY <1>7, <2>2 DEF FillLast
  <1>8. CASE RecomputeEntry
    <2>1. tlb[pos + 1] \in Entry
      BY <1>8 DEF RecomputeEntry
    <2>2. /\ tlb[pos + 1].size \in Int /\ tlb[pos + 1].begin \in Int
          /\ Replace(tlb[pos + 1], new_begin, tlb[pos + 1].size) \in Entry
      BY <2>1, EntryTyping
    <2> QED BY <1>8, <2>2 DEF RecomputeEntry
  <1>9. CASE RecomputeDone
    BY <1>9 DEF RecomputeDone
  <1>10. CASE UNCHANGED layoutVars
    BY <1>10 DEF layoutVars
  <1> QED BY <1>1, <1>2, <1>3, <1>4, <1>5, <1>6, <1>7, <1>8, <1>9, <1>10
          DEF LayoutNext

(* The variables keep their types: cursors and positions stay within the   *)
(* list they walk, whatever the file says.                                 *)
THEOREM LayoutTyping == LayoutSpec => []TypeOK
  BY TypingInit, TypingStep, PTL DEF LayoutSpec

-----------------------------------------------------------------------------
(* The inductive invariant behind NoOverlap, FillsImage and InsideUsable.  *)

Ordered(n) ==
  \A i, j \in 1..n : i < j => EndOf(tlb[i]) <= tlb[j].begin

BeginsNat == start_lba >= 0 /\ \A i \in 1..Len(tlb) : tlb[i].begin >= 0

(* Before the loops over the list; without pinned parts the list is laid   *)
(* already and start_lba is behind all of it.                              *)
ReadInv ==
  /\ pc \in Groups => /\ pos = 0 /\ last = 0 /\ new_begin = -1
                      /\ remaining = Capacity(img_size)
  /\ pc \in Groups \cup {"measure"} /\ Unpinned(cfg) =>
       /\ Ordered(Len(tlb))
       /\ \A i \in 1..Len(tlb) : EndOf(tlb[i]) <= start_lba

(* "remaining" has lost the sizes passed so far, the open one excepted: p  *)
(* is the sequence of their sums.                                          *)
MeasuredSum ==
  \E p \in [0..Len(tlb) -> Int] :
    /\ p[0] = 0
    /\ \A k \in 1..pos : p[k] = p[k - 1] + (IF k = last THEN 0 ELSE tlb[k].size)
    /\ remaining = Capacity(img_size) - p[pos]

MeasureInv ==
  pc = "measure" =>
    /\ new_begin = -1
    /\ last <= pos
    /\ last # 0 => tlb[last].size < 0
    /\ \A k \in 1..pos : k # last => tlb[k].size >= 0
    /\ MeasuredSum

(* All sizes together are the capacity, and new_begin is the end of the    *)
(* part of the list that is laid.                                          *)
FilledSum ==
  \E p \in [0..Len(tlb) -> Int] :
    /\ p[0] = 0
    /\ \A k \in 1..Len(tlb) : p[k] = p[k - 1] + tlb[k].size
    /\ p[Len(tlb)] = Capacity(img_size)
    /\ pos > 0 => new_begin = tlb[1].begin + p[pos]

SizesNat == \A k \in 1..Len(tlb) : tlb[k].size >= 0

RecomputeInv ==
  pc = "recompute" =>
    /\ last # 0
    /\ SizesNat
    /\ FilledSum
    /\ Ordered(pos)
    /\ IF pos = 0 THEN new_begin = -1
       ELSE /\ new_begin >= 0
            /\ new_begin = EndOf(tlb[pos])
            /\ \A i \in 1..pos : EndOf(tlb[i]) <= new_begin

LaidInv ==
  pc = "laid" =>
    /\ last # 0 \/ Unpinned(cfg) => Ordered(Len(tlb))
    /\ last # 0 => SizesNat /\ FillsImage

IInv == TypeOK /\ BeginsNat /\ ReadInv /\ MeasureInv /\ RecomputeInv /\ LaidInv

-----------------------------------------------------------------------------
(* The reading loops.                                                      *)

(* Appending an unpinned entry keeps a list ordered that lies before the   *)
(* running start; no begin becomes negative.                               *)
LEMMA AppendKeepsOrder ==
  ASSUME NEW p \in Part, NEW s \in 0..3, NEW x \in Suffixes, TypeOK, BeginsNat,
         Readable(p, s), AppendEntry(p, s, x)
  PROVE  /\ BeginsNat'
         /\ (/\ p.start_lba = <<>> /\ Ordered(Len(tlb))
             /\ \A i \in 1..Len(tlb) : EndOf(tlb[i]) <= start_lba)
            => /\ Ordered(Len(tlb))'
               /\ (\A i \in 1..Len(tlb) : EndOf(tlb[i]) <= start_lba)'
  <1> DEFINE b == BeginOf(p, s)
             z == Blocks(ReadlenOf(p, s))
             n == Len(tlb)
  <1>1. /\ tlb' \in Seq(Entry)
        /\ Len(tlb') = n + 1
        /\ \A i \in 1..n : tlb'[i] = tlb[i]
        /\ tlb'[n + 1].begin = b
        /\ tlb'[n + 1].size = z
        /\ b \in Int /\ z \in Int
        /\ start_lba' \in Int
        /\ z >= 0 /\ ReadlenOf(p, s) > 0 => start_lba' = b + z
        /\ ReadlenOf(p, s) <= 0 => start_lba' = start_lba /\ z <= 0
    BY AppendFacts DEF TypeOK, LayoutTypeOK
  <1>2. /\ ReadlenOf(p, s) \in Int
        /\ ReadlenOf(p, s) > 0 => z >= 0
        /\ p.start_lba = <<>> => b = start_lba
        /\ p.start_lba # <<>> => b \in Nat
    BY EntryFacts, BlocksInt DEF TypeOK, LayoutTypeOK
  <1>3. start_lba \in Int /\ start_lba >= 0 /\ n \in Nat
        /\ \A i \in 1..n : tlb[i].begin \in Int /\ tlb[i].size \in Int
    <2>1. \A i \in 1..n : tlb[i] \in Entry
      BY DEF TypeOK, LayoutTypeOK
    <2> QED BY <2>1, EntryTyping DEF TypeOK, LayoutTypeOK, BeginsNat
  <1> HIDE DEF b, z, n
  <1>4. b >= 0 /\ start_lba' >= 0
    BY <1>1, <1>2, <1>3
  <1>5. BeginsNat'
    <2>1. \A i \in 1..n : tlb'[i].begin >= 0
      BY <1>1 DEF BeginsNat, n
    <2>2. \A i \in 1..(n + 1) : tlb'[i].begin >= 0
      BY <1>1, <1>3, <1>4, <2>1
    <2> QED BY <1>1, <1>4, <2>2 DEF BeginsNat
  <1>6. ASSUME p.start_lba = <<>>, Ordered(n),
               \A i \in 1..n : EndOf(tlb[i]) <= start_lba
        PROVE  /\ Ordered(Len(tlb))'
               /\ (\A i \in 1..Len(tlb) : EndOf(tlb[i]) <= start_lba)'
    <2>1. b = start_lba /\ b + z <= start_lba' /\ start_lba <= start_lba'
      BY <1>1, <1>2, <1>3, <1>6
    <2>2. \A i \in 1..n : EndOf(tlb'[i]) = EndOf(tlb[i])
      BY <1>1
    <2>3. EndOf(tlb'[n + 1]) = b + z
      BY <1>1 DEF EndOf
    <2>4. \A i \in 1..n : EndOf(tlb'[i]) \in Int
      BY <1>3, <2>2 DEF EndOf
    <2>5. \A i \in 1..(n + 1) : EndOf(tlb'[i]) <= start_lba'
      BY <1>1, <1>3, <1>6, <2>1, <2>2, <2>3, <2>4
    <2>6. ASSUME NEW i \in 1..(n + 1), NEW j \in 1..(n + 1), i < j
          PROVE  EndOf(tlb'[i]) <= tlb'[j].begin
      <3>1. i \in 1..n
        BY <1>3, <2>6
      <3>2. CASE j = n + 1
        BY <1>1, <1>6, <2>1, <2>2, <3>1, <3>2
      <3>3. CASE j # n + 1
        <4>1. j \in 1..n
          BY <1>3, <3>3
        <4> QED BY <1>1, <1>6, <2>2, <2>6, <3>1, <4>1 DEF Ordered
      <3> QED BY <3>2, <3>3
    <2> QED BY <1>1, <2>5, <2>6 DEF Ordered
  <1> QED BY <1>5, <1>6 DEF n

(* What the typing gives about the entries of the list.                    *)
LEMMA ListTyping ==
  ASSUME TypeOK
  PROVE  /\ Len(tlb) \in Nat
         /\ tlb \in Seq(Entry)
         /\ \A i \in 1..Len(tlb) : /\ tlb[i] \in Entry
                                   /\ tlb[i].begin \in Int
                                   /\ tlb[i].size \in Int
                                   /\ EndOf(tlb[i]) \in Int
         /\ Capacity(img_size) \in Int
  <1>1. tlb \in Seq(Entry) /\ Len(tlb) \in Nat
    BY DEF TypeOK, LayoutTypeOK
  <1>2. \A i \in 1..Len(tlb) : tlb[i] \in Entry
    BY <1>1
  <1>3. \A i \in 1..Len(tlb) : tlb[i].begin \in Int /\ tlb[i].size \in Int
    BY <1>2, EntryTyping
  <1>4. Capacity(img_size) \in Int
    BY CapacityInt, LayoutAssumption DEF TypeOK, LayoutTypeOK
  <1> QED BY <1>1, <1>2, <1>3, <1>4 DEF EndOf

(* _read_ini maintains the invariant when it appends an entry.             *)
LEMMA ReadStep ==
  IInv /\ TypeOK' /\ (ReadPart \/ ReadGroupPart) => IInv'
  <1> SUFFICES ASSUME IInv, TypeOK', ReadPart \/ ReadGroupPart
               PROVE  IInv'
    OBVIOUS
  <1> DEFINE p == Parts[part]
  <1>1. /\ pc \in Groups /\ pc' = pc /\ cfg' = cfg /\ img_size' = img_size
        /\ UNCHANGED <<pos, last, remaining, new_begin>>
    BY DEF ReadPart, ReadGroupPart, Groups
  <1>2. pc # "measure" /\ pc # "recompute" /\ pc # "laid"
    BY <1>1 DEF Groups
  <1>3. part \in 1..Len(Parts) /\ Parts \in Seq(Part)
    <2>1. Parts \in Seq(Part) /\ part \in Nat \ {0}
      BY <1>1, ConfigFacts DEF IInv, TypeOK, LayoutTypeOK, Parts
    <2>2. part <= Len(Parts)
      BY DEF ReadPart, ReadGroupPart
    <2> QED BY <2>1, <2>2
  <1>4. p \in Part
    BY <1>3
  <1>5. PICK x \in Suffixes : Readable(p, slot) /\ AppendEntry(p, slot, x)
    <2>1. slot \in 0..3
      BY DEF IInv, TypeOK, LayoutTypeOK
    <2>2. PartSuffix(p, slot) \in Suffixes /\ SlotSuffix(slot) \in Suffixes
      BY <2>1, SlotSuffixFacts DEF PartSuffix, Suffixes
    <2>3. CASE ReadPart
      BY <2>2, <2>3 DEF ReadPart
    <2>4. CASE ReadGroupPart
      BY <2>2, <2>4 DEF ReadGroupPart
    <2> QED BY <2>3, <2>4
  <1>6. Unpinned(cfg) => p.start_lba = <<>>
    <2>1. DOMAIN Parts = 1..Len(Parts)
      BY <1>3
    <2>2. part \in DOMAIN cfg.parts[pc]
      BY <1>3, <2>1 DEF Parts
    <2> QED BY <1>1, <2>2 DEF Unpinned, Parts
  <1> HIDE DEF p
  <1>7. /\ BeginsNat'
        /\ (/\ p.start_lba = <<>> /\ Ordered(Len(tlb))
            /\ \A i \in 1..Len(tlb) : EndOf(tlb[i]) <= start_lba)
           => /\ Ordered(Len(tlb))'
              /\ (\A i \in 1..Len(tlb) : EndOf(tlb[i]) <= start_lba)'
    BY <1>4, <1>5, AppendKeepsOrder DEF IInv, TypeOK, LayoutTypeOK
  <1>8. ReadInv'
    <2>1. Unpinned(cfg)' = Unpinned(cfg)
      BY <1>1 DEF Unpinned
    <2>2. ReadInv
      BY DEF IInv
    <2> QED BY <1>1, <1>6, <1>7, <2>1, <2>2 DEF ReadInv
  <1>9. MeasureInv' /\ RecomputeInv' /\ LaidInv'
    BY <1>1, <1>2 DEF MeasureInv, RecomputeInv, LaidInv
  <1> QED BY <1>7, <1>8, <1>9 DEF IInv

(* _read_ini maintains the invariant when it goes to the next group, or to *)
(* the measuring of the list behind the last one.                          *)
LEMMA NextGroupStep ==
  IInv /\ TypeOK' /\ NextGroup => IInv'
  <1> SUFFICES ASSUME IInv, TypeOK', NextGroup PROVE IInv'
    OBVIOUS
  <1>1. /\ pc \in Groups
        /\ pc' \in Groups \cup {"measure"}
        /\ UNCHANGED <<cfg, img_size, tlb, start_lba, pos, last, remaining,
                       new_begin>>
    BY DEF NextGroup, Groups
  <1>2. pc' # "recompute" /\ pc' # "laid"
    BY <1>1 DEF Groups
  <1>3. pos = 0 /\ last = 0 /\ new_begin = -1 /\ remaining = Capacity(img_size)
    BY <1>1 DEF IInv, ReadInv
  <1>4. BeginsNat' /\ ReadInv'
    BY <1>1, <1>3 DEF IInv, BeginsNat, ReadInv, Ordered, EndOf, Unpinned, Capacity
  <1>5. MeasureInv'
    <2> DEFINE p == [k \in 0..Len(tlb) |-> 0]
    <2>1. p \in [0..Len(tlb) -> Int] /\ p[0] = 0
      BY ListTyping DEF IInv
    <2>2. remaining = Capacity(img_size) - p[pos]
      BY <1>3, <2>1, ListTyping DEF IInv
    <2> HIDE DEF p
    <2>3. MeasuredSum
      BY <1>3, <2>1, <2>2 DEF MeasuredSum
    <2>4. MeasuredSum'
      BY <1>1, <2>3 DEF MeasuredSum, Capacity
    <2> QED BY <1>1, <1>3, <2>4 DEF MeasureInv
  <1>6. RecomputeInv' /\ LaidInv'
    BY <1>2 DEF RecomputeInv, LaidInv
  <1> QED BY <1>4, <1>5, <1>6 DEF IInv

-----------------------------------------------------------------------------
(* compute_last_size_entry.                                                *)

(* compute_last_size_entry maintains the invariant when it measures one    *)
(* entry: the sum of the sizes seen grows by its size.                     *)
LEMMA MeasureStep ==
  IInv /\ TypeOK' /\ MeasureEntry => IInv'
  <1> SUFFICES ASSUME IInv, TypeOK', MeasureEntry PROVE IInv'
    OBVIOUS
  <1> DEFINE n == Len(tlb)
             e == tlb[pos + 1]
  <1>1. /\ pc = "measure" /\ pos < n /\ pos' = pos + 1
        /\ pc' = "measure" \/ pc' = "failed"
        /\ UNCHANGED <<cfg, img_size, tlb, start_lba, new_begin>>
    BY DEF MeasureEntry
  <1>2. /\ n \in Nat /\ pos \in 0..n /\ last \in 0..n /\ remaining \in Int
        /\ e.size \in Int
        /\ \A i \in 1..n : tlb[i].size \in Int
        /\ Capacity(img_size) \in Int
    BY <1>1, ListTyping DEF IInv, TypeOK, LayoutTypeOK
  <1>3. BeginsNat'
    BY <1>1 DEF IInv, BeginsNat
  <1>4. ReadInv'
    BY <1>1 DEF IInv, ReadInv, Ordered, EndOf, Unpinned, Groups
  <1>5. RecomputeInv' /\ LaidInv'
    BY <1>1 DEF RecomputeInv, LaidInv
  <1>6. MeasureInv'
    <2> SUFFICES ASSUME pc' = "measure" PROVE MeasureInv'
      BY DEF MeasureInv
    <2>1. /\ new_begin = -1 /\ last <= pos
          /\ last # 0 => tlb[last].size < 0
          /\ \A k \in 1..pos : k # last => tlb[k].size >= 0
      BY <1>1 DEF IInv, MeasureInv
    <2>2. PICK p \in [0..n -> Int] :
            /\ p[0] = 0
            /\ \A k \in 1..pos :
                 p[k] = p[k - 1] + (IF k = last THEN 0 ELSE tlb[k].size)
            /\ remaining = Capacity(img_size) - p[pos]
      BY <1>1 DEF IInv, MeasureInv, MeasuredSum
    <2>3. \/ e.size < 0 /\ last = 0 /\ last' = pos + 1 /\ remaining' = remaining
          \/ e.size >= 0 /\ last' = last /\ remaining' = remaining - e.size
      BY <1>1 DEF MeasureEntry
    <2>4. /\ new_begin' = -1 /\ last' <= pos'
          /\ last' # 0 => tlb'[last'].size < 0
          /\ \A k \in 1..pos' : k # last' => tlb'[k].size >= 0
      <3>1. last' <= pos' /\ (last' # 0 => tlb[last'].size < 0)
        BY <1>1, <1>2, <2>1, <2>3
      <3>2. ASSUME NEW k \in 1..pos', k # last' PROVE tlb[k].size >= 0
        <4>1. k = pos + 1 \/ k \in 1..pos
          BY <1>1, <1>2, <3>2
        <4> QED BY <1>2, <2>1, <2>3, <3>2, <4>1
      <3> QED BY <1>1, <2>1, <3>1, <3>2
    <2>5. MeasuredSum'
      <3> DEFINE d == IF pos + 1 = last' THEN 0 ELSE e.size
                 q == [p EXCEPT ![pos + 1] = p[pos] + d]
      <3>1. d \in Int /\ p[pos] \in Int /\ pos + 1 \in 0..n
        <4>1. d \in Int
          BY <1>2
        <4>2. p[pos] \in Int
          BY <1>2, <2>2
        <4>3. pos + 1 \in 0..n
          BY <1>1, <1>2
        <4> QED BY <4>1, <4>2, <4>3
      <3>2. q \in [0..n -> Int] /\ q[pos + 1] = p[pos] + d
            /\ \A k \in 0..pos : q[k] = p[k]
        BY <1>1, <1>2, <2>2, <3>1
      <3>3. q[0] = 0
        BY <1>2, <2>2, <3>2
      <3>4. remaining' = Capacity(img_size) - q[pos + 1]
        BY <1>1, <1>2, <2>1, <2>2, <2>3, <3>1, <3>2
      <3> HIDE DEF q
      <3>5. ASSUME NEW k \in 1..(pos + 1)
            PROVE q[k] = q[k - 1] + (IF k = last' THEN 0 ELSE tlb[k].size)
        <4>1. CASE k = pos + 1
          BY <1>2, <3>2, <4>1
        <4>2. CASE k # pos + 1
          <5>1. k \in 1..pos /\ k - 1 \in 0..pos
            BY <1>2, <3>5, <4>2
          <5>2. k = last' <=> k = last
            BY <1>2, <2>1, <2>3, <5>1
          <5> QED BY <2>2, <3>2, <5>1, <5>2
        <4> QED BY <4>1, <4>2
      <3>6. /\ pos' = pos + 1 /\ Len(tlb)' = n /\ tlb' = tlb
            /\ Capacity(img_size)' = Capacity(img_size)
        BY <1>1 DEF Capacity
      <3>7. \E f \in [0..Len(tlb)' -> Int] :
              /\ f[0] = 0
              /\ \A k \in 1..pos' :
                   f[k] = f[k - 1] + (IF k = last' THEN 0 ELSE tlb'[k].size)
              /\ remaining' = Capacity(img_size)' - f[pos']
        BY <3>2, <3>3, <3>4, <3>5, <3>6
      <3> QED BY <3>7 DEF MeasuredSum
    <2> QED BY <2>4, <2>5 DEF MeasureInv
  <1> QED BY <1>3, <1>4, <1>5, <1>6 DEF IInv

(* A list without an open entry is laid as it was read.                    *)
LEMMA NothingOpenStep ==
  IInv /\ TypeOK' /\ NothingOpen => IInv'
  <1> SUFFICES ASSUME IInv, TypeOK', NothingOpen PROVE IInv'
    OBVIOUS
  <1>1. /\ pc = "measure" /\ pc' = "laid" /\ last = 0
        /\ UNCHANGED <<cfg, img_size, tlb, start_lba, pos, last, remaining,
                       new_begin>>
    BY DEF NothingOpen
  <1>2. Unpinned(cfg) => Ordered(Len(tlb))
    BY <1>1 DEF IInv, ReadInv
  <1>3. LaidInv'
    BY <1>1, <1>2 DEF LaidInv, Ordered, EndOf, Unpinned
  <1>4. BeginsNat' /\ ReadInv' /\ MeasureInv' /\ RecomputeInv'
    BY <1>1 DEF IInv, BeginsNat, ReadInv, MeasureInv, RecomputeInv, Groups
  <1> QED BY <1>3, <1>4 DEF IInv

(* A run that fails needs nothing of the invariant.                        *)
LEMMA FailStep ==
  IInv /\ TypeOK' /\ (ImageTooSmall \/ ReadFails) => IInv'
  <1> SUFFICES ASSUME IInv, TypeOK', ImageTooSmall \/ ReadFails PROVE IInv'
    OBVIOUS
  <1>1. pc' = "failed" /\ UNCHANGED <<tlb, start_lba>>
    BY DEF ImageTooSmall, ReadFails
  <1> QED BY <1>1 DEF IInv, BeginsNat, ReadInv, MeasureInv, RecomputeInv,
                      LaidInv, Groups

(* Giving the open entry what remains makes all sizes add up to the        *)
(* capacity.                                                               *)
LEMMA FillStep ==
  IInv /\ TypeOK' /\ FillLast => IInv'
  <1> SUFFICES ASSUME IInv, TypeOK', FillLast PROVE IInv'
    OBVIOUS
  <1> DEFINE n == Len(tlb)
             e == Replace(tlb[last], tlb[last].begin, remaining)
  <1>1. /\ pc = "measure" /\ pos = n /\ last # 0 /\ remaining >= 0
        /\ tlb' = [tlb EXCEPT ![last] = e]
        /\ pc' = "recompute" /\ pos' = 0
        /\ UNCHANGED <<cfg, img_size, start_lba, last, remaining, new_begin>>
    BY DEF FillLast
  <1>2. /\ n \in Nat /\ last \in 1..n /\ remaining \in Int
        /\ tlb \in Seq(Entry)
        /\ \A i \in 1..n : tlb[i] \in Entry /\ tlb[i].size \in Int
        /\ Capacity(img_size) \in Int
    BY <1>1, ListTyping DEF IInv, TypeOK, LayoutTypeOK
  <1>3. e \in Entry /\ e.size = remaining /\ e.begin = tlb[last].begin
    <2>1. tlb[last] \in Entry
      BY <1>2
    <2> QED BY <1>2, <2>1, EntryTyping
  <1> HIDE DEF e
  <1>4. /\ Len(tlb') = n
        /\ \A i \in 1..n : tlb'[i] = IF i = last THEN e ELSE tlb[i]
    BY <1>1, <1>2, <1>3
  <1>5. /\ new_begin = -1
        /\ \A k \in 1..n : k # last => tlb[k].size >= 0
        /\ MeasuredSum
    BY <1>1 DEF IInv, MeasureInv
  <1>6. BeginsNat'
    <2>1. \A i \in 1..n : tlb[i].begin >= 0
      BY DEF IInv, BeginsNat
    <2>2. \A i \in 1..n : tlb'[i].begin >= 0
      BY <1>2, <1>3, <1>4, <2>1
    <2> QED BY <1>1, <1>4, <2>2 DEF IInv, BeginsNat
  <1>7. SizesNat'
    BY <1>1, <1>2, <1>3, <1>4, <1>5 DEF SizesNat
  <1>8. FilledSum'
    <2>1. PICK p \in [0..n -> Int] :
            /\ p[0] = 0
            /\ \A k \in 1..n :
                 p[k] = p[k - 1] + (IF k = last THEN 0 ELSE tlb[k].size)
            /\ remaining = Capacity(img_size) - p[n]
      BY <1>1, <1>5 DEF MeasuredSum
    <2> DEFINE q == [k \in 0..n |-> p[k] + (IF k >= last THEN remaining ELSE 0)]
    <2>2. \A k \in 0..n : p[k] \in Int
      BY <2>1
    <2>3. q \in [0..n -> Int] /\ q[0] = 0
      BY <1>2, <2>1, <2>2
    <2>4. q[n] = Capacity(img_size)
      BY <1>2, <2>1, <2>2
    <2>5. ASSUME NEW k \in 1..n PROVE q[k] = q[k - 1] + tlb'[k].size
      <3>1. k \in 0..n /\ k - 1 \in 0..n /\ k \in Int /\ last \in Int
        BY <1>2
      <3>2. p[k] \in Int /\ p[k - 1] \in Int /\ tlb[k].size \in Int
        BY <1>2, <2>2, <3>1
      <3>3. CASE k = last
        <4>1. p[k] = p[k - 1] /\ tlb'[k].size = remaining
          BY <1>3, <1>4, <2>1, <3>2, <3>3
        <4>2. q[k] = p[k] + remaining /\ q[k - 1] = p[k - 1]
          BY <3>1, <3>2, <3>3
        <4> QED BY <1>2, <3>2, <4>1, <4>2
      <3>4. CASE k < last
        <4>1. p[k] = p[k - 1] + tlb[k].size /\ tlb'[k].size = tlb[k].size
          BY <1>4, <2>1, <3>1, <3>4
        <4>2. q[k] = p[k] /\ q[k - 1] = p[k - 1]
          BY <3>1, <3>2, <3>4
        <4> QED BY <4>1, <4>2
      <3>5. CASE k > last
        <4>1. p[k] = p[k - 1] + tlb[k].size /\ tlb'[k].size = tlb[k].size
          BY <1>4, <2>1, <3>1, <3>5
        <4>2. q[k] = p[k] + remaining /\ q[k - 1] = p[k - 1] + remaining
          BY <3>1, <3>2, <3>5
        <4> QED BY <1>2, <3>2, <4>1, <4>2
      <3> QED BY <3>1, <3>3, <3>4, <3>5
    <2> HIDE DEF q
    <2>6. /\ Len(tlb)' = n /\ Capacity(img_size)' = Capacity(img_size) /\ pos' = 0
      BY <1>1, <1>4 DEF Capacity
    <2>7. \E f \in [0..Len(tlb)' -> Int] :
            /\ f[0] = 0
            /\ \A k \in 1..Len(tlb)' : f[k] = f[k - 1] + tlb'[k].size
            /\ f[Len(tlb)'] = Capacity(img_size)'
            /\ pos' > 0 => new_begin' = tlb'[1].begin + f[pos']
      BY <2>3, <2>4, <2>5, <2>6
    <2> QED BY <2>7 DEF FilledSum
  <1>9. Ordered(pos)'
    BY <1>1 DEF Ordered
  <1>10. RecomputeInv'
    BY <1>1, <1>5, <1>7, <1>8, <1>9 DEF RecomputeInv
  <1>11. ReadInv' /\ MeasureInv' /\ LaidInv'
    BY <1>1 DEF ReadInv, MeasureInv, LaidInv, Groups
  <1> QED BY <1>6, <1>10, <1>11 DEF IInv

-----------------------------------------------------------------------------
(* _recompute_partition_begin.                                             *)

(* _recompute_partition_begin maintains the invariant when it moves one    *)
(* entry behind the one before.                                            *)
LEMMA RecomputeStep ==
  IInv /\ TypeOK' /\ RecomputeEntry => IInv'
  <1> SUFFICES ASSUME IInv, TypeOK', RecomputeEntry PROVE IInv'
    OBVIOUS
  <1> DEFINE n == Len(tlb)
             c == pos + 1
  <1>1. /\ pc = "recompute" /\ pos < n /\ pos' = c /\ pc' = pc
        /\ UNCHANGED <<cfg, img_size, start_lba, last, remaining>>
    BY DEF RecomputeEntry
  <1>2. /\ n \in Nat /\ pos \in 0..n /\ c \in 1..n /\ new_begin \in Int
        /\ tlb \in Seq(Entry)
        /\ \A i \in 1..n : /\ tlb[i] \in Entry /\ tlb[i].begin \in Int
                           /\ tlb[i].size \in Int /\ EndOf(tlb[i]) \in Int
        /\ Capacity(img_size) \in Int
    BY <1>1, ListTyping DEF IInv, TypeOK, LayoutTypeOK
  <1>3. /\ last # 0 /\ SizesNat /\ FilledSum /\ Ordered(pos)
        /\ pos = 0 => new_begin = -1
        /\ pos # 0 => /\ new_begin >= 0
                      /\ new_begin = EndOf(tlb[pos])
                      /\ \A i \in 1..pos : EndOf(tlb[i]) <= new_begin
    BY <1>1 DEF IInv, RecomputeInv
  (* The begin the entry has after the step.                               *)
  <1> DEFINE b == IF pos = 0 THEN tlb[1].begin ELSE new_begin
  <1>4. b \in Int /\ b >= 0
    BY <1>2, <1>3 DEF IInv, BeginsNat
  <1>5. /\ Len(tlb') = n
        /\ \A i \in 1..n : /\ tlb'[i].size = tlb[i].size
                           /\ i # c => tlb'[i] = tlb[i]
        /\ tlb'[c].begin = b
        /\ new_begin' = b + tlb[c].size
    <2>1. CASE pos = 0
      <3>1. tlb' = tlb /\ new_begin' = tlb[c].begin + tlb[c].size /\ c = 1
        BY <1>3, <2>1 DEF RecomputeEntry
      <3> QED BY <2>1, <3>1
    <2>2. CASE pos # 0
      <3> DEFINE r == Replace(tlb[c], new_begin, tlb[c].size)
      <3>1. tlb' = [tlb EXCEPT ![c] = r] /\ new_begin' = new_begin + tlb[c].size
        <4>1. new_begin # -1
          BY <1>2, <1>3, <2>2
        <4> QED BY <4>1 DEF RecomputeEntry
      <3>2. r \in Entry /\ r.begin = new_begin /\ r.size = tlb[c].size
        <4>1. tlb[c] \in Entry /\ tlb[c].size \in Int
          BY <1>2
        <4> QED BY <1>2, <4>1, EntryTyping
      <3> HIDE DEF r
      <3>3. Len(tlb') = n /\ \A i \in 1..n : tlb'[i] = IF i = c THEN r ELSE tlb[i]
        BY <1>2, <3>1, <3>2
      <3> QED BY <1>2, <2>2, <3>1, <3>2, <3>3
    <2> QED BY <2>1, <2>2
  <1> HIDE DEF b
  <1>6. /\ tlb[c].size \in Int /\ tlb[c].size >= 0
        /\ EndOf(tlb'[c]) = b + tlb[c].size
        /\ \A i \in 1..pos : EndOf(tlb'[i]) = EndOf(tlb[i])
    <2>1. tlb[c].size \in Int /\ tlb[c].size >= 0
      BY <1>2, <1>3 DEF SizesNat
    <2>2. tlb'[c].begin = b /\ tlb'[c].size = tlb[c].size
      BY <1>2, <1>5
    <2>3. EndOf(tlb'[c]) = b + tlb[c].size
      BY <2>2 DEF EndOf
    <2>4. ASSUME NEW i \in 1..pos PROVE EndOf(tlb'[i]) = EndOf(tlb[i])
      <3>1. i \in 1..n /\ i # c
        BY <1>2
      <3>2. tlb'[i] = tlb[i]
        BY <1>5, <3>1
      <3> QED BY <3>2
    <2> QED BY <2>1, <2>3, <2>4
  <1>7. \A i \in 1..pos : EndOf(tlb[i]) <= b
    BY <1>2, <1>3 DEF b
  <1>8. BeginsNat'
    <2>1. \A i \in 1..n : tlb[i].begin >= 0
      BY DEF IInv, BeginsNat
    <2>2. \A i \in 1..n : tlb'[i].begin >= 0
      BY <1>2, <1>4, <1>5, <2>1
    <2> QED BY <1>1, <1>5, <2>2 DEF IInv, BeginsNat
  <1>9. SizesNat'
    BY <1>3, <1>5 DEF SizesNat
  <1>10. Ordered(pos)'
    <2> SUFFICES ASSUME NEW i \in 1..c, NEW j \in 1..c, i < j
                 PROVE  EndOf(tlb'[i]) <= tlb'[j].begin
      BY <1>1 DEF Ordered
    <2>1. i \in 1..pos /\ i \in 1..n /\ j \in 1..n
      BY <1>2
    <2>2. CASE j = c
      BY <1>5, <1>6, <1>7, <2>1, <2>2
    <2>3. CASE j # c
      <3>1. j \in 1..pos
        BY <1>2, <2>3
      <3> QED BY <1>3, <1>5, <1>6, <2>1, <2>3, <3>1 DEF Ordered
    <2> QED BY <2>2, <2>3
  <1>11. /\ new_begin' >= 0
         /\ new_begin' = EndOf(tlb'[c])
         /\ \A i \in 1..c : EndOf(tlb'[i]) <= new_begin'
    <2>1. new_begin' = b + tlb[c].size /\ new_begin' >= 0
      BY <1>4, <1>5, <1>6
    <2>2. ASSUME NEW i \in 1..c PROVE EndOf(tlb'[i]) <= new_begin'
      <3>1. CASE i = c
        BY <1>4, <1>6, <2>1, <3>1
      <3>2. CASE i # c
        <4>1. i \in 1..pos /\ i \in 1..n
          BY <1>2, <3>2
        <4>2. EndOf(tlb[i]) \in Int /\ EndOf(tlb[i]) <= b
          BY <1>2, <1>7, <4>1
        <4> QED BY <1>4, <1>6, <2>1, <4>1, <4>2
      <3> QED BY <3>1, <3>2
    <2> QED BY <1>6, <2>1, <2>2
  <1>12. FilledSum'
    <2>1. PICK p \in [0..n -> Int] :
            /\ p[0] = 0
            /\ \A k \in 1..n : p[k] = p[k - 1] + tlb[k].size
            /\ p[n] = Capacity(img_size)
            /\ pos > 0 => new_begin = tlb[1].begin + p[pos]
      BY <1>3 DEF FilledSum
    <2>2. p[pos] \in Int /\ p[c] = p[pos] + tlb[c].size
      <3>1. c - 1 = pos
        BY <1>2
      <3> QED BY <1>2, <2>1, <3>1
    <2>3. new_begin' = tlb'[1].begin + p[c]
      <3>1. tlb[1].begin \in Int
        BY <1>2
      <3>2. CASE pos = 0
        BY <1>2, <1>5, <1>6, <2>1, <2>2, <3>1, <3>2 DEF b
      <3>3. CASE pos # 0
        <4>1. tlb'[1] = tlb[1] /\ pos > 0 /\ b = new_begin
          BY <1>2, <1>5, <3>3 DEF b
        <4> QED BY <1>2, <1>5, <1>6, <2>1, <2>2, <3>1, <4>1, SMTT(20)
      <3> QED BY <3>2, <3>3
    <2>4. /\ Len(tlb)' = n /\ Capacity(img_size)' = Capacity(img_size) /\ pos' = c
      BY <1>1, <1>5 DEF Capacity
    <2>5. \E f \in [0..Len(tlb)' -> Int] :
            /\ f[0] = 0
            /\ \A k \in 1..Len(tlb)' : f[k] = f[k - 1] + tlb'[k].size
            /\ f[Len(tlb)'] = Capacity(img_size)'
            /\ pos' > 0 => new_begin' = tlb'[1].begin + f[pos']
      BY <1>5, <2>1, <2>3, <2>4
    <2> QED BY <2>5 DEF FilledSum
  <1>13. RecomputeInv'
    <2>1. pos' = c /\ c # 0 /\ last' # 0
      BY <1>1, <1>2, <1>3
    <2> QED BY <1>9, <1>10, <1>11, <1>12, <2>1 DEF RecomputeInv
  <1>14. ReadInv' /\ MeasureInv' /\ LaidInv'
    BY <1>1 DEF ReadInv, MeasureInv, LaidInv, Groups
  <1> QED BY <1>8, <1>13, <1>14 DEF IInv

(* When the last entry is moved the list is ordered and spans the capacity.*)
LEMMA RecomputeDoneStep ==
  IInv /\ TypeOK' /\ RecomputeDone => IInv'
  <1> SUFFICES ASSUME IInv, TypeOK', RecomputeDone PROVE IInv'
    OBVIOUS
  <1>1. /\ pc = "recompute" /\ pc' = "laid" /\ pos = Len(tlb)
        /\ UNCHANGED <<cfg, img_size, tlb, start_lba, pos, last, remaining,
                       new_begin>>
    BY DEF RecomputeDone
  <1>2. /\ Len(tlb) \in Nat /\ last \in 1..Len(tlb)
        /\ \A i \in 1..Len(tlb) : tlb[i].begin \in Int /\ tlb[i].size \in Int
        /\ last # 0 /\ SizesNat /\ FilledSum /\ Ordered(Len(tlb))
        /\ pos # 0 => new_begin = EndOf(tlb[pos])
    BY <1>1, ListTyping DEF IInv, RecomputeInv, TypeOK, LayoutTypeOK
  <1>3. pos > 0 /\ pos # 0
    BY <1>1, <1>2
  <1>4. new_begin = tlb[1].begin + Capacity(img_size)
    BY <1>1, <1>2, <1>3 DEF FilledSum
  <1>5. EndOf(tlb[Len(tlb)]) = tlb[1].begin + Capacity(img_size)
    BY <1>1, <1>2, <1>3, <1>4
  <1>6. LaidInv'
    <2>1. Ordered(Len(tlb))' /\ SizesNat'
      BY <1>1, <1>2 DEF Ordered, SizesNat, EndOf
    <2>2. FillsImage'
      BY <1>1, <1>5 DEF FillsImage, EndOf, Capacity
    <2> QED BY <2>1, <2>2 DEF LaidInv
  <1>7. BeginsNat' /\ ReadInv' /\ MeasureInv' /\ RecomputeInv'
    BY <1>1 DEF IInv, BeginsNat, ReadInv, MeasureInv, RecomputeInv, Groups
  <1> QED BY <1>6, <1>7 DEF IInv

(* A step that changes nothing maintains the invariant.                    *)
LEMMA StutterStep ==
  IInv /\ UNCHANGED layoutVars => IInv'
  BY SMTT(20) DEF IInv, layoutVars, TypeOK, LayoutTypeOK, BeginsNat, ReadInv, MeasureInv,
         RecomputeInv, LaidInv, SizesNat, MeasuredSum, FilledSum, Ordered,
         FillsImage, EndOf, Unpinned, Capacity

(* Nothing has been read yet.                                              *)
LEMMA InvInit == LayoutInit => IInv
  <1> SUFFICES ASSUME LayoutInit PROVE IInv
    OBVIOUS
  <1>1. TypeOK
    <2>1. Capacity(img_size) \in Int /\ StartLba(cfg) \in Nat
      BY CapacityInt, ConfigFacts, LayoutAssumption DEF LayoutInit
    <2> QED BY <2>1 DEF LayoutInit, TypeOK, LayoutTypeOK, Groups
  <1>2. BeginsNat
    <2>1. StartLba(cfg) \in Nat
      BY ConfigFacts DEF LayoutInit
    <2> QED BY <2>1 DEF LayoutInit, BeginsNat
  <1>3. ReadInv
    BY DEF LayoutInit, ReadInv, Ordered
  <1>4. MeasureInv /\ RecomputeInv /\ LaidInv
    BY DEF LayoutInit, MeasureInv, RecomputeInv, LaidInv
  <1> QED BY <1>1, <1>2, <1>3, <1>4 DEF IInv

(* Every turn of every loop maintains the invariant.                       *)
LEMMA InvStep == IInv /\ [LayoutNext]_layoutVars => IInv'
  <1>1. IInv => TypeOK
    BY DEF IInv
  <1> QED BY <1>1, TypingStep, ReadStep, NextGroupStep, FailStep, MeasureStep,
            NothingOpenStep, FillStep, RecomputeStep, RecomputeDoneStep,
            StutterStep DEF LayoutNext

(* Every loop maintains the invariant.                                     *)
THEOREM LayoutInvariant == LayoutSpec => []IInv
  BY InvInit, InvStep, PTL DEF LayoutSpec

-----------------------------------------------------------------------------
(* The properties.                                                         *)

(* The order of a laid list is that no two partitions overlap.             *)
LEMMA InvNoOverlap == IInv => NoOverlap
  <1> SUFFICES ASSUME IInv, pc = "laid", last # 0 \/ Unpinned(cfg),
                      NEW i \in DOMAIN tlb, NEW j \in DOMAIN tlb, i < j
               PROVE  EndOf(tlb[i]) <= tlb[j].begin
    BY DEF NoOverlap
  <1>1. DOMAIN tlb = 1..Len(tlb)
    BY ListTyping DEF IInv
  <1>2. Ordered(Len(tlb))
    BY DEF IInv, LaidInv
  <1> QED BY <1>1, <1>2 DEF Ordered

(* No two partitions overlap, for any number of parts, slots and pinned    *)
(* begins, as soon as one part is open or no part is pinned.               *)
THEOREM LayoutNoOverlap == LayoutSpec => []NoOverlap
  BY InvNoOverlap, LayoutInvariant, PTL

(* The open part takes exactly what the others leave of the capacity.      *)
THEOREM LayoutFillsImage == LayoutSpec => []FillsImage
  <1>1. IInv => FillsImage
    BY DEF IInv, LaidInv, FillsImage
  <1> QED BY <1>1, LayoutInvariant, PTL

(* Rounding down two parts separately gives no more than rounding down the *)
(* whole.                                                                  *)
LEMMA FloorSum ==
  ASSUME NEW a \in Int, NEW m \in Nat, NEW b \in Nat \ {0}
  PROVE  /\ a \div b \in Int /\ m \div b \in Int /\ (a - m) \div b \in Int
         /\ (a - m) \div b + m \div b <= a \div b
  <1>1. /\ a \div b \in Int /\ m \div b \in Int /\ (a - m) \div b \in Int
    OBVIOUS
  <1>2. /\ b * ((a - m) \div b) <= a - m
        /\ b * (m \div b) <= m
        /\ a < b * (a \div b) + b
    OBVIOUS
  <1>3. \A x, y, z \in Int :
          b * x <= a - m /\ b * y <= m /\ a < b * z + b => x + y <= z
    <2> SUFFICES ASSUME NEW x \in Int, NEW y \in Int, NEW z \in Int,
                        b * x <= a - m, b * y <= m, a < b * z + b, x + y >= z + 1
                 PROVE  FALSE
      OBVIOUS
    <2>1. b * (x + y) = b * x + b * y /\ b * (z + 1) = b * z + b
      OBVIOUS
    <2>2. b * (x + y) >= b * (z + 1)
      OBVIOUS
    <2> QED BY <2>1, <2>2
  <1> QED BY <1>1, <1>2, <1>3

(* An ordered list that takes the capacity lies between the tables.       *)
LEMMA InvInsideUsable == IInv => InsideUsable
  <1> SUFFICES ASSUME IInv, pc = "laid", last # 0,
                      tlb[1].begin \in LbaFirst..DefaultStart,
                      NEW i \in DOMAIN tlb
               PROVE  /\ LbaFirst <= tlb[i].begin
                      /\ EndOf(tlb[i]) <= LbaLast(img_size) + 1
    BY DEF InsideUsable
  <1> DEFINE n == Len(tlb)
  <1>1. /\ n \in Nat /\ n >= 1 /\ DOMAIN tlb = 1..n
        /\ \A k \in 1..n : /\ tlb[k].begin \in Int /\ tlb[k].size \in Int
                           /\ tlb[k].size >= 0 /\ EndOf(tlb[k]) \in Int
        /\ Ordered(n)
        /\ EndOf(tlb[n]) = tlb[1].begin + Capacity(img_size)
    BY ListTyping DEF IInv, TypeOK, LayoutTypeOK, LaidInv, SizesNat, FillsImage
  <1> HIDE DEF n
  <1>2. \A k \in 1..n : EndOf(tlb[k]) = tlb[k].begin + tlb[k].size
    BY DEF EndOf
  <1>3. 1 \in 1..n /\ n \in 1..n /\ i \in 1..n
    BY <1>1
  <1>4. tlb[1].begin <= tlb[i].begin
    <2>1. CASE i = 1
      BY <1>1, <1>3, <2>1
    <2>2. CASE i # 1
      <3>1. EndOf(tlb[1]) <= tlb[i].begin
        BY <1>1, <1>3, <2>2 DEF Ordered
      <3> QED BY <1>1, <1>2, <1>3, <3>1
    <2> QED BY <2>1, <2>2
  <1>5. EndOf(tlb[i]) <= EndOf(tlb[n])
    <2>1. CASE i = n
      BY <1>1, <1>3, <2>1
    <2>2. CASE i # n
      <3>1. EndOf(tlb[i]) <= tlb[n].begin
        BY <1>1, <1>3, <2>2 DEF Ordered
      <3> QED BY <1>1, <1>2, <1>3, <3>1
    <2> QED BY <2>1, <2>2
  <1>6. /\ TableSize \in Int /\ TableSize < ReservedBlocks
        /\ ReservedBlocks \in Int /\ DefaultStart \in Int
        /\ SizeInBlock(img_size) \in Int /\ img_size \in Nat
    BY LayoutAssumption, ReserveAssumption
    DEF TableSize, DefaultStart, SizeInBlock, IInv, TypeOK, LayoutTypeOK
  <1>7. Capacity(img_size) + DefaultStart
          <= SizeInBlock(img_size) - ReservedBlocks
    <2> DEFINE x == (img_size - MB) \div BlockSize
               y == MB \div BlockSize
               z == img_size \div BlockSize
    <2>1. x \in Int /\ y \in Int /\ z \in Int /\ x + y <= z
      BY <1>6, FloorSum, LayoutAssumption
    <2>2. /\ Capacity(img_size) = x - ReservedBlocks /\ DefaultStart = y
          /\ SizeInBlock(img_size) = z
      BY DEF Capacity, DefaultStart, SizeInBlock
    <2> HIDE DEF x, y, z
    <2> QED BY <1>6, <2>1, <2>2
  <1>8. tlb[1].begin <= DefaultStart /\ LbaFirst <= tlb[1].begin
        /\ LbaFirst \in Int
    BY <1>6 DEF LbaFirst
  <1>9. LbaLast(img_size) + 1 = SizeInBlock(img_size) - 1 - TableSize
    BY <1>6 DEF LbaLast
  <1>10. Capacity(img_size) \in Int
    BY ListTyping DEF IInv
  <1>11. EndOf(tlb[n]) <= LbaLast(img_size) + 1
    BY <1>1, <1>3, <1>6, <1>7, <1>8, <1>9, <1>10, SMTT(20)
  <1>12. LbaLast(img_size) + 1 \in Int
    BY <1>6, <1>9
  <1> QED BY <1>1, <1>3, <1>4, <1>5, <1>8, <1>11, <1>12

(* The reserve of compute_last_size_entry is enough: partitions that begin *)
(* between the primary table and the default start stay below the backup   *)
(* table, for every block size for which the table is smaller than the     *)
(* reserve.                                                                *)
THEOREM LayoutInsideUsable == LayoutSpec => []InsideUsable
  BY InvInsideUsable, LayoutInvariant, PTL

(* Appending leaves the entries before it alone.                           *)
LEMMA AppendKeeps ==
  ASSUME NEW p \in Part, NEW s \in 0..3, NEW x \in Suffixes,
         Readable(p, s), start_lba \in Int, tlb \in Seq(Entry),
         AppendEntry(p, s, x)
  PROVE  KeepsEntries
  <1>1. /\ tlb' \in Seq(Entry) /\ Len(tlb') = Len(tlb) + 1
        /\ \A i \in 1..Len(tlb) : tlb'[i] = tlb[i]
    BY AppendFacts
  <1>2. DOMAIN tlb = 1..Len(tlb) /\ DOMAIN tlb' = 1..(Len(tlb) + 1)
        /\ Len(tlb) \in Nat
    BY <1>1
  <1> QED BY <1>1, <1>2 DEF KeepsEntries

(* Replacing one entry's begin or open size leaves the rest of the list.   *)
LEMMA ReplaceKeeps ==
  ASSUME NEW c \in 1..Len(tlb), NEW b \in Int, NEW z \in Int,
         tlb \in Seq(Entry),
         tlb' = [tlb EXCEPT ![c] = Replace(tlb[c], b, z)],
         tlb[c].size >= 0 => z = tlb[c].size,
         c = 1 => b = tlb[1].begin
  PROVE  KeepsEntries
  <1> DEFINE r == Replace(tlb[c], b, z)
  <1>1. /\ r.begin = b /\ r.size = z /\ r.type = tlb[c].type
        /\ r.label = tlb[c].label /\ r.suffix = tlb[c].suffix
    <2>1. tlb[c] \in Entry
      OBVIOUS
    <2> QED BY <2>1, EntryTyping
  <1>2. tlb' = [tlb EXCEPT ![c] = r]
    OBVIOUS
  <1> HIDE DEF r
  <1>3. /\ DOMAIN tlb' = DOMAIN tlb
        /\ \A i \in DOMAIN tlb : tlb'[i] = IF i = c THEN r ELSE tlb[i]
    BY <1>2
  <1> QED BY <1>1, <1>3 DEF KeepsEntries

(* compute_last_size_entry never changes a size the file defines, nor the  *)
(* order, labels and types: what it measured open is open when it is       *)
(* filled, and the first turn of the recomputation writes nothing.         *)
THEOREM LayoutOnlyOpenSizeChanges == LayoutSpec => OnlyOpenSizeChanges
  <1>1. ASSUME IInv, [LayoutNext]_layoutVars PROVE [KeepsEntries]_layoutVars
    <2>1. /\ tlb \in Seq(Entry) /\ start_lba \in Int /\ slot \in 0..3
          /\ pos \in Nat /\ remaining \in Int /\ new_begin \in Int
          /\ last \in 0..Len(tlb) /\ cfg \in Configs
          /\ part \in Nat \ {0}
      BY <1>1 DEF IInv, TypeOK, LayoutTypeOK
    <2>2. CASE ReadPart \/ ReadGroupPart
      <3> DEFINE p == Parts[part]
      <3>1. p \in Part
        <4>1. pc \in Groups /\ part <= Len(Parts)
          BY <2>2 DEF ReadPart, ReadGroupPart, Groups
        <4>2. Parts \in Seq(Part)
          BY <2>1, <4>1, ConfigFacts DEF Parts
        <4> QED BY <2>1, <4>1, <4>2
      <3>2. PICK x \in Suffixes : Readable(p, slot) /\ AppendEntry(p, slot, x)
        <4>1. SlotSuffix(slot) \in Suffixes /\ PartSuffix(p, slot) \in Suffixes
          BY <2>1, SlotSuffixFacts DEF Suffixes, PartSuffix
        <4> QED BY <2>2, <4>1 DEF ReadPart, ReadGroupPart
      <3> QED BY <2>1, <3>1, <3>2, AppendKeeps
    <2>3. CASE FillLast
      <3>1. /\ last \in 1..Len(tlb) /\ tlb[last].size < 0
            /\ tlb' = [tlb EXCEPT ![last] =
                                  Replace(tlb[last], tlb[last].begin, remaining)]
        BY <1>1, <2>1, <2>3 DEF FillLast, IInv, MeasureInv
      <3>2. tlb[last].begin \in Int /\ tlb[last].size \in Int
        BY <2>1, <3>1, EntryTyping
      <3>3. ~(tlb[last].size >= 0) /\ (last = 1 => tlb[last].begin = tlb[1].begin)
        BY <3>1, <3>2
      <3>4. KeepsEntries
        BY <2>1, <3>1, <3>2, <3>3, ReplaceKeeps
      <3> QED BY <3>4
    <2>4. CASE RecomputeEntry
      <3>1. /\ pos + 1 \in 1..Len(tlb)
            /\ pos = 0 => new_begin = -1
        BY <1>1, <2>1, <2>4 DEF RecomputeEntry, IInv, RecomputeInv
      <3>2. CASE UNCHANGED tlb
        BY <3>2 DEF KeepsEntries
      <3>3. CASE /\ new_begin # -1
                 /\ tlb' = [tlb EXCEPT ![pos + 1] =
                           Replace(tlb[pos + 1], new_begin, tlb[pos + 1].size)]
        <4>1. tlb[pos + 1].size \in Int /\ pos + 1 # 1
          BY <2>1, <3>1, <3>3, EntryTyping
        <4> QED BY <2>1, <3>1, <3>3, <4>1, ReplaceKeeps
      <3> QED BY <2>4, <3>2, <3>3 DEF RecomputeEntry
    <2>5. CASE UNCHANGED tlb
      BY <2>5 DEF KeepsEntries
    <2>6. ASSUME NextGroup \/ ReadFails \/ MeasureEntry \/ NothingOpen
                 \/ ImageTooSmall \/ RecomputeDone
          PROVE  UNCHANGED tlb
      BY <2>6 DEF NextGroup, ReadFails, MeasureEntry, NothingOpen, ImageTooSmall,
                  RecomputeDone
    <2> QED BY <1>1, <2>2, <2>3, <2>4, <2>5, <2>6 DEF LayoutNext, layoutVars
  <1> QED BY <1>1, LayoutInvariant, PTL DEF LayoutSpec, OnlyOpenSizeChanges


-----------------------------------------------------------------------------
(* Sequences of cells. Cells have no set of their own, so a sequence is    *)
(* one of whatever it holds.                                               *)

IsSeq(d) == d \in Seq({d[k] : k \in DOMAIN d})

(* A sequence is a function on its positions, and the other way round.     *)
LEMMA SeqFacts ==
  ASSUME NEW d, IsSeq(d)
  PROVE  Len(d) \in Nat /\ DOMAIN d = 1..Len(d) /\ d = [k \in 1..Len(d) |-> d[k]]
  BY DEF IsSeq

LEMMA InSeq ==
  ASSUME NEW S, NEW d \in Seq(S)
  PROVE  IsSeq(d)
  <1>1. Len(d) \in Nat /\ d \in [1..Len(d) -> {d[k] : k \in DOMAIN d}]
    OBVIOUS
  <1> QED BY <1>1 DEF IsSeq

(* Two sequences of one set: that of the cells of both.                    *)
LEMMA CommonSet ==
  ASSUME NEW d, NEW c, IsSeq(d), IsSeq(c)
  PROVE  \E S : d \in Seq(S) /\ c \in Seq(S) /\ Zero \in S
  <1> DEFINE S == {d[k] : k \in DOMAIN d} \cup {c[k] : k \in DOMAIN c} \cup {Zero}
  <1>1. d \in Seq(S) /\ c \in Seq(S) /\ Zero \in S
    BY SeqFacts
  <1> QED BY <1>1

(* Two sequences, one after the other.                                    *)
Concatenated(w, a, b) ==
  /\ Len(w) = Len(a) + Len(b)
  /\ \A k \in 1..Len(a) : w[k] = a[k]
  /\ \A k \in 1..Len(b) : w[Len(a) + k] = b[k]

LEMMA CatFacts ==
  ASSUME NEW S, NEW a \in Seq(S), NEW b \in Seq(S)
  PROVE  a \o b \in Seq(S) /\ Concatenated(a \o b, a, b)
  BY DEF Concatenated

(* Zeros, entries and binaries are sequences as long as they say.          *)
LEMMA ZerosFacts ==
  ASSUME NEW n \in Nat
  PROVE  IsSeq(Zeros(n)) /\ Len(Zeros(n)) = n /\ \A k \in 1..n : Zeros(n)[k] = Zero
  <1>1. Zeros(n) \in Seq({Zero}) /\ Len(Zeros(n)) = n
    BY DEF Zeros
  <1> QED BY <1>1, InSeq DEF Zeros

LEMMA EntriesFacts ==
  ASSUME NEW n \in Nat
  PROVE  /\ IsSeq(Entries(n)) /\ n * EntrySize \in Nat
         /\ Len(Entries(n)) = n * EntrySize
         /\ \A k \in 1..(n * EntrySize) : Entries(n)[k] = <<"entry", k>>
  <1>1. n * EntrySize \in Nat
    BY LayoutAssumption
  <1>2. /\ Entries(n) \in Seq({<<"entry", k>> : k \in 1..(n * EntrySize)})
        /\ Len(Entries(n)) = n * EntrySize
    BY <1>1 DEF Entries
  <1> QED BY <1>1, <1>2, InSeq DEF Entries

LEMMA DataFacts ==
  ASSUME NEW l, NEW n \in Nat
  PROVE  /\ IsSeq(Data(l, n)) /\ Len(Data(l, n)) = n
         /\ \A k \in 1..n : Data(l, n)[k] = <<"data", l, k>>
  <1>1. Data(l, n) \in Seq({<<"data", l, k>> : k \in 1..n}) /\ Len(Data(l, n)) = n
    BY DEF Data
  <1> QED BY <1>1, InSeq DEF Data

(* What a write leaves: the cells written where they were written, all     *)
(* other cells as they were, zeros in a gap.                               *)
LEMMA WriteFacts ==
  ASSUME NEW d, NEW c, IsSeq(d), IsSeq(c), NEW off \in Nat
  PROVE  LET w == Write(d, off, c)
         IN  /\ IsSeq(w)
             /\ Len(w) = IF c # <<>> /\ off + Len(c) > Len(d) THEN off + Len(c)
                         ELSE Len(d)
             /\ \A k \in 1..Len(w) :
                  w[k] = IF off < k /\ k <= off + Len(c) THEN c[k - off]
                         ELSE IF k <= Len(d) THEN d[k] ELSE Zero
  <1> DEFINE end == off + Len(c)
             n == IF end > Len(d) THEN end ELSE Len(d)
             padded == IF end > Len(d) THEN d \o Zeros(end - Len(d)) ELSE d
  <1>1. PICK S : d \in Seq(S) /\ c \in Seq(S) /\ Zero \in S
    BY CommonSet
  <1>2. Len(c) \in Nat /\ Len(d) \in Nat /\ (c = <<>> <=> Len(c) = 0)
    BY <1>1
  <1>3. CASE c = <<>>
    <2>1. Write(d, off, c) = d
      BY <1>3, ZenonT(30) DEF Write
    <2>2. /\ Len(c) = 0 /\ DOMAIN d = 1..Len(d)
          /\ \A k \in 1..Len(d) : d[k] = IF k <= Len(d) THEN d[k] ELSE Zero
      BY <1>2, <1>3, SeqFacts
    <2>3. \A k \in 1..Len(d) : ~(off < k /\ k <= off + Len(c))
      BY <1>2, <2>2
    <2> QED BY <1>2, <1>3, <2>1, <2>2, <2>3
  <1>4. CASE c # <<>>
    <2>1. padded \in Seq(S) /\ Len(padded) = n
          /\ \A k \in 1..n : padded[k] = IF k <= Len(d) THEN d[k] ELSE Zero
      <3>1. CASE end > Len(d)
        <4>1. /\ Zeros(end - Len(d)) \in Seq(S) /\ Len(Zeros(end - Len(d))) = end - Len(d)
              /\ \A k \in 1..(end - Len(d)) : Zeros(end - Len(d))[k] = Zero
          BY <1>1, <1>2, <3>1 DEF Zeros
        <4> QED BY <1>1, <1>2, <3>1, <4>1
      <3>2. CASE ~(end > Len(d))
        BY <1>1, <1>2, <3>2
      <3> QED BY <3>1, <3>2
    <2>2. Write(d, off, c) = SubSeq(padded, 1, off) \o c \o SubSeq(padded, end + 1, Len(padded))
      BY <1>4, ZenonT(30) DEF Write
    <2> HIDE DEF padded
    <2>3. /\ SubSeq(padded, 1, off) \in Seq(S) /\ Len(SubSeq(padded, 1, off)) = off
          /\ \A k \in 1..off : SubSeq(padded, 1, off)[k] = padded[k]
      BY <1>2, <2>1
    <2>4. /\ SubSeq(padded, end + 1, n) \in Seq(S) /\ Len(SubSeq(padded, end + 1, n)) = n - end
          /\ \A k \in 1..(n - end) : SubSeq(padded, end + 1, n)[k] = padded[end + k]
      BY <1>2, <2>1
    <2> DEFINE front == SubSeq(padded, 1, off)
               back  == SubSeq(padded, end + 1, n)
               w     == front \o c \o back
    <2>5. Write(d, off, c) = w
      BY <2>1, <2>2
    <2> HIDE DEF front, back
    <2>6. front \in Seq(S) /\ Len(front) = off /\ \A k \in 1..off : front[k] = padded[k]
      BY <2>3 DEF front
    <2>7. back \in Seq(S) /\ Len(back) = n - end /\ \A k \in 1..(n - end) : back[k] = padded[end + k]
      BY <2>4 DEF back
    <2>8. n \in Nat /\ end \in Nat /\ end <= n /\ off <= end /\ end - off = Len(c)
      BY <1>2
    <2>9. /\ front \o c \in Seq(S) /\ Len(front \o c) = end
          /\ \A k \in 1..end : (front \o c)[k] = IF k <= off THEN front[k] ELSE c[k - off]
      BY <1>1, <1>2, <2>6, <2>8
    <2>10. PICK fc \in Seq(S) :
             /\ fc = front \o c /\ Len(fc) = end
             /\ \A k \in 1..end : fc[k] = IF k <= off THEN front[k] ELSE c[k - off]
      BY <2>9
    <2>11. w \in Seq(S) /\ Len(w) = n
           /\ \A k \in 1..n : w[k] = IF k <= end THEN fc[k] ELSE back[k - end]
      <3>1. w = fc \o back
        BY <2>10
      <3> HIDE DEF w, n, end
      <3>2. /\ w \in Seq(S) /\ Len(w) = Len(fc) + Len(back)
            /\ \A k \in 1..Len(fc) : w[k] = fc[k]
            /\ \A k \in 1..Len(back) : w[Len(fc) + k] = back[k]
        <4>1. fc \in Seq(S) /\ back \in Seq(S)
          BY <2>7
        <4>2. fc \o back \in Seq(S) /\ Concatenated(fc \o back, fc, back)
          BY <4>1, CatFacts
        <4> QED BY <3>1, <4>2 DEF Concatenated
      <3>3. Len(w) = n /\ Len(fc) = end /\ Len(back) = n - end
        BY <2>7, <2>8, <2>10, <3>2
      <3>4. ASSUME NEW k \in 1..n PROVE w[k] = IF k <= end THEN fc[k] ELSE back[k - end]
        <4>1. CASE k <= end
          BY <2>8, <2>10, <3>2, <4>1
        <4>2. CASE ~(k <= end)
          <5>1. k - end \in 1..Len(back) /\ Len(fc) + (k - end) = k
            BY <2>8, <3>3, <4>2
          <5> QED BY <3>2, <4>2, <5>1
        <4> QED BY <4>1, <4>2
      <3> QED BY <3>2, <3>3, <3>4
    <2> HIDE DEF w, n, end
    <2>12. ASSUME NEW k \in 1..n
           PROVE  w[k] = IF off < k /\ k <= end THEN c[k - off]
                         ELSE IF k <= Len(d) THEN d[k] ELSE Zero
      <3>1. padded[k] = IF k <= Len(d) THEN d[k] ELSE Zero
        BY <2>1
      <3>2. k \in Int /\ 1 <= k /\ k <= n
        BY <2>8
      <3>3. CASE k <= off
        <4>1. w[k] = front[k] /\ k \in 1..off
          BY <2>8, <2>10, <2>11, <3>2, <3>3
        <4> QED BY <2>6, <2>8, <3>1, <3>2, <3>3, <4>1
      <3>4. CASE off < k /\ k <= end
        BY <2>8, <2>10, <2>11, <3>2, <3>4
      <3>5. CASE end < k
        <4>1. k - end \in 1..(n - end) /\ end + (k - end) = k
          BY <2>8, <3>2, <3>5
        <4>2. w[k] = back[k - end]
          BY <2>8, <2>11, <3>2, <3>5
        <4> QED BY <2>7, <2>8, <3>1, <3>2, <3>5, <4>1, <4>2
      <3> QED BY <2>8, <3>2, <3>3, <3>4, <3>5
    <2> QED BY <1>2, <1>4, <2>5, <2>11, <2>12, InSeq DEF n, end
  <1> QED BY <1>3, <1>4

(* A read inside the file is the cells there.                              *)
Slice(d, off, n) == [k \in 1..n |-> d[off + k]]

LEMMA ReadFacts ==
  ASSUME NEW d, IsSeq(d), NEW off \in Nat, NEW n \in Nat, n > 0 => off + n <= Len(d)
  PROVE  Read(d, off, n) = Slice(d, off, n)
  <1>1. Len(d) \in Nat /\ d \in Seq({d[k] : k \in DOMAIN d})
    BY DEF IsSeq
  <1>2. CASE n = 0
    BY <1>1, <1>2 DEF Read, Slice
  <1>3. CASE n > 0
    BY <1>1, <1>3 DEF Read, Slice
  <1> QED BY <1>2, <1>3
-----------------------------------------------------------------------------
(* Where things are.                                                       *)

(* The literal 32 of write and _write_crc is the size of the table in      *)
(* blocks: 32 blocks of 512 bytes for 128 entries of 128 bytes.            *)
TableOfBlocks == BackupTableBlocks * BlockSize = TableBytes

LEMMA DivExact ==
  ASSUME NEW x \in Int, NEW b \in Nat \ {0}
  PROVE  (x * b) \div b = x
  <1> DEFINE q == (x * b) \div b
  <1>1. q \in Int /\ x * b \in Int /\ b * q <= x * b /\ x * b < b * q + b
    OBVIOUS
  <1> HIDE DEF q
  <1>2. b * q <= b * x /\ b * x < b * (q + 1)
    BY <1>1
  <1>3. \A i, j \in Int : b * i < b * j => i < j
    OBVIOUS
  <1>4. \A i, j \in Int : b * i <= b * j => i <= j
    OBVIOUS
  <1>5. q <= x /\ x < q + 1
    BY <1>1, <1>2, <1>3, <1>4
  <1>6. q = x
    BY <1>1, <1>5
  <1> QED BY <1>6 DEF q

LEMMA Multiple ==
  ASSUME NEW a \in Nat, NEW b \in Nat \ {0}, a % b = 0
  PROVE  a = b * (a \div b)
  OBVIOUS

LEMMA Mono ==
  ASSUME NEW b \in Nat, NEW i \in Int, NEW j \in Int, i <= j
  PROVE  i * b \in Int /\ j * b \in Int /\ i * b <= j * b
  OBVIOUS

(* All places of an image are in the file, whatever its size.              *)
LEMMA Places ==
  ASSUME NEW N \in ImageSizes
  PROVE  /\ BlockSize \in Nat /\ BlockSize >= 3
         /\ TableBytes \in Nat /\ TableSize \in Nat
         /\ PrimaryTable \in Nat /\ PrimaryTable = 2 * BlockSize
         /\ N \in Nat /\ N - BlockSize \in Nat /\ N \div BlockSize \in Nat
         /\ LbaBackup(N) \in Nat /\ LbaLast(N) \in Nat /\ LbaStart(N) \in Nat
         /\ LbaBackup(N) * BlockSize \in Nat
         /\ (LbaBackup(N) - BackupTableBlocks) * BlockSize \in Nat
  <1>1. /\ BlockSize \in Nat /\ BlockSize >= 3 /\ N \in Nat
        /\ TableLength \in Nat /\ EntrySize \in Nat
    BY LayoutAssumption, HeaderAssumption DEF HeaderSize
  <1>2. TableLength * EntrySize \in Nat
    BY <1>1
  <1>3. (TableLength * EntrySize) \div BlockSize \in Nat
    <2> DEFINE t == TableLength * EntrySize
    <2> HIDE DEF t
    <2>1. t \in Nat => t \div BlockSize \in Nat
      BY <1>1
    <2> QED BY <1>2, <2>1 DEF t
  <1>4. N \div BlockSize \in Nat /\ (N \div BlockSize) * BlockSize <= N
    BY <1>1
  <1>5. /\ LbaLast(N) \in Nat /\ N \div BlockSize >= 2 + TableSize
        /\ LbaBackup(N) >= BackupTableBlocks /\ BackupTableBlocks \in Nat
    BY <1>3, <1>4, ImageAssumption DEF LbaLast, SizeInBlock, TableSize
  <1>6. LbaBackup(N) \in Nat /\ LbaStart(N) \in Nat
    BY <1>3, <1>4, <1>5 DEF LbaBackup, LbaStart, SizeInBlock, TableSize
  <1>7. N - BlockSize \in Nat
    <2>1. 1 * BlockSize <= (N \div BlockSize) * BlockSize
      BY <1>1, <1>3, <1>4, <1>5, Mono DEF TableSize
    <2> QED BY <1>1, <1>4, <2>1
  <1>8. /\ LbaBackup(N) * BlockSize \in Nat
        /\ (LbaBackup(N) - BackupTableBlocks) * BlockSize \in Nat
    BY <1>1, <1>5, <1>6
  <1> QED BY <1>1, <1>2, <1>3, <1>4, <1>5, <1>6, <1>7, <1>8
          DEF TableBytes, TableSize, PrimaryTable

(* The backup header is the last block of an image of whole blocks, where  *)
(* _write_crc seeks it from the end.                                       *)
LEMMA LastBlock ==
  ASSUME img_size \in ImageSizes, UsualSize
  PROVE  BackupHeaderAt = img_size - BlockSize
  <1>1. img_size = (img_size \div BlockSize) * BlockSize
    <2>1. img_size = BlockSize * (img_size \div BlockSize)
      BY Multiple, Places, LayoutAssumption DEF UsualSize
    <2> QED BY <2>1, Places
  <1>2. \A x \in Int : (x - 1) * BlockSize = x * BlockSize - BlockSize
    BY Places
  <1> QED BY <1>1, <1>2, Places DEF BackupHeaderAt, LbaBackup, SizeInBlock

(* The parts of a usual image in their order: header, table, the stray     *)
(* copy of the entries, backup table, backup header.                       *)
LEMMA Order ==
  ASSUME img_size \in ImageSizes, UsualSize, TableOfBlocks
  PROVE  /\ SecondaryTable \in Nat
         /\ LbaFirst * BlockSize = PrimaryTable + TableBytes
         /\ PrimaryTable + TableBytes <= LbaLast(img_size)
         /\ LbaLast(img_size) + 1 + TableBytes <= SecondaryTable
         /\ SecondaryTable = LbaStart(img_size) * BlockSize
         /\ SecondaryTable = (LbaLast(img_size) + 1) * BlockSize
         /\ SecondaryTable + TableBytes = BackupHeaderAt
  <1> DEFINE B == BlockSize
             n == img_size \div BlockSize
  <1>1. /\ B \in Nat /\ B >= 3 /\ n \in Nat /\ BackupTableBlocks \in Nat
        /\ TableBytes \in Nat
    BY Places, ImageAssumption
  <1>2. TableSize = BackupTableBlocks
    <2>1. (BackupTableBlocks * BlockSize) \div BlockSize = BackupTableBlocks
      BY <1>1, DivExact
    <2> QED BY <2>1 DEF TableSize, TableOfBlocks, TableBytes
  <1>3. TableBytes = BackupTableBlocks * B
    BY DEF TableOfBlocks
  <1>4. LbaStart(img_size) = LbaLast(img_size) + 1
        /\ LbaStart(img_size) = LbaBackup(img_size) - BackupTableBlocks
        /\ LbaStart(img_size) \in Nat
    BY <1>1, <1>2, Places DEF LbaStart, LbaLast, LbaBackup, SizeInBlock
  <1>5. SecondaryTable = LbaStart(img_size) * B
    BY <1>4 DEF SecondaryTable
  <1>6. LbaFirst * B = PrimaryTable + TableBytes
    <2>1. (BackupTableBlocks + 2) * B = BackupTableBlocks * B + 2 * B
      BY <1>1
    <2> QED BY <1>1, <1>2, <1>3, <2>1, Places DEF LbaFirst
  <1>7. PrimaryTable + TableBytes <= LbaLast(img_size)
    BY <1>6 DEF UsualSize
  <1>8. LbaLast(img_size) + 1 + TableBytes <= SecondaryTable
    <2>1. \A x \in Nat : x * B >= 3 * x
      <3> SUFFICES ASSUME NEW x \in Nat PROVE x * B >= 3 * x
        OBVIOUS
      <3>1. 3 * x <= B * x
        BY <1>1, Mono
      <3> QED BY <1>1, <3>1
    <2>2. LbaStart(img_size) * B >= 3 * LbaStart(img_size)
      BY <1>4, <2>1
    <2> QED BY <1>1, <1>4, <1>5, <1>7, <2>2, Places
  <1>9. SecondaryTable + TableBytes = BackupHeaderAt
    <2>1. \A x, y \in Int : (x - y) * B + y * B = x * B
      BY <1>1
    <2> QED BY <1>1, <1>3, <2>1, Places DEF SecondaryTable, BackupHeaderAt
  <1>10. SecondaryTable \in Nat
    BY <1>1, <1>4, <1>5
  <1> QED BY <1>4, <1>5, <1>6, <1>7, <1>8, <1>9, <1>10
-----------------------------------------------------------------------------
(* The invariant.                                                          *)

LayoutPlaces == Groups \cup {"measure", "recompute", "laid"}
ImagePlaces  == {"headers", "table", "backup", "partitions", "written", "done"}

(* The previous image is gone, and there are binaries, once the inputs     *)
(* were checked.                                                           *)
ImgTyped ==
  /\ LayoutTypeOK /\ BeginsNat
  /\ pc \in LayoutPlaces \cup ImagePlaces \cup {"failed"}
  /\ pc \in LayoutPlaces => image # "new"
  /\ pc \in ImagePlaces => image = "new"
  /\ image \in {"none", "old", "new"}
  /\ image = "new" => binaries \in Binaries(cfg) /\ InputsOk(binaries)
  /\ image # "new" => binaries = <<>> /\ disk = <<>>
  /\ IsSeq(disk)
  /\ pc = "headers" => disk = <<>>
  /\ pc \in {"headers", "table", "backup"} => pos = 0

(* What the layout promised still holds when the image is written.         *)
SharedOut ==
  /\ last # 0 \/ Unpinned(cfg) => Disjoint
  /\ last # 0 /\ tlb[1].begin \in LbaFirst..DefaultStart => InUsable

LayoutInv == /\ pc \in LayoutPlaces => IInv
             /\ image = "new" => SharedOut

(* Nothing on the disk is a checksum before all else is written.           *)
NoCrc == \A k \in DOMAIN disk : disk[k][1] # "crc"
NoCrcYet == pc \notin {"written", "done"} => NoCrc

(* The cells of a header without checksums, of a table of n entries and of *)
(* a binary.                                                               *)
HeaderAt(d, h, copy) ==
  /\ h + 3 <= Len(d)
  /\ d[h + 1] = <<"header", copy>> /\ d[h + 2] = Zero /\ d[h + 3] = Zero

TableAt(d, t, n) ==
  /\ t + TableBytes <= Len(d)
  /\ \A k \in 1..TableBytes :
       d[t + k] = IF k <= n * EntrySize THEN <<"entry", k>> ELSE Zero

DataAt(d, off, l, n) ==
  \A k \in 1..n : off + k <= Len(d) /\ d[off + k] = <<"data", l, k>>

(* What both properties ask of the partitions and the binaries.            *)
Regular == UsualSize /\ InUsable /\ AllFit /\ MarksFit

TablesInv ==
  /\ pc \in {"table", "backup", "partitions"}
  /\ TableOfBlocks /\ Regular /\ Len(tlb) <= TableLength
  => /\ HeaderAt(disk, BlockSize, "primary")
     /\ HeaderAt(disk, BackupHeaderAt, "backup")
     /\ TableAt(disk, PrimaryTable, IF pc = "table" THEN 0 ELSE Len(tlb))
     /\ TableAt(disk, SecondaryTable, IF pc = "partitions" THEN Len(tlb) ELSE 0)

BinariesInv ==
  pc = "partitions" /\ Regular /\ Disjoint =>
    \A i \in 1..pos :
      Carries(tlb[i]) => DataAt(disk, tlb[i].begin * BlockSize, tlb[i].label,
                                binaries[tlb[i].label])

ImgInv ==
  /\ ImgTyped /\ LayoutInv /\ NoCrcYet /\ TablesInv /\ BinariesInv
  /\ TableOfBlocks => TablesIntact
  /\ BinariesIntact /\ LostImageExplained

-----------------------------------------------------------------------------
(* What writes leave alone.                                                *)

LEMMA WriteGrows ==
  ASSUME NEW d, NEW c, IsSeq(d), IsSeq(c), NEW off \in Nat
  PROVE  /\ IsSeq(Write(d, off, c))
         /\ Len(Write(d, off, c)) >= Len(d)
         /\ Len(c) > 0 => Len(Write(d, off, c)) >= off + Len(c)
         /\ Len(d) \in Nat /\ Len(c) \in Nat /\ Len(Write(d, off, c)) \in Nat
  <1>1. Len(d) \in Nat /\ Len(c) \in Nat /\ Len(Write(d, off, c)) \in Nat
    BY WriteFacts, SeqFacts
  <1>2. Len(c) > 0 => c # <<>>
    OBVIOUS
  <1> QED BY <1>1, <1>2, WriteFacts

LEMMA WriteKeeps ==
  ASSUME NEW d, NEW c, IsSeq(d), IsSeq(c), NEW off \in Nat,
         NEW k \in Nat, 1 <= k, k <= Len(d), k <= off \/ off + Len(c) < k
  PROVE  Write(d, off, c)[k] = d[k]
  <1>1. k \in 1..Len(Write(d, off, c))
    BY WriteGrows
  <1> QED BY <1>1, WriteFacts, WriteGrows

(* The cells c are in w, at an offset.                                     *)
Holds(w, off, c) == \A k \in 1..Len(c) : w[off + k] = c[k]

LEMMA WritePuts ==
  ASSUME NEW d, NEW c, IsSeq(d), IsSeq(c), NEW off \in Nat
  PROVE  Holds(Write(d, off, c), off, c)
  <1> SUFFICES ASSUME NEW k \in 1..Len(c) PROVE Write(d, off, c)[off + k] = c[k]
    BY DEF Holds
  <1>1. off + k \in 1..Len(Write(d, off, c))
    BY WriteGrows
  <1>2. (off + k) - off = k
    BY WriteGrows
  <1> QED BY <1>1, <1>2, WriteFacts, WriteGrows

LEMMA KeepsHeader ==
  ASSUME NEW d, NEW c, IsSeq(d), IsSeq(c), NEW off \in Nat, NEW h \in Nat,
         NEW copy, HeaderAt(d, h, copy), h + 3 <= off \/ off + Len(c) <= h
  PROVE  HeaderAt(Write(d, off, c), h, copy)
  <1>1. ASSUME NEW k \in 1..3 PROVE Write(d, off, c)[h + k] = d[h + k]
    <2>1. h + k \in Nat /\ 1 <= h + k /\ h + k <= Len(d) /\ Len(c) \in Nat
          /\ (h + k <= off \/ off + Len(c) < h + k)
      BY WriteGrows DEF HeaderAt
    <2> QED BY <2>1, WriteKeeps
  <1> QED BY <1>1, WriteGrows DEF HeaderAt

LEMMA KeepsTable ==
  ASSUME NEW d, NEW c, IsSeq(d), IsSeq(c), NEW off \in Nat, NEW t \in Nat,
         NEW n, TableAt(d, t, n), TableBytes \in Nat,
         t + TableBytes <= off \/ off + Len(c) <= t
  PROVE  TableAt(Write(d, off, c), t, n)
  <1>1. Len(d) \in Nat /\ Len(c) \in Nat /\ t + TableBytes <= Len(d)
    BY SeqFacts DEF TableAt
  <1>2. \A k \in 1..TableBytes : Write(d, off, c)[t + k] = d[t + k]
    <2> SUFFICES ASSUME NEW k \in 1..TableBytes PROVE Write(d, off, c)[t + k] = d[t + k]
      OBVIOUS
    <2>1. /\ t + k \in Nat /\ 1 <= t + k /\ t + k <= Len(d)
          /\ t + k <= off \/ off + Len(c) < t + k
      BY <1>1
    <2> QED BY <2>1, WriteKeeps
  <1>3. Len(Write(d, off, c)) \in Nat /\ t + TableBytes <= Len(Write(d, off, c))
    <2>1. Len(Write(d, off, c)) \in Nat /\ Len(Write(d, off, c)) >= Len(d)
      BY WriteGrows
    <2> QED BY <1>1, <2>1
  <1> QED BY <1>2, <1>3 DEF TableAt

LEMMA KeepsData ==
  ASSUME NEW d, NEW c, IsSeq(d), IsSeq(c), NEW off \in Nat, NEW at \in Nat,
         NEW l, NEW n \in Nat, DataAt(d, at, l, n),
         at + n <= off \/ off + Len(c) <= at
  PROVE  DataAt(Write(d, off, c), at, l, n)
  <1> SUFFICES ASSUME NEW k \in 1..n
               PROVE  /\ at + k <= Len(Write(d, off, c))
                      /\ Write(d, off, c)[at + k] = <<"data", l, k>>
    BY DEF DataAt
  <1>1. at + k <= Len(d) /\ d[at + k] = <<"data", l, k>>
    BY DEF DataAt
  <1>2. at + k \in Nat /\ 1 <= at + k /\ (at + k <= off \/ off + Len(c) < at + k)
    BY WriteGrows
  <1>3. Write(d, off, c)[at + k] = d[at + k]
    BY <1>1, <1>2, WriteKeeps
  <1> QED BY <1>1, <1>3, WriteGrows

LEMMA WriteNoCrc ==
  ASSUME NEW d, NEW c, IsSeq(d), IsSeq(c), NEW off \in Nat,
         \A k \in DOMAIN d : d[k][1] # "crc", \A k \in DOMAIN c : c[k][1] # "crc"
  PROVE  \A k \in DOMAIN Write(d, off, c) : Write(d, off, c)[k][1] # "crc"
  <1> SUFFICES ASSUME NEW k \in DOMAIN Write(d, off, c)
               PROVE  Write(d, off, c)[k][1] # "crc"
    OBVIOUS
  <1>1. k \in 1..Len(Write(d, off, c)) /\ k \in Int
    <2>1. IsSeq(Write(d, off, c))
      BY WriteGrows
    <2>2. DOMAIN Write(d, off, c) = 1..Len(Write(d, off, c))
      BY <2>1, SeqFacts
    <2> QED BY <2>2
  <1>2. DOMAIN d = 1..Len(d) /\ DOMAIN c = 1..Len(c) /\ Len(d) \in Nat /\ Len(c) \in Nat
    BY SeqFacts
  <1>3. CASE off < k /\ k <= off + Len(c)
    <2>1. Write(d, off, c)[k] = c[k - off] /\ k - off \in 1..Len(c)
      BY <1>1, <1>2, <1>3, WriteFacts
    <2> QED BY <1>2, <2>1
  <1>4. CASE ~(off < k /\ k <= off + Len(c)) /\ k <= Len(d)
    <2>1. Write(d, off, c)[k] = d[k] /\ k \in 1..Len(d)
      BY <1>1, <1>2, <1>4, WriteFacts
    <2> QED BY <1>2, <2>1
  <1>5. CASE ~(off < k /\ k <= off + Len(c)) /\ ~(k <= Len(d))
    <2>1. Write(d, off, c)[k] = Zero
      BY <1>1, <1>2, <1>5, WriteFacts
    <2> QED BY <2>1 DEF Zero
  <1> QED BY <1>3, <1>4, <1>5
-----------------------------------------------------------------------------
(* The steps up to the first write.                                        *)

LEMMA EmptyFile == IsSeq(<<>>) /\ DOMAIN <<>> = {} /\ Len(<<>>) = 0
  BY DEF IsSeq

(* A run that is not at its end has none of the properties of the end to   *)
(* keep.                                                                   *)
LEMMA NotOver ==
  ASSUME pc \notin {"written", "done", "failed"}
  PROVE  TablesIntact /\ BinariesIntact /\ LostImageExplained
  BY DEF TablesIntact, BinariesIntact, LostImageExplained, Written

LEMMA ImgInitInv == ImageInit => ImgInv
  <1> SUFFICES ASSUME ImageInit PROVE ImgInv
    OBVIOUS
  <1>1. IInv /\ LayoutTypeOK /\ BeginsNat /\ pc = "start" /\ image # "new"
    <2>1. IInv
      BY InvInit DEF ImageInit
    <2> QED BY <2>1 DEF IInv, TypeOK, ImageInit, LayoutInit
  <1>2. ImgTyped
    BY <1>1, EmptyFile DEF ImageInit, ImgTyped, LayoutPlaces, ImagePlaces, Groups
  <1>3. NoCrcYet
    BY EmptyFile DEF ImageInit, NoCrcYet, NoCrc
  <1> QED BY <1>1, <1>2, <1>3, NotOver
          DEF ImgInv, LayoutInv, TablesInv, BinariesInv

LEMMA LayOutPlace == LayoutNext => pc \in LayoutPlaces
  BY DEF LayoutNext, ReadPart, ReadGroupPart, NextGroup, ReadFails, MeasureEntry,
         NothingOpen, ImageTooSmall, FillLast, RecomputeEntry, RecomputeDone,
         LayoutPlaces, Groups

LEMMA LayOutStep ==
  ASSUME ImgInv, LayOut
  PROVE  ImgInv'
  <1>1. LayoutNext /\ UNCHANGED <<binaries, image, disk>> /\ pc \in LayoutPlaces
    BY LayOutPlace DEF LayOut
  <1>2. IInv'
    BY <1>1, InvStep DEF ImgInv, LayoutInv
  <1>3. /\ LayoutTypeOK' /\ BeginsNat'
        /\ pc' \in LayoutPlaces \cup {"failed"} /\ pc' \notin ImagePlaces
    BY <1>2 DEF IInv, TypeOK, LayoutPlaces, ImagePlaces, Groups
  <1>4. image # "new" /\ image' # "new" /\ disk' = <<>>
    BY <1>1 DEF ImgInv, ImgTyped
  <1>5. ImgTyped'
    BY <1>1, <1>3, <1>4, EmptyFile DEF ImgInv, ImgTyped, ImagePlaces
  <1>6. NoCrcYet'
    BY <1>4, EmptyFile DEF NoCrcYet, NoCrc
  <1>7. (TablesInv /\ BinariesInv /\ TablesIntact /\ BinariesIntact)'
    BY <1>3 DEF TablesInv, BinariesInv, TablesIntact, BinariesIntact, Written, ImagePlaces
  <1>8. LostImageExplained'
    BY <1>4 DEF LostImageExplained
  <1> QED BY <1>2, <1>4, <1>5, <1>6, <1>7, <1>8 DEF ImgInv, LayoutInv

LEMMA StartStep ==
  ASSUME ImgInv, StartImage
  PROVE  ImgInv'
  <1>1. /\ pc' = "headers" /\ image' = "new" /\ disk' = <<>> /\ pos' = 0
        /\ binaries' \in Binaries(cfg) /\ InputsOk(binaries')
        /\ UNCHANGED <<cfg, img_size, tlb, start_lba, part, slot, last, remaining, new_begin>>
    BY DEF StartImage
  <1>2. InputsOk(binaries)'
    BY <1>1 DEF InputsOk
  <1>3. LayoutTypeOK' /\ BeginsNat'
    BY <1>1 DEF ImgInv, ImgTyped, LayoutTypeOK, BeginsNat
  <1>4. ImgTyped'
    BY <1>1, <1>2, <1>3, EmptyFile DEF ImgTyped, LayoutPlaces, ImagePlaces, Groups
  <1>5. NoCrcYet'
    BY <1>1, EmptyFile DEF NoCrcYet, NoCrc
  <1>6. SharedOut'
    <2>1. NoOverlap /\ InsideUsable /\ pc = "laid"
      BY InvNoOverlap, InvInsideUsable DEF StartImage, ImgInv, LayoutInv, LayoutPlaces
    <2>2. SharedOut
      BY <2>1 DEF SharedOut, NoOverlap, InsideUsable, Disjoint, InUsable
    <2> QED BY <1>1, <2>2 DEF SharedOut, Disjoint, InUsable
  <1> QED BY <1>1, <1>4, <1>5, <1>6
          DEF ImgInv, LayoutInv, LayoutPlaces, Groups, TablesInv, BinariesInv,
              TablesIntact, BinariesIntact, LostImageExplained, Written

LEMMA RejectStep ==
  ASSUME ImgInv, RejectInputs
  PROVE  ImgInv'
  <1>1. /\ pc = "laid" /\ pc' = "failed"
        /\ UNCHANGED <<cfg, img_size, tlb, start_lba, part, slot, pos, last,
                       remaining, new_begin, binaries, image, disk>>
    BY DEF RejectInputs
  <1>2. LayoutTypeOK' /\ BeginsNat'
    BY <1>1 DEF ImgInv, ImgTyped, LayoutTypeOK, BeginsNat
  <1>3. ImgTyped' /\ image' # "new"
    BY <1>1, <1>2 DEF ImgInv, ImgTyped, LayoutPlaces, ImagePlaces, Groups
  <1>4. NoCrcYet'
    BY <1>1 DEF ImgInv, NoCrcYet, NoCrc
  <1> QED BY <1>1, <1>3, <1>4
          DEF ImgInv, LayoutInv, LayoutPlaces, Groups, TablesInv, BinariesInv,
              TablesIntact, BinariesIntact, LostImageExplained, Written

(* A step that only writes: all of the layout stays as it is.              *)
LEMMA WritingTyped ==
  ASSUME ImgTyped, LayoutInv, pc \in ImagePlaces,
         pc' \in (ImagePlaces \ {"headers"}) \cup {"failed"},
         UNCHANGED laidOut, pos' \in 0..Len(tlb), IsSeq(disk'),
         pc' \in {"table", "backup"} => pos' = 0
  PROVE  ImgTyped' /\ LayoutInv'
  <1>1. /\ UNCHANGED <<cfg, img_size, tlb, start_lba, part, slot, last, remaining, new_begin>>
        /\ UNCHANGED <<binaries, image>>
    BY DEF laidOut
  <1>2. LayoutTypeOK' /\ BeginsNat'
    BY <1>1 DEF ImgTyped, LayoutTypeOK, BeginsNat
  <1>3. image' = "new" /\ pc' \notin LayoutPlaces /\ pc' # "headers"
    BY <1>1 DEF ImgTyped, ImagePlaces, LayoutPlaces, Groups
  <1>4. binaries' \in Binaries(cfg') /\ InputsOk(binaries)'
    BY <1>1, <1>3 DEF ImgTyped, InputsOk
  <1>5. SharedOut'
    <2>1. SharedOut
      BY DEF LayoutInv, ImgTyped
    <2> QED BY <1>1, <2>1 DEF SharedOut, Disjoint, InUsable
  <1> QED BY <1>2, <1>3, <1>4, <1>5 DEF ImgTyped, LayoutInv
-----------------------------------------------------------------------------
(* The headers.                                                            *)

HeaderBlock(copy) == Header(copy) \o Zeros(BlockSize - HeaderSize)

LEMMA HeaderBlockFacts ==
  ASSUME NEW copy, BlockSize \in Nat, BlockSize >= 3
  PROVE  /\ IsSeq(HeaderBlock(copy)) /\ Len(HeaderBlock(copy)) = BlockSize
         /\ HeaderBlock(copy)[1] = <<"header", copy>>
         /\ HeaderBlock(copy)[2] = Zero /\ HeaderBlock(copy)[3] = Zero
         /\ \A k \in DOMAIN HeaderBlock(copy) : HeaderBlock(copy)[k][1] # "crc"
  <1> DEFINE S == {<<"header", copy>>, Zero}
             z == Zeros(BlockSize - HeaderSize)
             h == HeaderBlock(copy)
  <1>1. /\ z \in Seq(S) /\ Len(z) = BlockSize - 3
        /\ \A k \in 1..(BlockSize - 3) : z[k] = Zero
    BY DEF Zeros, HeaderSize
  <1>2. /\ Header(copy) \in Seq(S) /\ Len(Header(copy)) = 3
        /\ Header(copy)[1] = <<"header", copy>>
        /\ Header(copy)[2] = Zero /\ Header(copy)[3] = Zero
    BY DEF Header
  <1>3. PICK g \in Seq(S) :
          /\ g = Header(copy) /\ Len(g) = 3
          /\ g[1] = <<"header", copy>> /\ g[2] = Zero /\ g[3] = Zero
    BY <1>2
  <1>4. h = g \o z
    BY <1>3 DEF HeaderBlock
  <1> HIDE DEF z, h, S
  <1>5. h \in Seq(S) /\ Len(h) = BlockSize
    <2>1. g \o z \in Seq(S) /\ Len(g \o z) = Len(g) + Len(z)
      BY <1>1, <1>3, CatFacts DEF Concatenated
    <2> QED BY <1>1, <1>3, <1>4, <2>1
  <1>6. h[1] = <<"header", copy>> /\ h[2] = Zero /\ h[3] = Zero
    <2>1. \A k \in 1..Len(g) : (g \o z)[k] = g[k]
      <3>1. z \in Seq(S)
        BY <1>1
      <3> QED BY <3>1, CatFacts DEF Concatenated
    <2>2. 1 \in 1..3 /\ 2 \in 1..3 /\ 3 \in 1..3
      OBVIOUS
    <2> QED BY <1>3, <1>4, <2>1, <2>2
  <1>7. \A k \in DOMAIN h : h[k][1] # "crc"
    <2>1. \A k \in DOMAIN h : h[k] \in S
      BY <1>5
    <2>2. \A c \in S : c[1] # "crc"
      BY DEF Zero, S
    <2> QED BY <2>1, <2>2
  <1> QED BY <1>5, <1>6, <1>7, InSeq DEF h

(* Where a header block is written there is a header.                      *)
LEMMA PutsHeader ==
  ASSUME NEW copy, NEW d, IsSeq(d), NEW off \in Nat, BlockSize \in Nat, BlockSize >= 3
  PROVE  HeaderAt(Write(d, off, HeaderBlock(copy)), off, copy)
  <1> DEFINE w == Write(d, off, HeaderBlock(copy))
  <1>1. /\ IsSeq(HeaderBlock(copy)) /\ Len(HeaderBlock(copy)) = BlockSize
    BY HeaderBlockFacts
  <1>2. ASSUME NEW k \in 1..3 PROVE w[off + k] = HeaderBlock(copy)[k]
    <2>1. k \in 1..Len(HeaderBlock(copy))
      BY <1>1
    <2>2. Holds(w, off, HeaderBlock(copy))
      BY <1>1, WritePuts
    <2> QED BY <1>1, <2>1, <2>2 DEF Holds
  <1>3. Len(w) >= off + BlockSize /\ Len(w) \in Nat
    BY <1>1, WriteGrows
  <1> HIDE DEF w
  <1>4. w[off + 1] = <<"header", copy>> /\ w[off + 2] = Zero /\ w[off + 3] = Zero
    <2>1. 1 \in 1..3 /\ 2 \in 1..3 /\ 3 \in 1..3
      OBVIOUS
    <2> QED BY <1>2, <2>1, HeaderBlockFacts
  <1>5. HeaderAt(w, off, copy)
    BY <1>3, <1>4 DEF HeaderAt
  <1> QED BY <1>5 DEF w

(* The zeros in front of everything, then both headers: the gap between    *)
(* them, with the backup table, is filled with zeros.                      *)
LEMMA HeadersStep ==
  ASSUME ImgInv, WriteHeaders
  PROVE  ImgInv'
  <1> DEFINE B     == BlockSize
             n     == PrimaryTable + TableBytes
             bh    == LbaBackup(img_size) * BlockSize
             area  == Write(<<>>, 0, Zeros(n))
             mbr   == Write(area, 0, Mbr)
             first == Write(mbr, B, HeaderBlock("primary"))
  <1>1. /\ pc = "headers" /\ pc' = "table" /\ UNCHANGED <<laidOut, pos>>
        /\ disk = <<>> /\ img_size \in ImageSizes /\ pos \in 0..Len(tlb)
    BY DEF WriteHeaders, ImgInv, ImgTyped, LayoutTypeOK
  <1>2. disk' = Write(first, bh, HeaderBlock("backup"))
    BY <1>1 DEF WriteHeaders, HeaderBlock
  <1>3. /\ B \in Nat /\ B >= 3 /\ n \in Nat /\ bh \in Nat /\ TableBytes \in Nat
        /\ PrimaryTable = 2 * B /\ n = PrimaryTable + TableBytes
        /\ bh = LbaBackup(img_size) * BlockSize
    BY <1>1, Places, SMTT(20)
  <1>4. /\ IsSeq(area) /\ Len(area) = n /\ \A k \in 1..n : area[k] = Zero
        /\ \A k \in DOMAIN area : area[k][1] # "crc"
    <2>1. /\ IsSeq(Zeros(n)) /\ Len(Zeros(n)) = n /\ \A k \in 1..n : Zeros(n)[k] = Zero
          /\ Zeros(n) # <<>> /\ n > 0
      BY <1>3, ZerosFacts
    <2> HIDE DEF n
    <2>2. IsSeq(area) /\ Len(area) = n
      BY <1>3, <2>1, EmptyFile, WriteFacts
    <2>3. ASSUME NEW k \in 1..n PROVE area[k] = Zero
      <3>1. 0 < k /\ k <= 0 + Len(Zeros(n)) /\ k - 0 = k
        BY <1>3, <2>1
      <3> QED BY <1>3, <2>1, <2>2, <3>1, EmptyFile, WriteFacts
    <2>4. DOMAIN area = 1..n
      BY <2>2, SeqFacts
    <2> QED BY <2>2, <2>3, <2>4 DEF Zero
  <1> HIDE DEF n, area
  <1>5. /\ IsSeq(Mbr) /\ Len(Mbr) = 1 /\ \A k \in DOMAIN Mbr : Mbr[k][1] # "crc"
    <2>1. Mbr \in Seq({<<"mbr">>}) /\ Len(Mbr) = 1
      BY DEF Mbr
    <2>2. \A k \in DOMAIN Mbr : Mbr[k] = <<"mbr">>
      BY <2>1
    <2>3. <<"mbr">>[1] # "crc"
      OBVIOUS
    <2> QED BY <2>1, <2>2, <2>3, InSeq
  <1>6. /\ IsSeq(mbr) /\ Len(mbr) = n /\ \A k \in 2..n : mbr[k] = Zero
        /\ \A k \in DOMAIN mbr : mbr[k][1] # "crc"
    <2>1. IsSeq(mbr) /\ Len(mbr) = n
      BY <1>3, <1>4, <1>5, WriteFacts
    <2>2. ASSUME NEW k \in 2..n PROVE mbr[k] = area[k]
      <3>1. /\ 0 \in Nat /\ k \in Nat /\ 1 <= k /\ k <= Len(area)
            /\ 0 + Len(Mbr) < k
        BY <1>3, <1>4, <1>5
      <3> QED BY <1>4, <1>5, <3>1, WriteKeeps
    <2>3. \A k \in DOMAIN mbr : mbr[k][1] # "crc"
      BY <1>4, <1>5, WriteNoCrc
    <2> QED BY <1>3, <1>4, <2>1, <2>2, <2>3
  <1> HIDE DEF mbr
  <1>7. /\ IsSeq(HeaderBlock("primary")) /\ Len(HeaderBlock("primary")) = B
        /\ \A k \in DOMAIN HeaderBlock("primary") : HeaderBlock("primary")[k][1] # "crc"
        /\ IsSeq(HeaderBlock("backup")) /\ Len(HeaderBlock("backup")) = B
        /\ \A k \in DOMAIN HeaderBlock("backup") : HeaderBlock("backup")[k][1] # "crc"
    BY <1>3, HeaderBlockFacts
  <1>8. /\ IsSeq(first) /\ Len(first) = n
        /\ \A k \in (2 * B + 1)..n : first[k] = Zero
        /\ HeaderAt(first, B, "primary")
        /\ \A k \in DOMAIN first : first[k][1] # "crc"
    <2>1. IsSeq(first) /\ Len(first) = n
      BY <1>3, <1>6, <1>7, WriteFacts
    <2>2. ASSUME NEW k \in (2 * B + 1)..n PROVE first[k] = mbr[k]
      <3>1. /\ k \in Nat /\ 1 <= k /\ k <= Len(mbr)
            /\ B + Len(HeaderBlock("primary")) < k
        BY <1>3, <1>6, <1>7
      <3>2. IsSeq(mbr) /\ IsSeq(HeaderBlock("primary")) /\ B \in Nat
        BY <1>3, <1>6, <1>7
      <3> HIDE DEF mbr, n, bh
      <3> QED BY <3>1, <3>2, WriteKeeps
    <2>3. \A k \in DOMAIN first : first[k][1] # "crc"
      BY <1>3, <1>6, <1>7, WriteNoCrc
    <2>4. HeaderAt(first, B, "primary")
      BY <1>3, <1>6, PutsHeader
    <2> QED BY <1>3, <1>6, <2>1, <2>2, <2>3, <2>4
  <1> HIDE DEF first
  <1>9. IsSeq(disk') /\ \A k \in DOMAIN disk' : disk'[k][1] # "crc"
    <2>1. \A k \in DOMAIN disk' : disk'[k][1] # "crc"
      BY <1>2, <1>3, <1>7, <1>8, WriteNoCrc
    <2> QED BY <1>2, <1>3, <1>7, <1>8, <2>1, WriteGrows
  <1>10. ImgTyped' /\ LayoutInv'
    BY <1>1, <1>9, WritingTyped DEF ImgInv, ImgTyped, ImagePlaces
  <1>11. TablesInv'
    <2> SUFFICES ASSUME TableOfBlocks, UsualSize
                 PROVE  /\ HeaderAt(disk', B, "primary") /\ HeaderAt(disk', bh, "backup")
                        /\ TableAt(disk', PrimaryTable, 0)
                        /\ TableAt(disk', SecondaryTable, 0)
      <3>1. UsualSize' => UsualSize
        BY <1>1 DEF UsualSize, laidOut
      <3>2. SecondaryTable' = SecondaryTable /\ BackupHeaderAt' = bh /\ pc' = "table"
        BY <1>1 DEF SecondaryTable, BackupHeaderAt, laidOut
      <3> QED BY <3>1, <3>2 DEF TablesInv, Regular
    <2>1. /\ SecondaryTable \in Nat /\ SecondaryTable + TableBytes = bh
          /\ n < SecondaryTable
      <3>1. /\ SecondaryTable \in Nat /\ SecondaryTable + TableBytes = BackupHeaderAt
            /\ PrimaryTable + TableBytes <= LbaLast(img_size)
            /\ LbaLast(img_size) + 1 + TableBytes <= SecondaryTable
            /\ LbaLast(img_size) \in Nat
        BY <1>1, Order, Places
      <3>2. BackupHeaderAt = bh
        BY DEF BackupHeaderAt
      <3> QED BY <1>3, <3>1, <3>2
    <2>2. Len(disk') = bh + B
      <3>1. HeaderBlock("backup") # <<>> /\ bh + Len(HeaderBlock("backup")) > Len(first)
        BY <1>3, <1>7, <1>8, <2>1
      <3> QED BY <1>2, <1>3, <1>7, <1>8, <3>1, WriteFacts
    <2>3. \A k \in 1..bh : disk'[k] = IF k <= n THEN first[k] ELSE Zero
      <3> SUFFICES ASSUME NEW k \in 1..bh PROVE disk'[k] = IF k <= n THEN first[k] ELSE Zero
        OBVIOUS
      <3>1. k \in 1..(bh + B) /\ ~(bh < k)
        BY <1>3
      <3> QED BY <1>2, <1>3, <1>7, <1>8, <2>2, <3>1, WriteFacts
    <2>4. HeaderAt(disk', B, "primary")
      BY <1>2, <1>3, <1>7, <1>8, <2>1, KeepsHeader
    <2>5. HeaderAt(disk', bh, "backup")
      BY <1>2, <1>3, <1>8, PutsHeader
    <2>6. 0 * EntrySize = 0
      BY LayoutAssumption
    <2>7. TableAt(disk', PrimaryTable, 0)
      <3>1. ASSUME NEW k \in 1..TableBytes PROVE disk'[PrimaryTable + k] = Zero
        <4>1. PrimaryTable + k \in (2 * B + 1)..n /\ PrimaryTable + k \in 1..bh
              /\ PrimaryTable + k <= n
          BY <1>3, <2>1
        <4> QED BY <1>8, <2>3, <4>1
      <3>2. PrimaryTable + TableBytes <= bh + B
        BY <1>3, <2>1
      <3> QED BY <2>2, <2>6, <3>1, <3>2 DEF TableAt
    <2>8. TableAt(disk', SecondaryTable, 0)
      <3>1. ASSUME NEW k \in 1..TableBytes PROVE disk'[SecondaryTable + k] = Zero
        <4>1. SecondaryTable + k \in 1..bh /\ ~(SecondaryTable + k <= n)
          BY <1>3, <2>1
        <4> QED BY <2>3, <4>1
      <3>2. SecondaryTable + TableBytes <= bh + B
        BY <1>3, <2>1
      <3> QED BY <2>2, <2>6, <3>1, <3>2 DEF TableAt
    <2> QED BY <2>4, <2>5, <2>7, <2>8
  <1> QED BY <1>1, <1>9, <1>10, <1>11
          DEF ImgInv, NoCrcYet, NoCrc, BinariesInv, TablesIntact, BinariesIntact,
              LostImageExplained, Written
-----------------------------------------------------------------------------
(* The tables.                                                             *)

(* Entries written over an empty table are a table of so many entries.     *)
LEMMA PutsTable ==
  ASSUME NEW d, IsSeq(d), NEW t \in Nat, NEW n \in Nat, n <= TableLength,
         TableAt(d, t, 0)
  PROVE  /\ TableAt(Write(d, t, Entries(n)), t, n)
         /\ Len(Entries(n)) <= TableBytes
  <1> DEFINE c == Entries(n)
             w == Write(d, t, c)
             m == n * EntrySize
  <1>1. /\ IsSeq(c) /\ m \in Nat /\ Len(c) = m
        /\ \A k \in 1..m : c[k] = <<"entry", k>>
    BY EntriesFacts
  <1>2. EntrySize \in Nat /\ TableLength \in Nat /\ 0 * EntrySize = 0
    BY LayoutAssumption
  <1>3. m <= TableBytes /\ TableBytes \in Nat
    BY <1>2, Mono DEF TableBytes
  <1> HIDE DEF c
  <1>4. Len(w) >= Len(d) /\ Len(d) \in Nat /\ Len(w) \in Nat
    BY <1>1, WriteGrows
  <1>5. t + TableBytes <= Len(d) /\ \A k \in 1..TableBytes : d[t + k] = Zero
    <2>1. t + TableBytes <= Len(d)
      BY DEF TableAt
    <2>2. ASSUME NEW k \in 1..TableBytes PROVE d[t + k] = Zero
      <3>1. ~(k <= 0 * EntrySize)
        BY <1>2, <1>3
      <3>2. d[t + k] = IF k <= 0 * EntrySize THEN <<"entry", k>> ELSE Zero
        BY DEF TableAt
      <3> QED BY <3>1, <3>2
    <2> QED BY <2>1, <2>2
  <1> HIDE DEF m
  <1>6. ASSUME NEW k \in 1..TableBytes
        PROVE  w[t + k] = IF k <= m THEN <<"entry", k>> ELSE Zero
    <2>1. CASE k <= m
      <3>1. Holds(w, t, c)
        BY <1>1, WritePuts
      <3>2. k \in 1..m
        BY <2>1, <1>3
      <3> QED BY <1>1, <2>1, <3>1, <3>2 DEF Holds
    <2>2. CASE ~(k <= m)
      <3>1. t + k \in Nat /\ 1 <= t + k /\ t + k <= Len(d) /\ t + Len(c) < t + k
        BY <1>1, <1>3, <1>5, <2>2
      <3>2. w[t + k] = d[t + k]
        BY <1>1, <3>1, WriteKeeps, SMTT(30)
      <3> QED BY <1>5, <2>2, <3>2
    <2> QED BY <2>1, <2>2
  <1>7. t + TableBytes <= Len(w)
    BY <1>3, <1>4, <1>5
  <1> HIDE DEF w
  <1>8. TableAt(w, t, n)
    BY <1>6, <1>7 DEF TableAt, m
  <1> QED BY <1>1, <1>3, <1>8 DEF w, c

(* The stray copy of the entries lands between the two tables.             *)
LEMMA PutTableFacts ==
  ASSUME img_size \in ImageSizes, UsualSize, TableOfBlocks,
         Len(tlb) \in Nat, Len(tlb) <= TableLength, NEW d, IsSeq(d),
         HeaderAt(d, BlockSize, "primary"), HeaderAt(d, BackupHeaderAt, "backup"),
         NEW t \in {PrimaryTable, SecondaryTable},
         NEW o \in {PrimaryTable, SecondaryTable}, o # t,
         TableAt(d, t, 0), NEW m, TableAt(d, o, m)
  PROVE  LET w == PutTable(d, t)
         IN  /\ HeaderAt(w, BlockSize, "primary")
             /\ HeaderAt(w, BackupHeaderAt, "backup")
             /\ TableAt(w, t, Len(tlb)) /\ TableAt(w, o, m)
  <1> DEFINE c == Entries(Len(tlb))
             v == Write(d, t, c)
             s == LbaLast(img_size) + 1
             w == Write(v, s, c)
  <1>1. PutTable(d, t) = w
    BY DEF PutTable
  <1>2. /\ IsSeq(c) /\ Len(c) \in Nat /\ Len(c) <= TableBytes
        /\ TableAt(v, t, Len(tlb))
    <2>1. t \in Nat
      BY Order, Places
    <2>2. IsSeq(c) /\ Len(c) \in Nat
      BY EntriesFacts
    <2> QED BY <2>1, <2>2, PutsTable
  <1> HIDE DEF c
  <1>3. /\ BlockSize \in Nat /\ BlockSize >= 3 /\ PrimaryTable = 2 * BlockSize
        /\ TableBytes \in Nat /\ SecondaryTable \in Nat /\ BackupHeaderAt \in Nat
        /\ s \in Nat /\ PrimaryTable \in Nat
        /\ PrimaryTable + TableBytes < s /\ s + TableBytes <= SecondaryTable
        /\ SecondaryTable + TableBytes = BackupHeaderAt
    <2>1. /\ SecondaryTable \in Nat
          /\ PrimaryTable + TableBytes <= LbaLast(img_size)
          /\ LbaLast(img_size) + 1 + TableBytes <= SecondaryTable
          /\ SecondaryTable + TableBytes = BackupHeaderAt
      BY Order
    <2>2. /\ BlockSize \in Nat /\ BlockSize >= 3 /\ PrimaryTable = 2 * BlockSize
          /\ TableBytes \in Nat /\ PrimaryTable \in Nat /\ LbaLast(img_size) \in Nat
      BY Places
    <2> QED BY <2>1, <2>2
  <1> HIDE DEF s
  <1>4. /\ t \in Nat /\ o \in Nat /\ (t + TableBytes <= o \/ o + TableBytes <= t)
        /\ BlockSize + 3 <= t /\ t + TableBytes <= BackupHeaderAt
        /\ (t + TableBytes <= s \/ s + TableBytes <= t)
        /\ (o + TableBytes <= s \/ s + TableBytes <= o)
    BY <1>3
  <1>5. IsSeq(v)
    BY <1>2, <1>4, WriteGrows
  <1>6. HeaderAt(v, BlockSize, "primary") /\ HeaderAt(v, BackupHeaderAt, "backup")
    <2>1. t + Len(c) <= BackupHeaderAt
      BY <1>2, <1>3, <1>4
    <2>2. HeaderAt(v, BlockSize, "primary")
      BY <1>2, <1>3, <1>4, KeepsHeader
    <2>3. HeaderAt(v, BackupHeaderAt, "backup")
      BY <1>2, <1>3, <1>4, <2>1, KeepsHeader
    <2> QED BY <2>2, <2>3
  <1>7. TableAt(v, o, m)
    <2>1. o + TableBytes <= t \/ t + Len(c) <= o
      BY <1>2, <1>3, <1>4
    <2> QED BY <1>2, <1>3, <1>4, <2>1, KeepsTable
  <1> HIDE DEF v
  <1>8. HeaderAt(w, BlockSize, "primary") /\ HeaderAt(w, BackupHeaderAt, "backup")
    <2>1. BlockSize + 3 <= s /\ s + Len(c) <= BackupHeaderAt
      BY <1>2, <1>3
    <2>2. HeaderAt(w, BlockSize, "primary")
      BY <1>2, <1>3, <1>5, <1>6, <2>1, KeepsHeader
    <2>3. HeaderAt(w, BackupHeaderAt, "backup")
      BY <1>2, <1>3, <1>5, <1>6, <2>1, KeepsHeader
    <2> QED BY <2>2, <2>3
  <1>9. TableAt(w, t, Len(tlb))
    <2>1. t + TableBytes <= s \/ s + Len(c) <= t
      BY <1>2, <1>3, <1>4
    <2> QED BY <1>2, <1>3, <1>4, <1>5, <2>1, KeepsTable
  <1>10. TableAt(w, o, m)
    <2>1. o + TableBytes <= s \/ s + Len(c) <= o
      BY <1>2, <1>3, <1>4
    <2> QED BY <1>2, <1>3, <1>4, <1>5, <1>7, <2>1, KeepsTable
  <1> QED BY <1>1, <1>8, <1>9, <1>10

LEMMA EntriesNoCrc ==
  ASSUME NEW n \in Nat
  PROVE  \A k \in DOMAIN Entries(n) : Entries(n)[k][1] # "crc"
  <1>1. DOMAIN Entries(n) = 1..(n * EntrySize)
    BY EntriesFacts, SeqFacts
  <1>2. \A k : <<"entry", k>>[1] # "crc"
    OBVIOUS
  <1>3. \A k \in 1..(n * EntrySize) : Entries(n)[k] = <<"entry", k>>
    BY EntriesFacts
  <1> QED BY <1>1, <1>2, <1>3

LEMMA TableStep ==
  ASSUME ImgInv, WriteTable
  PROVE  ImgInv'
  <1> DEFINE c == Entries(Len(tlb))
             t == TableOffset
             s == LbaLast(img_size) + 1
  <1>1. /\ pc \in {"table", "backup"} /\ UNCHANGED <<laidOut, pos>>
        /\ pc' = IF pc = "table" THEN "backup" ELSE "partitions"
        /\ disk' = PutTable(disk, t)
        /\ img_size \in ImageSizes /\ pos \in 0..Len(tlb) /\ tlb \in Seq(Entry)
        /\ Len(tlb) \in Nat /\ IsSeq(disk) /\ NoCrc
    BY DEF WriteTable, ImgInv, ImgTyped, LayoutTypeOK, NoCrcYet
  <1>2. t \in Nat /\ s \in Nat
    <2>1. /\ PrimaryTable \in Nat /\ LbaLast(img_size) \in Nat
          /\ (LbaBackup(img_size) - BackupTableBlocks) * BlockSize \in Nat
      BY <1>1, Places
    <2> QED BY <2>1 DEF TableOffset, SecondaryTable
  <1>3. IsSeq(c) /\ \A k \in DOMAIN c : c[k][1] # "crc"
    BY <1>1, EntriesFacts, EntriesNoCrc
  <1>4. IsSeq(disk') /\ \A k \in DOMAIN disk' : disk'[k][1] # "crc"
    <2> DEFINE v == Write(disk, t, c)
    <2>1. disk' = Write(v, s, c)
      BY <1>1 DEF PutTable
    <2> HIDE DEF c, t, s
    <2>2. IsSeq(v)
      BY <1>1, <1>2, <1>3, WriteGrows
    <2>3. \A k \in DOMAIN v : v[k][1] # "crc"
      BY <1>1, <1>2, <1>3, WriteNoCrc DEF NoCrc
    <2> HIDE DEF v
    <2>4. IsSeq(Write(v, s, c))
      BY <1>2, <1>3, <2>2, WriteGrows
    <2>5. \A k \in DOMAIN Write(v, s, c) : Write(v, s, c)[k][1] # "crc"
      BY <1>2, <1>3, <2>2, <2>3, WriteNoCrc
    <2> QED BY <2>1, <2>4, <2>5
  <1>5. ImgTyped' /\ LayoutInv'
    <2>1. pc \in ImagePlaces /\ pc' \in (ImagePlaces \ {"headers"}) \cup {"failed"}
      BY <1>1 DEF ImagePlaces
    <2>2. UNCHANGED laidOut /\ pos' \in 0..Len(tlb) /\ pos' = 0
      BY <1>1 DEF ImgInv, ImgTyped
    <2> QED BY <1>4, <2>1, <2>2, WritingTyped DEF ImgInv
  <1>6. TablesInv'
    <2>1. /\ img_size' = img_size /\ tlb' = tlb /\ binaries' = binaries
          /\ SecondaryTable' = SecondaryTable /\ BackupHeaderAt' = BackupHeaderAt
      BY <1>1 DEF SecondaryTable, BackupHeaderAt, laidOut
    <2>2. Regular' => Regular
      BY <2>1 DEF Regular, UsualSize, InUsable, AllFit, MarksFit, Fits, Carries,
                  HasOption, Flashed
    <2> SUFFICES ASSUME TableOfBlocks, Regular, Len(tlb) <= TableLength
                 PROVE  /\ HeaderAt(disk', BlockSize, "primary")
                        /\ HeaderAt(disk', BackupHeaderAt, "backup")
                        /\ TableAt(disk', PrimaryTable, Len(tlb))
                        /\ TableAt(disk', SecondaryTable,
                                   IF pc = "backup" THEN Len(tlb) ELSE 0)
      BY <1>1, <2>1, <2>2 DEF TablesInv
    <2>3. /\ HeaderAt(disk, BlockSize, "primary")
          /\ HeaderAt(disk, BackupHeaderAt, "backup")
          /\ TableAt(disk, PrimaryTable, IF pc = "table" THEN 0 ELSE Len(tlb))
          /\ TableAt(disk, SecondaryTable, 0)
      BY <1>1 DEF ImgInv, TablesInv
    <2>4. UsualSize /\ PrimaryTable # SecondaryTable
      <3>1. UsualSize
        BY DEF Regular
      <3>2. /\ PrimaryTable \in Nat /\ TableBytes \in Nat /\ SecondaryTable \in Nat
            /\ LbaLast(img_size) \in Nat
            /\ PrimaryTable + TableBytes <= LbaLast(img_size)
            /\ LbaLast(img_size) + 1 + TableBytes <= SecondaryTable
        BY <1>1, <3>1, Order, Places
      <3> QED BY <3>1, <3>2
    <2>5. CASE pc = "table"
      <3>1. t = PrimaryTable
        BY <2>5 DEF TableOffset
      <3>2. TableAt(disk, PrimaryTable, 0)
        BY <2>3, <2>5
      <3> QED BY <1>1, <2>3, <2>4, <2>5, <3>1, <3>2, PutTableFacts
    <2>6. CASE pc = "backup"
      <3>1. t = SecondaryTable
        BY <2>6 DEF TableOffset
      <3>2. TableAt(disk, PrimaryTable, Len(tlb))
        BY <2>3, <2>6
      <3> QED BY <1>1, <2>3, <2>4, <2>6, <3>1, <3>2, PutTableFacts
    <2> QED BY <1>1, <2>5, <2>6
  <1>7. BinariesInv'
    <2>1. pos' = 0
      BY <1>1 DEF ImgInv, ImgTyped
    <2>2. 1..pos' = {}
      BY <2>1
    <2> QED BY <2>2 DEF BinariesInv
  <1> QED BY <1>1, <1>4, <1>5, <1>6, <1>7
          DEF ImgInv, NoCrcYet, NoCrc, TablesIntact, BinariesIntact,
              LostImageExplained, Written
(* An entry of unknown type: what was written so far is no image.          *)
LEMMA UnknownTypeStep ==
  ASSUME ImgInv, UnknownType
  PROVE  ImgInv'
  <1>1. /\ pc = "table" /\ pc' = "failed" /\ UNCHANGED <<laidOut, pos>>
        /\ img_size \in ImageSizes /\ pos \in 0..Len(tlb) /\ tlb \in Seq(Entry)
        /\ IsSeq(disk) /\ NoCrc
    BY DEF UnknownType, ImgInv, ImgTyped, LayoutTypeOK, NoCrcYet
  <1>2. PICK i \in DOMAIN tlb : ~Typed(tlb[i]) /\ disk' = Write(disk, TableOffset, Entries(i - 1))
    BY DEF UnknownType
  <1>3. i - 1 \in Nat /\ TableOffset \in Nat
    <2>1. PrimaryTable \in Nat
      BY <1>1, Places
    <2>2. i \in 1..Len(tlb)
      BY <1>1
    <2>3. TableOffset = PrimaryTable
      BY <1>1, Zenon DEF TableOffset
    <2> QED BY <2>1, <2>2, <2>3
  <1>4. IsSeq(Entries(i - 1))
        /\ \A k \in DOMAIN Entries(i - 1) : Entries(i - 1)[k][1] # "crc"
    BY <1>3, EntriesFacts, EntriesNoCrc
  <1>5. IsSeq(disk')
    BY <1>1, <1>2, <1>3, <1>4, WriteGrows
  <1>6. \A k \in DOMAIN disk' : disk'[k][1] # "crc"
    BY <1>1, <1>2, <1>3, <1>4, WriteNoCrc DEF NoCrc
  <1>7. ImgTyped' /\ LayoutInv'
    <2>1. pc \in ImagePlaces /\ pc' \in (ImagePlaces \ {"headers"}) \cup {"failed"}
      BY <1>1 DEF ImagePlaces
    <2>2. UNCHANGED laidOut /\ pos' \in 0..Len(tlb) /\ pc' \notin {"table", "backup"}
      BY <1>1
    <2> QED BY <1>5, <2>1, <2>2, WritingTyped DEF ImgInv
  <1>8. LostImageExplained'
    <2>1. tlb' = tlb /\ ~Typed(tlb'[i])
      BY <1>1, <1>2 DEF laidOut
    <2> QED BY <1>2, <2>1 DEF LostImageExplained, Typed, EndOf
  <1> QED BY <1>1, <1>6, <1>7, <1>8
          DEF ImgInv, NoCrcYet, NoCrc, TablesInv, BinariesInv, TablesIntact,
              BinariesIntact, Written
-----------------------------------------------------------------------------
(* The partitions.                                                         *)

(* What is written at the begin of a partition.                            *)
CellsOf(e) == IF Flashed(e) THEN Data(e.label, binaries[e.label]) ELSE <<Zero>>

LEMMA EntryPlace ==
  ASSUME ImgTyped, NEW i \in 1..Len(tlb)
  PROVE  /\ tlb[i] \in Entry /\ tlb[i].begin \in Nat /\ tlb[i].size \in Int
         /\ tlb[i].begin * BlockSize \in Nat /\ BlockSize \in Nat
         /\ EndOf(tlb[i]) \in Int
  <1>1. tlb \in Seq(Entry) /\ tlb[i] \in Entry
    BY DEF ImgTyped, LayoutTypeOK
  <1>2. tlb[i].begin \in Int /\ tlb[i].size \in Int /\ tlb[i].begin >= 0
    BY <1>1, EntryTyping DEF ImgTyped, BeginsNat
  <1> QED BY <1>1, <1>2, LayoutAssumption DEF EndOf

(* The inputs were checked: a binary there is an option for has a size or  *)
(* is "none".                                                              *)
LEMMA CellsFacts ==
  ASSUME ImgTyped, image = "new", NEW i \in 1..Len(tlb), HasOption(tlb[i])
  PROVE  LET c == CellsOf(tlb[i])
         IN  /\ IsSeq(c) /\ \A k \in DOMAIN c : c[k][1] # "crc"
             /\ Flashed(tlb[i]) => /\ binaries[tlb[i].label] \in Nat
                                   /\ c = Data(tlb[i].label, binaries[tlb[i].label])
                                   /\ Len(c) = binaries[tlb[i].label]
             /\ ~Flashed(tlb[i]) => Len(c) = 1
  <1> DEFINE e == tlb[i]
             c == CellsOf(e)
  <1>1. /\ binaries \in [AndroidPartitions -> Nat \cup {None, Missing}]
        /\ \A l \in AndroidPartitions : binaries[l] # Missing
    BY ImageAssumption DEF ImgTyped, LayoutTypeOK, InputsOk
  <1>2. e.label \in AndroidPartitions
    BY DEF HasOption
  <1>3. CASE Flashed(e)
    <2> DEFINE n == binaries[e.label]
               l == e.label
    <2>1. n \in Nat
      BY <1>1, <1>2, <1>3 DEF Flashed
    <2>2. c = Data(l, n)
      BY <1>3 DEF CellsOf
    <2> HIDE DEF n, l, c
    <2>3. /\ IsSeq(c) /\ Len(c) = n /\ \A k \in 1..n : c[k] = <<"data", l, k>>
      BY <2>1, <2>2, DataFacts
    <2>4. DOMAIN c = 1..n
      BY <2>3, SeqFacts
    <2>5. \A k : <<"data", l, k>>[1] # "crc"
      OBVIOUS
    <2>6. \A k \in DOMAIN c : c[k][1] # "crc"
      BY <2>3, <2>4, <2>5
    <2> QED BY <1>3, <2>1, <2>2, <2>3, <2>6 DEF n, l, c
  <1>4. CASE ~Flashed(e)
    <2>1. c = <<Zero>>
      BY <1>4 DEF CellsOf
    <2> HIDE DEF c
    <2>2. c \in Seq({Zero}) /\ Len(c) = 1 /\ \A k \in DOMAIN c : c[k] = Zero
      BY <2>1
    <2>3. Zero[1] # "crc"
      BY DEF Zero
    <2>4. IsSeq(c) /\ \A k \in DOMAIN c : c[k][1] # "crc"
      BY <2>2, <2>3, InSeq
    <2> QED BY <1>4, <2>2, <2>4 DEF c
  <1> QED BY <1>3, <1>4

(* In a regular image what is written for a partition stays in it, and it  *)
(* lies between the primary table and the backup table.                    *)
LEMMA Room ==
  ASSUME ImgTyped, image = "new", Regular, NEW i \in 1..Len(tlb),
         HasOption(tlb[i])
  PROVE  /\ tlb[i].begin * BlockSize + Len(CellsOf(tlb[i])) <= EndOf(tlb[i]) * BlockSize
         /\ LbaFirst * BlockSize <= tlb[i].begin * BlockSize
         /\ EndOf(tlb[i]) * BlockSize <= (LbaLast(img_size) + 1) * BlockSize
         /\ EndOf(tlb[i]) * BlockSize \in Int
  <1> DEFINE e == tlb[i]
             n == Len(CellsOf(e))
  <1>1. /\ e.begin \in Nat /\ e.size \in Int /\ BlockSize \in Nat /\ BlockSize >= 3
        /\ EndOf(e) = e.begin + e.size /\ EndOf(e) \in Int
        /\ img_size \in ImageSizes /\ i \in DOMAIN tlb
    <2>1. tlb \in Seq(Entry) /\ img_size \in ImageSizes
      BY DEF ImgTyped, LayoutTypeOK
    <2> QED BY <2>1, EntryPlace, Places, SMTT(20) DEF EndOf
  <1>2. LbaFirst <= e.begin /\ EndOf(e) <= LbaLast(img_size) + 1
    BY <1>1 DEF Regular, InUsable
  <1>3. /\ LbaFirst * BlockSize <= e.begin * BlockSize
        /\ EndOf(e) * BlockSize <= (LbaLast(img_size) + 1) * BlockSize
        /\ EndOf(e) * BlockSize \in Int
    <2>1. LbaFirst \in Int /\ LbaLast(img_size) + 1 \in Int
      <3>1. TableSize \in Nat /\ LbaLast(img_size) \in Nat
        BY <1>1, Places
      <3> QED BY <3>1 DEF LbaFirst
    <2>2. BlockSize \in Nat /\ e.begin \in Int /\ EndOf(e) \in Int
      BY <1>1
    <2>3. LbaFirst * BlockSize <= e.begin * BlockSize
      BY <1>2, <2>1, <2>2, Mono, ZenonT(30)
    <2>4. EndOf(e) * BlockSize <= (LbaLast(img_size) + 1) * BlockSize
      BY <1>2, <2>1, <2>2, Mono, ZenonT(30)
    <2>5. EndOf(e) * BlockSize \in Int
      BY <2>2
    <2> QED BY <2>3, <2>4, <2>5
  <1>4. n \in Nat /\ n <= e.size * BlockSize
    <2>1. CASE Flashed(e)
      <3>1. n = binaries[e.label] /\ n \in Nat
        BY <2>1, CellsFacts
      <3>2. Fits(e) /\ Carries(e)
        BY <1>1, <2>1 DEF Regular, AllFit, Carries
      <3> QED BY <3>1, <3>2 DEF Fits
    <2>2. CASE ~Flashed(e)
      <3>1. n = 1
        BY <2>2, CellsFacts
      <3>2. e.size >= 1
        BY <1>1, <2>2 DEF Regular, MarksFit, Carries
      <3>3. 1 * BlockSize <= e.size * BlockSize
        BY <1>1, <3>2, Mono
      <3> QED BY <1>1, <3>1, <3>3
    <2> QED BY <2>1, <2>2
  <1>5. EndOf(e) * BlockSize = e.begin * BlockSize + e.size * BlockSize
    BY <1>1
  <1>6. e.begin * BlockSize \in Int /\ e.size * BlockSize \in Int
    BY <1>1
  <1> HIDE DEF n
  <1>7. e.begin * BlockSize + n <= EndOf(e) * BlockSize
    BY <1>4, <1>5, <1>6
  <1> QED BY <1>3, <1>7 DEF n
(* The partitions begin behind the headers of the first blocks and end     *)
(* before the last block.                                                  *)
LEMMA Edges ==
  ASSUME img_size \in ImageSizes
  PROVE  /\ 2 * BlockSize <= LbaFirst * BlockSize
         /\ (LbaLast(img_size) + 1) * BlockSize <= BackupHeaderAt
         /\ LbaFirst * BlockSize \in Int
         /\ (LbaLast(img_size) + 1) * BlockSize \in Int
  <1>1. /\ BlockSize \in Nat /\ TableSize \in Nat /\ img_size \div BlockSize \in Nat
        /\ LbaLast(img_size) \in Nat
    BY Places
  <1>2. 2 <= LbaFirst /\ LbaFirst \in Int
    BY <1>1 DEF LbaFirst
  <1>3. LbaLast(img_size) + 1 <= LbaBackup(img_size) /\ LbaBackup(img_size) \in Int
    BY <1>1 DEF LbaLast, LbaBackup, SizeInBlock
  <1>4. LbaLast(img_size) + 1 \in Int
    BY <1>1
  <1> QED BY <1>1, <1>2, <1>3, <1>4, Mono DEF BackupHeaderAt

(* A partition is written: the tables stay, and in a list without overlap  *)
(* the binaries written before it.                                         *)
LEMMA PartitionStep ==
  ASSUME ImgInv, WritePartition
  PROVE  ImgInv'
  <1> DEFINE j == pos + 1
             e == tlb[j]
             c == CellsOf(e)
             off == e.begin * BlockSize
  <1>1. /\ pc = "partitions" /\ pc' = pc /\ pos < Len(tlb) /\ pos' = j
        /\ UNCHANGED laidOut /\ HasOption(e) /\ disk' = Write(disk, off, c)
    BY DEF WritePartition, CellsOf
  <1>2. /\ ImgTyped /\ img_size \in ImageSizes /\ pos \in Nat /\ tlb \in Seq(Entry)
        /\ j \in 1..Len(tlb) /\ IsSeq(disk) /\ NoCrc /\ image = "new"
        /\ Len(tlb) \in Nat
    BY <1>1 DEF ImgInv, ImgTyped, LayoutTypeOK, NoCrcYet, ImagePlaces
  <1>3. IsSeq(c) /\ \A k \in DOMAIN c : c[k][1] # "crc"
    BY <1>1, <1>2, CellsFacts
  <1>4. off \in Nat /\ BlockSize \in Nat
    BY <1>2, EntryPlace
  <1>5. /\ img_size' = img_size /\ tlb' = tlb /\ binaries' = binaries
        /\ SecondaryTable' = SecondaryTable /\ BackupHeaderAt' = BackupHeaderAt
    BY <1>1 DEF SecondaryTable, BackupHeaderAt, laidOut
  <1>6. (Regular' => Regular) /\ (Disjoint' => Disjoint)
    BY <1>5 DEF Regular, UsualSize, InUsable, AllFit, MarksFit, Fits, Carries,
                HasOption, Flashed, Disjoint
  <1>7. \A i \in 1..Len(tlb) : Carries(tlb[i])' = Carries(tlb[i])
    BY <1>5 DEF Carries, HasOption, Flashed
  <1>8. IsSeq(disk') /\ \A k \in DOMAIN disk' : disk'[k][1] # "crc"
    <2> HIDE DEF c, off
    <2>1. IsSeq(Write(disk, off, c))
      BY <1>2, <1>3, <1>4, WriteGrows
    <2>2. \A k \in DOMAIN Write(disk, off, c) : Write(disk, off, c)[k][1] # "crc"
      BY <1>2, <1>3, <1>4, WriteNoCrc DEF NoCrc
    <2> QED BY <1>1, <2>1, <2>2
  <1>9. ImgTyped' /\ LayoutInv'
    <2>1. pc \in ImagePlaces /\ pc' \in (ImagePlaces \ {"headers"}) \cup {"failed"}
          /\ pc' \notin {"table", "backup"}
      BY <1>1 DEF ImagePlaces
    <2>2. pos' \in 0..Len(tlb)
      BY <1>1, <1>2
    <2> QED BY <1>1, <1>2, <1>8, <2>1, <2>2, WritingTyped DEF ImgInv
  <1>10. ASSUME Regular
         PROVE  /\ LbaFirst * BlockSize <= off
                /\ off + Len(c) <= EndOf(e) * BlockSize
                /\ off + Len(c) <= (LbaLast(img_size) + 1) * BlockSize
                /\ Len(c) \in Nat /\ EndOf(e) * BlockSize \in Int
    <2>1. /\ LbaFirst * BlockSize <= off
          /\ off + Len(c) <= EndOf(e) * BlockSize
          /\ EndOf(e) * BlockSize <= (LbaLast(img_size) + 1) * BlockSize
          /\ EndOf(e) * BlockSize \in Int
      BY <1>1, <1>2, <1>10, Room
    <2>2. Len(c) \in Nat
      BY <1>3, SeqFacts
    <2>3. (LbaLast(img_size) + 1) * BlockSize \in Int
      BY <1>2, Edges
    <2> HIDE DEF c, off, e
    <2> QED BY <1>4, <2>1, <2>2, <2>3
  <1>11. TablesInv'
    <2> SUFFICES ASSUME TableOfBlocks, Regular, Len(tlb) <= TableLength
                 PROVE  /\ HeaderAt(disk', BlockSize, "primary")
                        /\ HeaderAt(disk', BackupHeaderAt, "backup")
                        /\ TableAt(disk', PrimaryTable, Len(tlb))
                        /\ TableAt(disk', SecondaryTable, Len(tlb))
      BY <1>1, <1>5, <1>6 DEF TablesInv
    <2>1. /\ HeaderAt(disk, BlockSize, "primary")
          /\ HeaderAt(disk, BackupHeaderAt, "backup")
          /\ TableAt(disk, PrimaryTable, Len(tlb))
          /\ TableAt(disk, SecondaryTable, Len(tlb))
      BY <1>1 DEF ImgInv, TablesInv
    <2>2. UsualSize
      BY DEF Regular
    <2>3. /\ SecondaryTable \in Nat
          /\ LbaFirst * BlockSize = PrimaryTable + TableBytes
          /\ SecondaryTable = (LbaLast(img_size) + 1) * BlockSize
          /\ SecondaryTable + TableBytes = BackupHeaderAt
      BY <1>2, <2>2, Order
    <2>4. /\ BlockSize >= 3 /\ PrimaryTable = 2 * BlockSize
          /\ TableBytes \in Nat /\ PrimaryTable \in Nat
      BY <1>2, Places
    <2>5. /\ BlockSize + 3 <= off /\ PrimaryTable + TableBytes <= off
          /\ off + Len(c) <= SecondaryTable /\ off + Len(c) <= BackupHeaderAt
          /\ BackupHeaderAt \in Nat
      <3> HIDE DEF c, off
      <3> QED BY <1>4, <1>10, <2>3, <2>4
    <2> HIDE DEF c, off
    <2>6. HeaderAt(Write(disk, off, c), BlockSize, "primary")
      BY <1>2, <1>3, <1>4, <2>1, <2>5, KeepsHeader
    <2>7. HeaderAt(Write(disk, off, c), BackupHeaderAt, "backup")
      BY <1>2, <1>3, <1>4, <2>1, <2>5, KeepsHeader
    <2>8. TableAt(Write(disk, off, c), PrimaryTable, Len(tlb))
      BY <1>2, <1>3, <1>4, <2>1, <2>4, <2>5, KeepsTable
    <2>9. TableAt(Write(disk, off, c), SecondaryTable, Len(tlb))
      BY <1>2, <1>3, <1>4, <2>1, <2>3, <2>4, <2>5, KeepsTable
    <2> QED BY <1>1, <2>6, <2>7, <2>8, <2>9
  <1>12. BinariesInv'
    <2> SUFFICES ASSUME Regular, Disjoint, NEW i \in 1..j, Carries(tlb[i])
                 PROVE  DataAt(disk', tlb[i].begin * BlockSize, tlb[i].label,
                               binaries[tlb[i].label])
      BY <1>1, <1>2, <1>5, <1>6, <1>7 DEF BinariesInv
    <2> DEFINE l == tlb[i].label
               n == binaries[l]
               at == tlb[i].begin * BlockSize
    <2>1. i \in 1..Len(tlb) /\ HasOption(tlb[i]) /\ Flashed(tlb[i])
      BY <1>2 DEF Carries
    <2>2. /\ n \in Nat /\ CellsOf(tlb[i]) = Data(l, n) /\ Len(CellsOf(tlb[i])) = n
      BY <1>2, <2>1, CellsFacts
    <2>3. at \in Nat
      BY <1>2, <2>1, EntryPlace
    <2>4. CASE i = j
      <3>1. c = Data(l, n) /\ off = at /\ Len(c) = n
        BY <2>2, <2>4
      <3>2. /\ IsSeq(Data(l, n)) /\ Len(Data(l, n)) = n
            /\ \A k \in 1..n : Data(l, n)[k] = <<"data", l, k>>
        BY <2>2, DataFacts
      <3>3. disk' = Write(disk, at, Data(l, n))
        BY <1>1, <3>1
      <3> HIDE DEF l, n, at, c, off
      <3>4. Holds(Write(disk, at, Data(l, n)), at, Data(l, n))
        BY <1>2, <2>3, <3>2, WritePuts
      <3>5. n > 0 => Len(Write(disk, at, Data(l, n))) >= at + n
        BY <1>2, <2>3, <3>2, WriteGrows
      <3>6. Len(Write(disk, at, Data(l, n))) \in Nat
        BY <1>2, <2>3, <3>2, WriteGrows
      <3>7. DataAt(disk', at, l, n)
        BY <2>2, <2>3, <3>2, <3>3, <3>4, <3>5, <3>6 DEF DataAt, Holds
      <3> QED BY <3>7 DEF l, n, at
    <2>5. CASE i # j
      <3>1. DataAt(disk, at, l, n)
        <4>1. i \in 1..pos
          BY <1>2, <2>5
        <4> QED BY <1>1, <4>1 DEF ImgInv, BinariesInv
      <3>2. EndOf(tlb[i]) <= e.begin \/ EndOf(e) <= tlb[i].begin
        <4>1. i < j /\ i \in DOMAIN tlb /\ j \in DOMAIN tlb
          BY <1>2, <2>1, <2>5
        <4> QED BY <4>1 DEF Disjoint
      <3>3. at + n <= EndOf(tlb[i]) * BlockSize /\ EndOf(tlb[i]) * BlockSize \in Int
        BY <1>2, <2>1, <2>2, Room
      <3>4. off + Len(c) <= EndOf(e) * BlockSize /\ EndOf(e) * BlockSize \in Int
            /\ Len(c) \in Nat
        BY <1>10
      <3>5. \/ EndOf(tlb[i]) * BlockSize <= off
            \/ EndOf(e) * BlockSize <= at
        <4>1. /\ EndOf(tlb[i]) \in Int /\ e.begin \in Int
              /\ EndOf(e) \in Int /\ tlb[i].begin \in Int
          BY <1>2, <2>1, EntryPlace
        <4>2. CASE EndOf(tlb[i]) <= e.begin
          BY <1>4, <4>1, <4>2, Mono
        <4>3. CASE EndOf(e) <= tlb[i].begin
          BY <1>4, <4>1, <4>3, Mono
        <4> QED BY <3>2, <4>2, <4>3
      <3> HIDE DEF l, n, at, c, off, e
      <3>6. at + n <= off \/ off + Len(c) <= at
        BY <1>4, <2>2, <2>3, <3>3, <3>4, <3>5
      <3>7. DataAt(Write(disk, off, c), at, l, n)
        BY <1>2, <1>3, <1>4, <2>2, <2>3, <3>1, <3>6, KeepsData
      <3> QED BY <1>1, <3>7 DEF l, n, at
    <2> QED BY <2>4, <2>5
  <1> QED BY <1>1, <1>8, <1>9, <1>11, <1>12
          DEF ImgInv, NoCrcYet, NoCrc, TablesIntact, BinariesIntact,
              LostImageExplained, Written
(* The program ends at a partition without an option or too small for its  *)
(* binary. TooLarge rounds down, so what it refuses does not fit.          *)
LEMMA PartitionFailsStep ==
  ASSUME ImgInv, PartitionFails
  PROVE  ImgInv'
  <1> DEFINE j == pos + 1
             e == tlb[j]
  <1>1. /\ pc = "partitions" /\ pc' = "failed" /\ pos < Len(tlb)
        /\ UNCHANGED <<laidOut, pos, disk>>
        /\ HasOption(e) => Flashed(e) /\ TooLarge(e)
    BY DEF PartitionFails
  <1>2. /\ ImgTyped /\ pos \in Nat /\ j \in 1..Len(tlb) /\ j \in DOMAIN tlb
        /\ IsSeq(disk) /\ NoCrc /\ image = "new"
    BY <1>1 DEF ImgInv, ImgTyped, LayoutTypeOK, NoCrcYet, ImagePlaces
  <1>3. ImgTyped' /\ LayoutInv'
    <2>1. pc \in ImagePlaces /\ pc' \in (ImagePlaces \ {"headers"}) \cup {"failed"}
          /\ pc' \notin {"table", "backup"}
      BY <1>1 DEF ImagePlaces
    <2>2. pos' \in 0..Len(tlb) /\ IsSeq(disk') /\ UNCHANGED laidOut
      BY <1>1, <1>2
    <2> QED BY <1>2, <2>1, <2>2, WritingTyped DEF ImgInv
  <1>4. ~HasOption(e) \/ ~Fits(e)
    <2> SUFFICES ASSUME HasOption(e) PROVE ~Fits(e)
      OBVIOUS
    <2> DEFINE n == binaries[e.label]
    <2>1. Flashed(e) /\ TooLarge(e) /\ n \in Nat
      BY <1>1, <1>2, CellsFacts
    <2>2. BlockSize \in Nat \ {0} /\ e.size \in Int
      BY <1>2, EntryPlace, LayoutAssumption
    <2>3. n \div BlockSize \in Int /\ (n \div BlockSize) * BlockSize <= n
      <3> HIDE DEF n
      <3> QED BY <2>1, <2>2
    <2>4. e.size + 1 <= n \div BlockSize
      BY <2>1, <2>2, <2>3 DEF TooLarge
    <2>5. (e.size + 1) * BlockSize <= (n \div BlockSize) * BlockSize
      BY <2>2, <2>3, <2>4, Mono
    <2>6. (e.size + 1) * BlockSize = e.size * BlockSize + BlockSize
          /\ e.size * BlockSize \in Int /\ (n \div BlockSize) * BlockSize \in Int
      BY <2>2, <2>3
    <2>7. ~(n <= e.size * BlockSize)
      <3> HIDE DEF n
      <3> QED BY <2>1, <2>2, <2>3, <2>5, <2>6
    <2> QED BY <2>1, <2>7 DEF Fits, Carries
  <1>5. LostImageExplained'
    <2>1. tlb' = tlb /\ binaries' = binaries
      BY <1>1 DEF laidOut
    <2> QED BY <1>2, <1>4, <2>1
            DEF LostImageExplained, HasOption, Fits, Carries, Flashed
  <1> QED BY <1>1, <1>2, <1>3, <1>5
          DEF ImgInv, NoCrcYet, NoCrc, TablesInv, BinariesInv, TablesIntact,
              BinariesIntact, Written
-----------------------------------------------------------------------------
(* The checksums.                                                          *)

(* One cell of the file is replaced.                                       *)
LEMMA PokeFacts ==
  ASSUME NEW d, IsSeq(d), NEW off \in Nat, off + 1 <= Len(d), NEW x
  PROVE  LET w == Write(d, off, <<x>>)
         IN  /\ IsSeq(w) /\ Len(w) = Len(d) /\ w[off + 1] = x
             /\ \A k \in 1..Len(d) : k # off + 1 => w[k] = d[k]
  <1> DEFINE c == <<x>>
             w == Write(d, off, c)
  <1>1. IsSeq(c) /\ Len(c) = 1 /\ c[1] = x /\ c # <<>>
    <2>1. c \in Seq({x}) /\ Len(c) = 1 /\ c[1] = x /\ c # <<>>
      OBVIOUS
    <2> QED BY <2>1, InSeq
  <1> HIDE DEF c
  <1>2. Len(d) \in Nat
    BY SeqFacts
  <1>3. IsSeq(w) /\ Len(w) = Len(d)
    BY <1>1, <1>2, WriteFacts
  <1>4. w[off + 1] = x
    <2>1. Holds(w, off, c) /\ 1 \in 1..Len(c)
      BY <1>1, WritePuts
    <2> QED BY <1>1, <2>1 DEF Holds
  <1>5. ASSUME NEW k \in 1..Len(d), k # off + 1 PROVE w[k] = d[k]
    <2>1. k \in Nat /\ 1 <= k /\ k <= Len(d) /\ (k <= off \/ off + Len(c) < k)
      BY <1>1, <1>2, <1>5
    <2> QED BY <1>1, <2>1, WriteKeeps
  <1> QED BY <1>3, <1>4, <1>5 DEF c

(* The cells of a header whose own checksum is x.                          *)
HeaderCells(w, h, x) == [k \in 1..3 |-> IF k = 2 THEN x ELSE w[h + k]]

(* What _write_crc leaves of a file with both headers: the four checksums, *)
(* each that of what the file holds in the end.                            *)
LEMMA WithCrcsFacts ==
  ASSUME NEW d, IsSeq(d), NEW h \in Nat, h = img_size - BlockSize,
         BlockSize \in Nat, BlockSize >= 3, BlockSize + 3 <= h, h + 3 <= Len(d)
  PROVE  LET w == WithCrcs(d)
         IN  /\ IsSeq(w) /\ Len(w) = Len(d)
             /\ \A k \in 1..Len(d) :
                  k \notin {BlockSize + 2, BlockSize + 3, h + 2, h + 3} => w[k] = d[k]
             /\ w[BlockSize + 3] = Crc32(Read(d, PrimaryTable, TableBytes))
             /\ w[h + 3] = Crc32(Read(d, SecondaryTable, TableBytes))
             /\ w[BlockSize + 2] = Crc32(HeaderCells(w, BlockSize, d[BlockSize + 2]))
             /\ w[h + 2] = Crc32(HeaderCells(w, h, d[h + 2]))
  <1> DEFINE B  == BlockSize
             x1 == Crc32(Read(d, PrimaryTable, TableBytes))
             x2 == Crc32(Read(d, SecondaryTable, TableBytes))
             d1 == Write(d, B + 2, <<x1>>)
             d2 == Write(d1, h + 2, <<x2>>)
             a3 == Read(d2, B, 3)
             x3 == Crc32(a3)
             d3 == Write(d2, B + 1, <<x3>>)
             a4 == Read(d3, h, 3)
             x4 == Crc32(a4)
             w  == Write(d3, h + 1, <<x4>>)
             n  == Len(d)
  <1>1. WithCrcs(d) = w
    BY DEF WithCrcs, TableCrcAt, CrcAt, HeaderSize
  <1>2. n \in Nat /\ B \in Nat /\ B >= 3 /\ B + 3 <= h /\ h + 3 <= n
    BY SeqFacts
  <1> HIDE DEF x1, x2, x3, x4, n
  <1>3. /\ IsSeq(d1) /\ Len(d1) = n /\ d1[B + 3] = x1
        /\ \A k \in 1..n : k # B + 3 => d1[k] = d[k]
    <2>1. B + 2 \in Nat /\ (B + 2) + 1 <= Len(d) /\ (B + 2) + 1 = B + 3
      BY <1>2 DEF n
    <2> QED BY <2>1, PokeFacts DEF n
  <1> HIDE DEF d1
  <1>4. /\ IsSeq(d2) /\ Len(d2) = n /\ d2[h + 3] = x2
        /\ \A k \in 1..n : k # h + 3 => d2[k] = d1[k]
    <2>1. h + 2 \in Nat /\ (h + 2) + 1 <= Len(d1) /\ (h + 2) + 1 = h + 3
          /\ IsSeq(d1) /\ Len(d1) = n
      BY <1>2, <1>3
    <2> QED BY <2>1, PokeFacts
  <1> HIDE DEF d2, a3
  <1>5. a3 = Slice(d2, B, 3)
    <2>1. B + 3 <= Len(d2) /\ B \in Nat /\ 3 \in Nat /\ IsSeq(d2)
      BY <1>2, <1>4
    <2> QED BY <2>1, ReadFacts DEF a3
  <1>6. /\ IsSeq(d3) /\ Len(d3) = n /\ d3[B + 2] = x3
        /\ \A k \in 1..n : k # B + 2 => d3[k] = d2[k]
    <2>1. B + 1 \in Nat /\ (B + 1) + 1 <= Len(d2) /\ (B + 1) + 1 = B + 2
          /\ IsSeq(d2) /\ Len(d2) = n
      BY <1>2, <1>4
    <2> QED BY <2>1, PokeFacts
  <1> HIDE DEF d3, a4
  <1>7. a4 = Slice(d3, h, 3)
    <2>1. h + 3 <= Len(d3) /\ 3 \in Nat /\ IsSeq(d3)
      BY <1>2, <1>6
    <2> QED BY <2>1, ReadFacts DEF a4
  <1>8. /\ IsSeq(w) /\ Len(w) = n /\ w[h + 2] = x4
        /\ \A k \in 1..n : k # h + 2 => w[k] = d3[k]
    <2>1. h + 1 \in Nat /\ (h + 1) + 1 <= Len(d3) /\ (h + 1) + 1 = h + 2
      BY <1>2, <1>6
    <2> QED BY <1>6, <2>1, PokeFacts
  <1> HIDE DEF w
  <1>9. ASSUME NEW k \in 1..n, k \notin {B + 2, B + 3, h + 2, h + 3}
        PROVE  w[k] = d[k]
    BY <1>3, <1>4, <1>6, <1>8, <1>9
  <1>10. /\ B + 1 \in 1..n /\ B + 2 \in 1..n /\ B + 3 \in 1..n
         /\ h + 1 \in 1..n /\ h + 2 \in 1..n /\ h + 3 \in 1..n
    BY <1>2
  <1>11. w[B + 3] = x1 /\ w[h + 3] = x2 /\ w[B + 2] = x3
    <2>1. /\ B + 3 # h + 2 /\ B + 3 # B + 2 /\ B + 3 # h + 3
          /\ h + 3 # h + 2 /\ h + 3 # B + 2 /\ B + 2 # h + 2
      BY <1>2
    <2> QED BY <1>3, <1>4, <1>6, <1>8, <1>10, <2>1
  <1>12. a3 = HeaderCells(w, B, d[B + 2])
    <2> SUFFICES ASSUME NEW k \in 1..3
                 PROVE  d2[B + k] = IF k = 2 THEN d[B + 2] ELSE w[B + k]
      BY <1>5 DEF Slice, HeaderCells
    <2>1. B + k \in 1..n /\ B + k # h + 3 /\ B + k # h + 2
          /\ (k = 2 => B + k # B + 3) /\ (k # 2 => B + k # B + 2)
      BY <1>2
    <2> QED BY <1>3, <1>4, <1>6, <1>8, <2>1
  <1>13. a4 = HeaderCells(w, h, d[h + 2])
    <2> SUFFICES ASSUME NEW k \in 1..3
                 PROVE  d3[h + k] = IF k = 2 THEN d[h + 2] ELSE w[h + k]
      BY <1>7 DEF Slice, HeaderCells
    <2>1. h + k \in 1..n /\ h + k # B + 2 /\ h + k # B + 3
          /\ (k = 2 => h + k # h + 3) /\ (k # 2 => h + k # h + 2)
      BY <1>2
    <2> QED BY <1>3, <1>4, <1>6, <1>8, <2>1
  <1> QED BY <1>1, <1>8, <1>9, <1>11, <1>12, <1>13 DEF n, x1, x2, x3, x4
(* A header whose own checksum is that of what it held before it was put   *)
(* in is valid.                                                            *)
LEMMA ValidHeader ==
  ASSUME NEW h \in Nat, NEW copy, IsSeq(disk'), h + 3 <= Len(disk'),
         disk'[h + 1] = <<"header", copy>>,
         disk'[h + 2] = Crc32(HeaderCells(disk', h, Zero))
  PROVE  HeaderValid(h, copy)'
  <1> DEFINE r == Slice(disk', h, 3)
  <1>1. Read(disk', h, HeaderSize) = r
    BY ReadFacts DEF HeaderSize
  <1>2. [r EXCEPT ![2] = Zero] = HeaderCells(disk', h, Zero)
    BY DEF Slice, HeaderCells
  <1>3. Crc32([Read(disk', h, HeaderSize) EXCEPT ![CrcAt + 1] = Zero])
          = Crc32(HeaderCells(disk', h, Zero))
    BY <1>1, <1>2 DEF CrcAt
  <1> QED BY <1>3 DEF HeaderValid, HeaderSize, CrcAt

(* A table of n entries reads as the entries and zeros.                    *)
LEMMA ValidTable ==
  ASSUME NEW t \in Nat, NEW n \in Nat, n <= TableLength, NEW d, IsSeq(d),
         TableAt(d, t, n)
  PROVE  Read(d, t, TableBytes) = Entries(n) \o Zeros(TableBytes - n * EntrySize)
  <1> DEFINE m == n * EntrySize
             e == Entries(n)
             z == Zeros(TableBytes - m)
  <1>1. /\ e \in Seq({<<"entry", k>> : k \in 1..m}) /\ Len(e) = m /\ m \in Nat
        /\ \A k \in 1..m : e[k] = <<"entry", k>>
    <2>1. m \in Nat
      BY LayoutAssumption
    <2> HIDE DEF m
    <2>2. e = [k \in 1..m |-> <<"entry", k>>]
      BY DEF Entries, m
    <2> QED BY <2>1, <2>2
  <1>2. m <= TableBytes /\ TableBytes \in Nat
    <2>1. EntrySize \in Nat /\ TableLength \in Nat
      BY LayoutAssumption
    <2> QED BY <2>1, Mono DEF TableBytes
  <1>3. Read(d, t, TableBytes) = Slice(d, t, TableBytes)
    <2>1. t + TableBytes <= Len(d)
      BY DEF TableAt
    <2> QED BY <1>2, <2>1, ReadFacts
  <1>4. /\ z \in Seq({Zero}) /\ Len(z) = TableBytes - m
        /\ \A k \in 1..(TableBytes - m) : z[k] = Zero
    BY <1>1, <1>2 DEF Zeros
  <1>5. \A k \in 1..TableBytes : d[t + k] = IF k <= m THEN <<"entry", k>> ELSE Zero
    BY DEF TableAt
  <1> HIDE DEF e, z, m
  <1> DEFINE S == {<<"entry", k>> : k \in 1..m} \cup {Zero}
  <1>6. e \in Seq(S) /\ z \in Seq(S)
    BY <1>1, <1>4
  <1> HIDE DEF S
  <1>7. /\ e \o z \in Seq(S) /\ Len(e \o z) = Len(e) + Len(z)
        /\ \A k \in 1..Len(e) : (e \o z)[k] = e[k]
        /\ \A k \in 1..Len(z) : (e \o z)[Len(e) + k] = z[k]
    BY <1>6, CatFacts
  <1>8. DOMAIN (e \o z) = 1..TableBytes /\ e \o z = [k \in 1..TableBytes |-> (e \o z)[k]]
    <2>1. Len(e \o z) = TableBytes
      BY <1>1, <1>2, <1>4, <1>7
    <2>2. IsSeq(e \o z)
      BY <1>7, InSeq
    <2> QED BY <2>1, <2>2, SeqFacts
  <1>9. ASSUME NEW k \in 1..TableBytes PROVE (e \o z)[k] = d[t + k]
    <2>1. CASE k <= m
      BY <1>1, <1>2, <1>5, <1>7, <2>1
    <2>2. CASE ~(k <= m)
      <3>1. k - m \in 1..Len(z) /\ Len(e) + (k - m) = k
        BY <1>1, <1>2, <1>4, <2>2
      <3>2. (e \o z)[k] = z[k - m]
        BY <1>7, <3>1
      <3> QED BY <1>2, <1>4, <1>5, <2>2, <3>1, <3>2
    <2> QED BY <2>1, <2>2
  <1>10. e \o z = Slice(d, t, TableBytes)
    BY <1>8, <1>9 DEF Slice
  <1> QED BY <1>3, <1>10 DEF e, z, m

LEMMA SameRead ==
  ASSUME NEW d, NEW w, IsSeq(d), IsSeq(w), Len(w) = Len(d), NEW t \in Nat,
         NEW n \in Nat, t + n <= Len(d), \A k \in 1..n : w[t + k] = d[t + k]
  PROVE  Read(w, t, n) = Read(d, t, n)
  <1>1. Read(w, t, n) = Slice(w, t, n) /\ Read(d, t, n) = Slice(d, t, n)
    BY ReadFacts
  <1>2. Slice(w, t, n) = Slice(d, t, n)
    BY DEF Slice
  <1> QED BY <1>1, <1>2

(* The checksums fit what the finished file holds: both tables are valid.  *)
LEMMA CrcTables ==
  ASSUME ImgTyped, TablesInv, WriteCrc, TableOfBlocks, Regular,
         Len(tlb) <= TableLength
  PROVE  (PrimaryValid /\ BackupValid)'
  <1> DEFINE B  == BlockSize
             h  == BackupHeaderAt
             n  == Len(tlb)
             pt == PrimaryTable
             st == SecondaryTable
             T  == TableBytes
  <1>1. /\ pc = "partitions" /\ disk' = WithCrcs(disk) /\ UNCHANGED laidOut
        /\ img_size \in ImageSizes /\ IsSeq(disk) /\ n \in Nat /\ UsualSize
    BY DEF WriteCrc, ImgTyped, LayoutTypeOK, Regular
  <1>2. /\ HeaderAt(disk, B, "primary") /\ HeaderAt(disk, h, "backup")
        /\ TableAt(disk, pt, n) /\ TableAt(disk, st, n)
    BY <1>1 DEF TablesInv
  <1>3. /\ st \in Nat /\ pt + T <= LbaLast(img_size)
        /\ LbaLast(img_size) + 1 + T <= st
        /\ st = LbaStart(img_size) * BlockSize
        /\ st + T = h
    BY <1>1, Order
  <1>4. /\ B \in Nat /\ B >= 3 /\ pt \in Nat /\ pt = 2 * B /\ T \in Nat
        /\ LbaLast(img_size) \in Nat /\ img_size \in Nat
    BY <1>1, Places
  <1>5. h = img_size - B /\ h \in Nat
    <2>1. h = img_size - BlockSize
      BY <1>1, LastBlock
    <2> QED BY <1>3, <1>4, <2>1
  <1>6. /\ h + 3 <= Len(disk) /\ Len(disk) \in Nat
        /\ disk[B + 1] = <<"header", "primary">> /\ disk[B + 2] = Zero
        /\ disk[h + 1] = <<"header", "backup">> /\ disk[h + 2] = Zero
    BY <1>1, <1>2, SeqFacts DEF HeaderAt
  <1> HIDE DEF h, pt, st, T
  <1>0. /\ B + 3 < h /\ B + 3 <= pt /\ pt + T <= h /\ B + 3 <= st /\ st + T <= h
        /\ B \in Nat /\ h \in Nat /\ pt \in Nat /\ st \in Nat /\ T \in Nat
    BY <1>3, <1>4, <1>5
  <1>7. /\ IsSeq(disk') /\ Len(disk') = Len(disk)
        /\ \A k \in 1..Len(disk) :
             k \notin {B + 2, B + 3, h + 2, h + 3} => disk'[k] = disk[k]
        /\ disk'[B + 3] = Crc32(Read(disk, pt, T))
        /\ disk'[h + 3] = Crc32(Read(disk, st, T))
        /\ disk'[B + 2] = Crc32(HeaderCells(disk', B, Zero))
        /\ disk'[h + 2] = Crc32(HeaderCells(disk', h, Zero))
    <2>1. h = img_size - BlockSize /\ BlockSize + 3 <= h
      BY <1>3, <1>4, <1>5
    <2>2. BlockSize \in Nat /\ BlockSize >= 3 /\ h \in Nat /\ h + 3 <= Len(disk)
          /\ IsSeq(disk)
      BY <1>1, <1>4, <1>5, <1>6
    <2>3. LET w == WithCrcs(disk)
          IN  /\ IsSeq(w) /\ Len(w) = Len(disk)
              /\ \A k \in 1..Len(disk) :
                   k \notin {BlockSize + 2, BlockSize + 3, h + 2, h + 3} => w[k] = disk[k]
              /\ w[BlockSize + 3] = Crc32(Read(disk, PrimaryTable, TableBytes))
              /\ w[h + 3] = Crc32(Read(disk, SecondaryTable, TableBytes))
              /\ w[BlockSize + 2] = Crc32(HeaderCells(w, BlockSize, disk[BlockSize + 2]))
              /\ w[h + 2] = Crc32(HeaderCells(w, h, disk[h + 2]))
      BY <2>1, <2>2, WithCrcsFacts
    <2> QED BY <1>1, <1>6, <2>3 DEF pt, st, T
  <1>8. disk'[B + 1] = <<"header", "primary">> /\ disk'[h + 1] = <<"header", "backup">>
    <2>1. /\ B + 1 \in 1..Len(disk) /\ B + 1 \notin {B + 2, B + 3, h + 2, h + 3}
          /\ h + 1 \in 1..Len(disk) /\ h + 1 \notin {B + 2, B + 3, h + 2, h + 3}
      BY <1>0, <1>6, SMTT(20)
    <2> QED BY <1>6, <1>7, <2>1
  <1>9. HeaderValid(B, "primary")'
    <2>3. B + 3 <= Len(disk')
      BY <1>0, <1>6, <1>7
    <2> QED BY <1>4, <1>7, <1>8, <2>3, ValidHeader
  <1>10. HeaderValid(h, "backup")'
    <2>3. h + 3 <= Len(disk') /\ h' = h
      BY <1>1, <1>6, <1>7 DEF h, BackupHeaderAt, laidOut
    <2>4. /\ h + 3 <= Len(disk') /\ h \in Nat /\ IsSeq(disk')
          /\ disk'[h + 1] = <<"header", "backup">>
          /\ disk'[h + 2] = Crc32(HeaderCells(disk', h, Zero))
      BY <1>5, <1>7, <1>8, <2>3
    <2> QED BY <2>3, <2>4, ValidHeader DEF HeaderValid
  <1>11. /\ Read(disk', pt, T) = Read(disk, pt, T)
         /\ Read(disk', st, T) = Read(disk, st, T)
    <2>1. ASSUME NEW k \in 1..T PROVE disk'[pt + k] = disk[pt + k]
      <3>0. pt + k > B + 3 /\ pt + k <= h /\ pt + k \in Int
        BY <1>0
      <3>1. pt + k \in 1..Len(disk) /\ pt + k \notin {B + 2, B + 3, h + 2, h + 3}
        BY <1>0, <1>6, <3>0, SMTT(20)
      <3> QED BY <1>7, <3>1
    <2>2. ASSUME NEW k \in 1..T PROVE disk'[st + k] = disk[st + k]
      <3>0. st + k > B + 3 /\ st + k <= h /\ st + k \in Int
        BY <1>0
      <3>1. st + k \in 1..Len(disk) /\ st + k \notin {B + 2, B + 3, h + 2, h + 3}
        BY <1>0, <1>6, <3>0, SMTT(20)
      <3> QED BY <1>7, <3>1
    <2>3. pt + T <= Len(disk) /\ st + T <= Len(disk)
      BY <1>0, <1>6
    <2>6. /\ IsSeq(disk) /\ IsSeq(disk') /\ Len(disk') = Len(disk)
          /\ pt \in Nat /\ st \in Nat /\ T \in Nat
      BY <1>0, <1>1, <1>7
    <2>4. Read(disk', pt, T) = Read(disk, pt, T)
      BY <2>1, <2>3, <2>6, SameRead, ZenonT(30)
    <2>5. Read(disk', st, T) = Read(disk, st, T)
      BY <2>2, <2>3, <2>6, SameRead, ZenonT(30)
    <2> QED BY <2>4, <2>5
  <1>12. /\ Read(disk, pt, T) = Entries(n) \o Zeros(TableBytes - n * EntrySize)
         /\ Read(disk, st, T) = Entries(n) \o Zeros(TableBytes - n * EntrySize)
    BY <1>1, <1>2, <1>3, <1>4, ValidTable DEF T
  <1>13. tlb' = tlb /\ img_size' = img_size
    BY <1>1 DEF laidOut
  <1>14. TableValid(B, pt)'
    <2>1. B + TableCrcAt + 1 = B + 3
      BY <1>4 DEF TableCrcAt
    <2>2. pt' = pt /\ T = TableBytes
      BY DEF pt, T, PrimaryTable
    <2>3. /\ Read(disk', pt, TableBytes) = Entries(n) \o Zeros(TableBytes - n * EntrySize)
          /\ disk'[B + TableCrcAt + 1] = Crc32(Read(disk', pt, TableBytes))
      BY <1>7, <1>11, <1>12, <2>1, <2>2
    <2> QED BY <1>13, <2>2, <2>3 DEF TableValid
  <1>15. TableValid(BackupHeaderAt, LbaStart(img_size) * BlockSize)'
    <2>1. BackupHeaderAt' = h /\ (LbaStart(img_size) * BlockSize)' = st
      BY <1>3, <1>13 DEF h, BackupHeaderAt
    <2>2. h + TableCrcAt + 1 = h + 3 /\ T = TableBytes
      BY <1>5 DEF TableCrcAt, T
    <2>3. /\ Read(disk', st, TableBytes) = Entries(n) \o Zeros(TableBytes - n * EntrySize)
          /\ disk'[h + TableCrcAt + 1] = Crc32(Read(disk', st, TableBytes))
      BY <1>7, <1>11, <1>12, <2>2
    <2> QED BY <1>13, <2>1, <2>3 DEF TableValid
  <1> QED BY <1>9, <1>10, <1>13, <1>14, <1>15
          DEF PrimaryValid, BackupValid, h, pt
(* Wherever they go, checksums leave a file.                               *)
LEMMA WithCrcsSeq ==
  ASSUME NEW d, IsSeq(d), img_size \in ImageSizes
  PROVE  IsSeq(WithCrcs(d))
  <1>1. ASSUME NEW c, IsSeq(c), NEW off \in Nat, NEW x
        PROVE  IsSeq(Write(c, off, <<x>>))
    <2>1. <<x>> \in Seq({x})
      OBVIOUS
    <2>2. IsSeq(<<x>>)
      BY <2>1, InSeq
    <2> QED BY <1>1, <2>2, WriteGrows
  <1> DEFINE tail == img_size - BlockSize
             d1 == Write(d, BlockSize + 2, <<Crc32(Read(d, PrimaryTable, TableBytes))>>)
             d2 == Write(d1, tail + 2, <<Crc32(Read(d, SecondaryTable, TableBytes))>>)
             d3 == Write(d2, BlockSize + 1, <<Crc32(Read(d2, BlockSize, 3))>>)
             w  == Write(d3, tail + 1, <<Crc32(Read(d3, tail, 3))>>)
  <1>2. WithCrcs(d) = w
    BY DEF WithCrcs, TableCrcAt, CrcAt, HeaderSize
  <1>3. BlockSize + 1 \in Nat /\ BlockSize + 2 \in Nat /\ tail + 1 \in Nat /\ tail + 2 \in Nat
    <2>1. BlockSize \in Nat /\ tail \in Nat
      BY Places
    <2> QED BY <2>1
  <1> HIDE DEF tail
  <1>4. IsSeq(d1)
    BY <1>1, <1>3
  <1> HIDE DEF d1
  <1>5. IsSeq(d2)
    BY <1>1, <1>3, <1>4
  <1> HIDE DEF d2
  <1>6. IsSeq(d3)
    BY <1>1, <1>3, <1>5
  <1> HIDE DEF d3
  <1>7. IsSeq(w)
    BY <1>1, <1>3, <1>6
  <1> QED BY <1>2, <1>7

(* A checksum cell in front of a binary or behind it leaves the binary.    *)
LEMMA PokeKeepsData ==
  ASSUME NEW d, IsSeq(d), NEW off \in Nat, NEW x, NEW at \in Nat, NEW l,
         NEW n \in Nat, DataAt(d, at, l, n), off + 1 <= at \/ at + n <= off
  PROVE  DataAt(Write(d, off, <<x>>), at, l, n) /\ IsSeq(Write(d, off, <<x>>))
  <1> DEFINE c == <<x>>
  <1>1. c \in Seq({x}) /\ Len(c) = 1
    OBVIOUS
  <1>2. IsSeq(c) /\ off + Len(c) = off + 1
    BY <1>1, InSeq
  <1> HIDE DEF c
  <1>3. DataAt(Write(d, off, c), at, l, n) /\ IsSeq(Write(d, off, c))
    BY <1>2, KeepsData, WriteGrows
  <1> QED BY <1>3 DEF c

LEMMA WithCrcsKeepsData ==
  ASSUME NEW d, IsSeq(d), img_size \in ImageSizes, NEW at \in Nat, NEW l,
         NEW n \in Nat, DataAt(d, at, l, n),
         2 * BlockSize <= at, at + n <= img_size - BlockSize
  PROVE  DataAt(WithCrcs(d), at, l, n)
  <1> DEFINE tail == img_size - BlockSize
             d1 == Write(d, BlockSize + 2, <<Crc32(Read(d, PrimaryTable, TableBytes))>>)
             d2 == Write(d1, tail + 2, <<Crc32(Read(d, SecondaryTable, TableBytes))>>)
             d3 == Write(d2, BlockSize + 1, <<Crc32(Read(d2, BlockSize, 3))>>)
             w  == Write(d3, tail + 1, <<Crc32(Read(d3, tail, 3))>>)
  <1>1. WithCrcs(d) = w
    BY DEF WithCrcs, TableCrcAt, CrcAt, HeaderSize
  <1>2. /\ BlockSize + 1 \in Nat /\ BlockSize + 2 \in Nat
        /\ tail + 1 \in Nat /\ tail + 2 \in Nat
        /\ (BlockSize + 1) + 1 <= at /\ (BlockSize + 2) + 1 <= at
        /\ at + n <= tail + 1 /\ at + n <= tail + 2
    <2>1. BlockSize \in Nat /\ BlockSize >= 3 /\ tail \in Nat
      BY Places
    <2> QED BY <2>1
  <1> HIDE DEF tail
  <1>3. IsSeq(d1) /\ DataAt(d1, at, l, n)
    BY <1>2, PokeKeepsData
  <1> HIDE DEF d1
  <1>4. IsSeq(d2) /\ DataAt(d2, at, l, n)
    BY <1>2, <1>3, PokeKeepsData
  <1> HIDE DEF d2
  <1>5. IsSeq(d3) /\ DataAt(d3, at, l, n)
    BY <1>2, <1>4, PokeKeepsData
  <1> HIDE DEF d3
  <1>6. DataAt(w, at, l, n)
    BY <1>2, <1>5, PokeKeepsData
  <1> QED BY <1>1, <1>6

(* The cells of a binary are what a reader of the partition gets.          *)
LEMMA DataReads ==
  ASSUME NEW d, IsSeq(d), NEW at \in Nat, NEW l, NEW n \in Nat, DataAt(d, at, l, n)
  PROVE  Read(d, at, n) = Data(l, n)
  <1>1. n > 0 => at + n <= Len(d)
    BY DEF DataAt
  <1>2. Read(d, at, n) = Slice(d, at, n)
    BY <1>1, ReadFacts
  <1>3. Slice(d, at, n) = Data(l, n)
    BY DEF Slice, Data, DataAt
  <1> QED BY <1>2, <1>3

LEMMA CrcStep ==
  ASSUME ImgInv, WriteCrc
  PROVE  ImgInv'
  <1>1. /\ pc = "partitions" /\ pc' = "written" /\ pos = Len(tlb)
        /\ disk' = WithCrcs(disk) /\ UNCHANGED <<laidOut, pos>>
    BY DEF WriteCrc
  <1>2. /\ ImgTyped /\ img_size \in ImageSizes /\ IsSeq(disk) /\ image = "new"
        /\ pos \in 0..Len(tlb) /\ tlb \in Seq(Entry)
    BY <1>1 DEF ImgInv, ImgTyped, LayoutTypeOK, ImagePlaces
  <1>3. IsSeq(disk')
    BY <1>1, <1>2, WithCrcsSeq
  <1>4. ImgTyped' /\ LayoutInv'
    <2>1. pc \in ImagePlaces /\ pc' \in (ImagePlaces \ {"headers"}) \cup {"failed"}
          /\ pc' \notin {"table", "backup"}
      BY <1>1 DEF ImagePlaces
    <2>2. pos' \in 0..Len(tlb) /\ UNCHANGED laidOut
      BY <1>1, <1>2
    <2> QED BY <1>2, <1>3, <2>1, <2>2, WritingTyped DEF ImgInv
  <1>5. img_size' = img_size /\ tlb' = tlb /\ binaries' = binaries
    BY <1>1 DEF laidOut
  <1>6. (Regular' => Regular) /\ (Disjoint' => Disjoint)
    BY <1>5 DEF Regular, UsualSize, InUsable, AllFit, MarksFit, Fits, Carries,
                HasOption, Flashed, Disjoint
  <1>7. TableOfBlocks => TablesIntact'
    <2> SUFFICES ASSUME TableOfBlocks, Regular', Len(tlb)' <= TableLength
                 PROVE  (PrimaryValid /\ BackupValid)'
      BY DEF TablesIntact, Regular
    <2> QED BY <1>2, <1>5, <1>6, CrcTables DEF ImgInv
  <1>8. BinariesIntact'
    <2> SUFFICES ASSUME Regular, Disjoint, NEW i \in DOMAIN tlb, Carries(tlb[i])
                 PROVE  Read(disk', tlb[i].begin * BlockSize, binaries[tlb[i].label])
                          = Data(tlb[i].label, binaries[tlb[i].label])
      BY <1>5, <1>6 DEF BinariesIntact, Regular, Carries, HasOption, Flashed
    <2> DEFINE l == tlb[i].label
               n == binaries[l]
               at == tlb[i].begin * BlockSize
    <2>1. i \in 1..Len(tlb) /\ HasOption(tlb[i]) /\ Flashed(tlb[i])
      BY <1>2 DEF Carries
    <2>2. n \in Nat /\ Len(CellsOf(tlb[i])) = n
      BY <1>2, <2>1, CellsFacts
    <2>3. at \in Nat
      BY <1>2, <2>1, EntryPlace
    <2>4. DataAt(disk, at, l, n)
      BY <1>1, <1>2, <2>1 DEF ImgInv, BinariesInv
    <2>5. 2 * BlockSize <= at /\ at + n <= img_size - BlockSize
      <3>1. /\ at + n <= EndOf(tlb[i]) * BlockSize
            /\ LbaFirst * BlockSize <= at
            /\ EndOf(tlb[i]) * BlockSize <= (LbaLast(img_size) + 1) * BlockSize
            /\ EndOf(tlb[i]) * BlockSize \in Int
        BY <1>2, <2>1, <2>2, Room
      <3>2. /\ 2 * BlockSize <= LbaFirst * BlockSize
            /\ (LbaLast(img_size) + 1) * BlockSize <= BackupHeaderAt
            /\ LbaFirst * BlockSize \in Int
            /\ (LbaLast(img_size) + 1) * BlockSize \in Int
        BY <1>2, Edges
      <3>3. BackupHeaderAt = img_size - BlockSize
        BY <1>2, LastBlock DEF Regular
      <3>4. BlockSize \in Nat /\ img_size \in Nat
        BY <1>2, Places
      <3> HIDE DEF at, n, l
      <3> QED BY <2>2, <2>3, <3>1, <3>2, <3>3, <3>4
    <2> HIDE DEF at, n, l
    <2>6. DataAt(disk', at, l, n)
      BY <1>1, <1>2, <2>2, <2>3, <2>4, <2>5, WithCrcsKeepsData
    <2>7. Read(disk', at, n) = Data(l, n)
      BY <1>3, <2>2, <2>3, <2>6, DataReads
    <2> QED BY <2>7 DEF at, n, l
  <1> QED BY <1>1, <1>4, <1>7, <1>8
          DEF ImgInv, NoCrcYet, TablesInv, BinariesInv, LostImageExplained
-----------------------------------------------------------------------------
(* The end.                                                                *)

(* What stays the same when only pc changes.                               *)
LEMMA SameContents ==
  ASSUME UNCHANGED <<cfg, img_size, tlb, start_lba, part, slot, pos, last,
                     remaining, new_begin, binaries, image, disk>>
  PROVE  /\ PrimaryValid' = PrimaryValid /\ BackupValid' = BackupValid
         /\ Regular' = Regular /\ Disjoint' = Disjoint
         /\ \A e : Carries(e)' = Carries(e)
  <1>1. PrimaryValid' = PrimaryValid
    BY DEF PrimaryValid, HeaderValid, TableValid
  <1>2. BackupValid' = BackupValid
    BY DEF BackupValid, HeaderValid, TableValid, BackupHeaderAt
  <1>3. Regular' = Regular /\ Disjoint' = Disjoint /\ \A e : Carries(e)' = Carries(e)
    BY DEF Regular, UsualSize, InUsable, AllFit, MarksFit, Fits, Carries,
           HasOption, Flashed, Disjoint
  <1> QED BY <1>1, <1>2, <1>3

LEMMA ReadBackStep ==
  ASSUME ImgInv, ReadBack
  PROVE  ImgInv'
  <1>1. /\ pc = "written" /\ pc' = "done" /\ UNCHANGED laidOut
        /\ UNCHANGED <<cfg, img_size, tlb, start_lba, part, slot, pos, last,
                       remaining, new_begin, binaries, image, disk>>
    BY DEF ReadBack, laidOut
  <1>2. ImgTyped' /\ LayoutInv'
    <2>1. pc \in ImagePlaces /\ pc' \in (ImagePlaces \ {"headers"}) \cup {"failed"}
          /\ pc' \notin {"table", "backup"}
      BY <1>1 DEF ImagePlaces
    <2>2. ImgTyped /\ pos' \in 0..Len(tlb) /\ IsSeq(disk')
      BY <1>1 DEF ImgInv, ImgTyped, LayoutTypeOK
    <2> QED BY <1>1, <2>1, <2>2, WritingTyped DEF ImgInv
  <1>3. TableOfBlocks => TablesIntact'
    BY <1>1, SameContents DEF ImgInv, TablesIntact, Regular, Written
  <1>4. BinariesIntact'
    BY <1>1, SameContents DEF ImgInv, BinariesIntact, Regular, Written
  <1> QED BY <1>1, <1>2, <1>3, <1>4
          DEF ImgInv, NoCrcYet, TablesInv, BinariesInv, LostImageExplained

LEMMA ImgStutter ==
  ASSUME ImgInv, UNCHANGED imageVars
  PROVE  ImgInv'
  <1>1. /\ pc' = pc /\ UNCHANGED layoutVars
        /\ UNCHANGED <<cfg, img_size, tlb, start_lba, part, slot, pos, last,
                       remaining, new_begin, binaries, image, disk>>
    BY DEF imageVars, layoutVars
  <1>2. ImgTyped'
    BY <1>1 DEF ImgInv, ImgTyped, LayoutTypeOK, BeginsNat, InputsOk
  <1>3. LayoutInv'
    BY <1>1, InvStep DEF ImgInv, LayoutInv, SharedOut, Disjoint, InUsable
  <1>4. NoCrcYet'
    BY <1>1 DEF ImgInv, NoCrcYet, NoCrc
  <1>5. TableOfBlocks => TablesIntact'
    BY <1>1, SameContents DEF ImgInv, TablesIntact, Regular, Written
  <1>6. BinariesIntact'
    BY <1>1, SameContents DEF ImgInv, BinariesIntact, Regular, Written
  <1>7. TablesInv'
    BY <1>1, SameContents DEF ImgInv, TablesInv, SecondaryTable, BackupHeaderAt
  <1>8. BinariesInv'
    BY <1>1, SameContents DEF ImgInv, BinariesInv
  <1>9. LostImageExplained'
    BY <1>1 DEF ImgInv, LostImageExplained, HasOption, Fits, Carries, Flashed
  <1> QED BY <1>2, <1>3, <1>4, <1>5, <1>6, <1>7, <1>8, <1>9 DEF ImgInv
-----------------------------------------------------------------------------
(* The theorems.                                                           *)

LEMMA ImgStep == ImgInv /\ [ImageNext]_imageVars => ImgInv'
  BY LayOutStep, StartStep, RejectStep, HeadersStep, TableStep, UnknownTypeStep,
     PartitionStep, PartitionFailsStep, CrcStep, ReadBackStep, ImgStutter
     DEF ImageNext

(* The inductive invariant: what layout, tables and binaries are at every  *)
(* step of a run.                                                          *)
THEOREM ImageInvariant == ImageSpec => []ImgInv
  BY ImgInitInv, ImgStep, PTL DEF ImageSpec

(* Every step keeps the types, and there is nothing on the disk before the *)
(* previous image is gone.                                                 *)
THEOREM ImageTyping == ImageSpec => []ImageTypeOK
  <1>1. ImgInv => ImageTypeOK
    <2> SUFFICES ASSUME ImgInv PROVE ImageTypeOK
      OBVIOUS
    <2>1. DOMAIN disk = 1..Len(disk)
      BY SeqFacts DEF ImgInv, ImgTyped
    <2> QED BY <2>1 DEF ImgInv, ImgTyped, ImageTypeOK, LayoutPlaces, ImagePlaces
  <1> QED BY <1>1, ImageInvariant, PTL

(* Both partition tables of a finished image are valid, when the literal   *)
(* 32 is the size of the table in blocks.                                  *)
THEOREM TablesSurvive ==
  ASSUME TableOfBlocks
  PROVE  ImageSpec => []TablesIntact
  <1>1. ImgInv => TablesIntact
    BY DEF ImgInv
  <1> QED BY <1>1, ImageInvariant, PTL

(* Every binary is in the finished image, in the partition it is for.      *)
THEOREM BinariesSurvive == ImageSpec => []BinariesIntact
  <1>1. ImgInv => BinariesIntact
    BY DEF ImgInv
  <1> QED BY <1>1, ImageInvariant, PTL

(* What GptLayout guarantees about a laid list holds in the image: with a  *)
(* part of length -1, or without pinned parts, no two partitions overlap,  *)
(* and when the first one begins in the first MiB all lie between the      *)
(* tables, as TablesIntact and BinariesIntact ask.                         *)
THEOREM LayoutIsKept == ImageSpec => [](image = "new" => SharedOut)
  <1>1. ImgInv => (image = "new" => SharedOut)
    BY DEF ImgInv, LayoutInv
  <1> QED BY <1>1, ImageInvariant, PTL

(* A run that stops before the checksums leaves no valid image.            *)
THEOREM NoHalfImage == ImageSpec => []FailedIsInvalid
  <1>1. ImgInv => FailedIsInvalid
    <2> SUFFICES ASSUME ImgInv, pc = "failed", PrimaryValid PROVE FALSE
      BY DEF FailedIsInvalid
    <2>1. NoCrc /\ IsSeq(disk) /\ BlockSize \in Nat
      BY LayoutAssumption DEF ImgInv, ImgTyped, NoCrcYet
    <2>2. BlockSize + 3 <= Len(disk) /\ \E a : disk[BlockSize + 1 + 1] = Crc32(a)
      BY DEF PrimaryValid, HeaderValid, HeaderSize, CrcAt
    <2>3. BlockSize + 1 + 1 \in DOMAIN disk
      BY <2>1, <2>2, SeqFacts
    <2>4. disk[BlockSize + 1 + 1][1] # "crc"
      BY <2>1, <2>3 DEF NoCrc
    <2> QED BY <2>2, <2>4 DEF Crc32
  <1> QED BY <1>1, ImageInvariant, PTL

(* A previous image is lost only to an entry the program looks at too late.*)
THEOREM LossExplained == ImageSpec => []LostImageExplained
  <1>1. ImgInv => LostImageExplained
    BY DEF ImgInv
  <1> QED BY <1>1, ImageInvariant, PTL
=============================================================================
