------------------------------- MODULE Container -------------------------------
(***************************************************************************)
(* containertool/GenContainer.py: a container is a file with a header, one *)
(* entry for each component, and the components in regions of their own.   *)
(* "create" builds one from a layout, "replace" puts another component     *)
(* into an existing one, "extract" writes the components and a layout from *)
(* which "create" can build the container again.                           *)
(*                                                                         *)
(* Files are sequences of cells (a cell stands for four bytes, the sizes   *)
(* of the structures are constants). A structure is its contents in one    *)
(* cell and as many further cells as it is long.                           *)
(***************************************************************************)
EXTENDS Integers, Sequences, SequencesExt

CONSTANTS
  Layouts,           \* the layouts a run may be given
  Contents,          \* the files "replace" may be given
  Algorithms,        \* the compressions "replace" may be asked for
  DefaultAlignment,  \* 0x1000
  HdrSize, EntrySize, LzSize, HashSize,   \* sizeof the structures
  Pad,               \* components are padded to four bytes
  OffsetLimit        \* 2^16: data_offset is a c_uint16

Mono == "_SG_"       \* the component that signs all the others

Keys == {"k2048", "k3072"}
NoKey == ""
KeyType(key) == IF key = "k2048" THEN "RSA2048" ELSE "RSA3072"
IsRsa(auth) == auth \in {"RSA2048", "RSA3072"}
AuthTypes == {"NONE", "SHA2_256", "SHA2_384", "RSA2048", "RSA3072"}

(* A signature with its key, of the two RSA sizes.                         *)
AuthSize(auth) == IF auth = "RSA2048" THEN 2 * HashSize
                  ELSE IF auth = "RSA3072" THEN 3 * HashSize ELSE 0

AlignUp(n, a) == ((n + a - 1) \div a) * a

VARIABLES
  pc,           \* what "create" does next; "written" between two commands
  layout,       \* the layout: its header row and its component rows
  alignment,    \* header.alignment
  comps,        \* header.comp_entry
  header_size,  \* get_header_size, with the entries so far
  index,        \* the cursor of the loops
  offset, base_offset,  \* those of create; base_offset -1 for None
  header,       \* what was written last: header and components
  file,         \* the container file, <<>> before there is one
  origin        \* the layout and the container this layout was extracted from

containerVars == <<pc, layout, alignment, comps, header_size, index, offset,
                   base_offset, header, file, origin>>

Rows == layout.rows
IsMono == Rows # <<>> /\ Rows[Len(Rows)].name = Mono

(* A row without an alignment takes that of the header.                    *)
RowAlignment(r) == IF r.alignment = 0 THEN alignment ELSE r.alignment

-----------------------------------------------------------------------------
(* Cells.                                                                  *)

FF == <<"ff">>
Fill(n) == [k \in 1..n |-> FF]
Struct(first, size) == [k \in 1..size |-> IF k = 1 THEN first ELSE <<"more">>]

(* A slice of a bytearray: short when it reaches past the end.             *)
Slice(f, from, to) == SubSeq(f, from + 1, IF to <= Len(f) THEN to ELSE Len(f))

Padding(n) == Fill(AlignUp(n, Pad) - n)

(* compress puts a header before the data; Dummy leaves it as it is, the   *)
(* external tools make it shorter and are undone by decompress.            *)
Squeezed(alg, content) ==
  IF alg = "Dummy" \/ content = <<>> THEN content
  ELSE Struct(<<"squeezed", content>>, (Len(content) + 1) \div 2)

LzFile(alg, content) ==
  LET data == Squeezed(alg, content)
  IN  Struct(<<"lz", alg, Len(data)>>, LzSize) \o data

IsLz(f) == Len(f) >= LzSize /\ f[1][1] = "lz"
CompressedLen(f) == IF IsLz(f) THEN f[1][3] ELSE 0

Payload(f) == Slice(f, LzSize, LzSize + CompressedLen(f))
Decompress(f) ==
  IF f[1][2] = "Dummy" \/ Payload(f) = <<>> THEN Payload(f) ELSE Payload(f)[1][2]

(* The external tool refuses what no tool has made.                        *)
Decompressible(f) ==
  f[1][2] # "Dummy" /\ Payload(f) # <<>> => Payload(f)[1][1] = "squeezed"

(* calculate_auth_data; a key of another type overrides the type.          *)
HashData(f, auth, key) ==
  IF auth = "NONE" THEN <<>>
  ELSE Struct(IF IsRsa(auth) THEN <<"keyhash", key>> ELSE <<"hash", auth, f>>,
              HashSize)
Signature(f, auth, key) ==
  IF IsRsa(auth) THEN Struct(<<"sig", key, f>>, AuthSize(KeyType(key))) ELSE <<>>

(* What the files and the layouts of a run look like. The cells that stand *)
(* for a structure have its fields, also in what was compressed.           *)
LzCells(f) ==
  /\ f \in Seq({f[k] : k \in DOMAIN f})
  /\ \A k \in DOMAIN f : f[k][1] = "lz" => f[k][3] \in Nat
IsFile(f) ==
  LzCells(f) /\ \A k \in DOMAIN f : f[k][1] = "squeezed" => LzCells(f[k][2])

IsRow(r) ==
  /\ r.auth \in AuthTypes /\ r.key \in Keys \cup {NoKey}
  /\ r.alignment \in Nat /\ r.size \in Nat
  /\ r.content # <<>> => r.content = <<r.content[1]>> /\ IsFile(r.content[1])

IsLayout(l) ==
  /\ l.header.auth \in AuthTypes /\ l.header.key \in Keys \cup {NoKey}
  /\ l.header.alignment \in Nat
  /\ l.rows \in Seq({l.rows[i] : i \in DOMAIN l.rows})
  /\ \A i \in DOMAIN l.rows : IsRow(l.rows[i])

(* The structures and the hashes are as long as the padding demands.       *)
ASSUME ContainerAssumption ==
  /\ {DefaultAlignment, HdrSize, EntrySize, LzSize, HashSize, Pad, OffsetLimit}
       \subseteq Nat \ {0}
  /\ LzSize % Pad = 0 /\ HashSize % Pad = 0
  /\ \A l \in Layouts : IsLayout(l)
  /\ \A f \in Contents : IsFile(f)

-----------------------------------------------------------------------------
(* The container as the program holds it in memory and writes it.          *)

EntryCells(c) ==
  Struct(<<"entry", c.name, c.offset, c.size, c.reserved, c.alignment, c.auth,
           Len(c.hash)>>, EntrySize) \o c.hash

HeaderCells(h) ==
  Struct(<<"header", h.auth, h.mono, h.data_offset, h.data_size, Len(h.comps)>>,
         HdrSize) \o FlattenSeq([i \in DOMAIN h.comps |-> EntryCells(h.comps[i])])

Body(c) == c.data \o Padding(Len(c.data)) \o c.auth_data

(* Wrong variant of FitsRegions: nothing is compared.                      *)
FitsAnyway(h) == TRUE

FitsRegions(h) == \A i \in DOMAIN h.comps : Len(Body(h.comps[i])) <= h.comps[i].size

FillTo(cells, n) == cells \o Fill(IF n > Len(cells) THEN n - Len(cells) ELSE 0)

(* Wrong variant of GetData: the gap is filled as if offsets counted from  *)
(* the end of the header.                                                  *)
GetDataFromHeader(h) ==
  LET head == HeaderCells(h)
      place(cells, c) ==
        FillTo(cells, c.offset + Len(head) + Len(h.auth_data)) \o Body(c)
  IN  FillTo(FoldLeft(place, head \o Padding(Len(head)) \o h.auth_data, h.comps),
             h.data_offset + h.data_size)

(* Components are appended one after the other; a gap in front of one is   *)
(* filled, too little room is not noticed.                                 *)
GetData(h) ==
  LET head == HeaderCells(h)
      place(cells, c) == FillTo(cells, c.offset + h.data_offset) \o Body(c)
  IN  FillTo(FoldLeft(place, head \o Padding(Len(head)) \o h.auth_data, h.comps),
             h.data_offset + h.data_size)

(* CONTAINER_HDR of a file: the entries lie one behind the other, each as  *)
(* long as its hash makes it. The alignment is not in the file: that of    *)
(* the first component is taken.                                           *)
Parse(f) ==
  LET n == f[1][6]
      at[i \in 1..(n + 1)] ==
        IF i = 1 THEN HdrSize
        ELSE at[i - 1] + EntrySize + f[at[i - 1] + 1][8]
      component(i) ==
        LET e     == f[at[i] + 1]
            start == e[3] + f[1][4]
            len   == LzSize + CompressedLen(Slice(f, start, start + LzSize))
            auth  == AlignUp(start + len, Pad)
        IN  [name |-> e[2], offset |-> e[3], size |-> e[4], reserved |-> e[5],
             alignment |-> e[6], auth |-> e[7],
             hash |-> Slice(f, at[i] + EntrySize, at[i] + EntrySize + e[8]),
             data |-> Slice(f, start, start + len),
             auth_data |-> Slice(f, auth, auth + AuthSize(e[7]))]
      auth_offset == AlignUp(at[n + 1], Pad)
  IN  [auth |-> f[1][2], mono |-> f[1][3], data_offset |-> f[1][4],
       data_size |-> f[1][5],
       alignment |-> IF n = 0 THEN DefaultAlignment ELSE f[at[1] + 1][6],
       auth_data |-> Slice(f, auth_offset, auth_offset + AuthSize(f[1][2])),
       comps |-> [i \in 1..n |-> component(i)]]

-----------------------------------------------------------------------------
(* create: one entry for each row, then a place for each entry, then the   *)
(* signature over everything if there is one, then the file.               *)

(* adjust_auth_type: the key file, if there is one, settles the type; with *)
(* a type that does not sign there is no answer, and a KeyError. A type    *)
(* that signs without a key fails at the first signature over the header:  *)
(* nothing is written before, so it may as well fail at once.              *)
HeaderAuth == IF layout.header.key = NoKey THEN layout.header.auth
              ELSE KeyType(layout.header.key)
HeaderFails == IsRsa(layout.header.auth) # (layout.header.key # NoKey)

StartCreate(l) ==
  /\ layout' = l
  /\ alignment' = IF l.header.alignment = 0 THEN DefaultAlignment
                  ELSE l.header.alignment
  /\ header_size' = HdrSize + AuthSize(HeaderAuth')
  /\ pc' = "build" /\ index' = 1 /\ comps' = <<>>
  /\ offset' = 0 /\ base_offset' = -1

Init ==
  /\ layout \in Layouts
  /\ alignment = IF layout.header.alignment = 0 THEN DefaultAlignment
                 ELSE layout.header.alignment
  /\ header_size = HdrSize + AuthSize(HeaderAuth)
  /\ pc = "build" /\ index = 1 /\ comps = <<>>
  /\ offset = 0 /\ base_offset = -1
  /\ header = <<>> /\ file = <<>> /\ origin = <<>>

Fail ==
  /\ pc' = "failed"
  /\ UNCHANGED <<layout, alignment, comps, header_size, index, offset,
                 base_offset, header, file, origin>>

(* The reserved entry closes the list; a signature needs a key.            *)
RowFails(i) ==
  \/ \E j \in 1..(i - 1) : Rows[j].name = Mono /\ Rows[j].content = <<>>
  \/ IsRsa(Rows[i].auth) /\ Rows[i].key = NoKey

(* A row that names no file has an empty component, which for _SG_ is      *)
(* marked reserved.                                                        *)
Entry(r) ==
  LET reserved == r.name = Mono /\ r.content = <<>>
      data     == LzFile(IF reserved THEN "Dummy" ELSE r.alg,
                         IF r.content = <<>> THEN <<>> ELSE r.content[1])
      sig      == Signature(data, r.auth, r.key)
      least    == AlignUp(Len(data), Pad) + Len(sig)
  IN  [name |-> r.name, offset |-> 0, reserved |-> reserved, auth |-> r.auth,
       alignment |-> RowAlignment(r),
       size |-> IF r.size # 0 THEN r.size
                ELSE AlignUp(least, IF IsMono THEN alignment ELSE RowAlignment(r)),
       data |-> data, hash |-> HashData(data, r.auth, r.key), auth_data |-> sig]

BuildComponent ==
  /\ pc = "build" /\ ~HeaderFails
  /\ index <= Len(Rows) /\ ~RowFails(index)
  /\ LET c == Entry(Rows[index])
     IN  /\ comps' = Append(comps, c)
         /\ header_size' = header_size + EntrySize + Len(c.hash)
  /\ index' = index + 1
  /\ UNCHANGED <<pc, layout, alignment, offset, base_offset, header, file, origin>>

DuplicateNames ==
  \E i, j \in DOMAIN comps : i # j /\ comps[i].name = comps[j].name

BuildFails ==
  /\ pc = "build"
  /\ \/ HeaderFails
     \/ index <= Len(Rows) /\ RowFails(index)
     \/ index > Len(Rows) /\ DuplicateNames
  /\ Fail

Built ==
  /\ pc = "build" /\ ~HeaderFails
  /\ index > Len(Rows) /\ ~DuplicateNames
  /\ pc' = "place" /\ index' = 1
  /\ offset' = header_size
  /\ UNCHANGED <<layout, alignment, comps, header_size, base_offset, header,
                 file, origin>>

(* Wrong variant of PlaceAt: there is always room in front.                *)
PlaceAtBefore(c) ==
  LET next == AlignUp(offset, c.alignment)
  IN  IF IsMono THEN next - LzSize ELSE next

(* Under a signature over everything the header of the component goes in   *)
(* front of the aligned place, if there is room for it.                    *)
PlaceAt(c) ==
  LET next == AlignUp(offset, c.alignment)
  IN  IF IsMono /\ next - offset >= LzSize THEN next - LzSize ELSE next

(* Wrong variant of PlaceComponent: offsets count from the unaligned end   *)
(* of the header.                                                          *)
PlaceComponentUnbased ==
  /\ pc = "place" /\ index <= Len(comps)
  /\ LET c    == comps[index]
         at   == PlaceAt(c)
         base == IF base_offset = -1 THEN offset ELSE base_offset
     IN  /\ comps' = [comps EXCEPT ![index].offset = at - base]
         /\ base_offset' = base
         /\ offset' = at + c.size
  /\ index' = index + 1
  /\ UNCHANGED <<pc, layout, alignment, header_size, header, file, origin>>

PlaceComponent ==
  /\ pc = "place" /\ index <= Len(comps)
  /\ LET c    == comps[index]
         at   == PlaceAt(c)
         base == IF base_offset = -1 THEN at ELSE base_offset
     IN  /\ comps' = [comps EXCEPT ![index].offset = at - base]
         /\ base_offset' = base
         /\ offset' = at + c.size
  /\ index' = index + 1
  /\ UNCHANGED <<pc, layout, alignment, header_size, header, file, origin>>

Placed ==
  /\ pc = "place" /\ index > Len(comps)
  /\ pc' = IF IsMono THEN "sign" ELSE "write"
  /\ UNCHANGED <<layout, alignment, comps, header_size, index, offset,
                 base_offset, header, file, origin>>

(* Wrong variant of Adjusted: data_offset has any width.                   *)
AdjustedWide(cs) ==
  LET end  == cs[Len(cs)].offset + cs[Len(cs)].size
      bare == [auth |-> HeaderAuth, mono |-> IsMono, comps |-> cs,
               data_offset |-> AlignUp(header_size, alignment),
               data_size |-> IF cs = <<>> THEN 0 ELSE AlignUp(end, alignment)]
      sig  == Signature(HeaderCells(bare), HeaderAuth, layout.header.key)
  IN  [auth |-> bare.auth, mono |-> bare.mono, comps |-> cs,
       data_offset |-> bare.data_offset, data_size |-> bare.data_size,
       auth_data |-> sig]

(* adjust_header, with the entries cs.                                     *)
Adjusted(cs) ==
  LET end  == cs[Len(cs)].offset + cs[Len(cs)].size
      bare == [auth |-> HeaderAuth, mono |-> IsMono, comps |-> cs,
               data_offset |-> AlignUp(header_size, alignment) % OffsetLimit,
               data_size |-> IF cs = <<>> THEN 0 ELSE AlignUp(end, alignment)]
      sig  == Signature(HeaderCells(bare), HeaderAuth, layout.header.key)
  IN  [auth |-> bare.auth, mono |-> bare.mono, comps |-> cs,
       data_offset |-> bare.data_offset, data_size |-> bare.data_size,
       auth_data |-> sig]

(* The last entry signs what lies in front of it, in the file as it would  *)
(* be written now.                                                         *)
SignAll ==
  /\ pc = "sign"
  /\ LET h    == Adjusted(comps)
         n    == Len(comps)
         last == comps[n]
         data == Slice(GetData(h), h.data_offset, h.data_offset + last.offset)
         row  == Rows[n]
     IN  /\ FitsRegions(h)
         /\ comps' = [comps EXCEPT
                        ![n].hash = HashData(data, row.auth, row.key),
                        ![n].auth_data = Signature(data, row.auth, row.key)]
         /\ header' = h
  /\ pc' = "write"
  /\ UNCHANGED <<layout, alignment, header_size, index, offset, base_offset,
                 file, origin>>

(* Wrong variant of WriteContainer: the header adjusted before SignAll     *)
(* keeps its signature.                                                    *)
WriteContainerAsSigned ==
  /\ pc = "write"
  /\ LET h == IF IsMono THEN [header EXCEPT !.comps = comps] ELSE Adjusted(comps)
     IN  /\ FitsRegions(h)
         /\ header' = h
         /\ file' = GetData(h)
  /\ pc' = "written"
  /\ UNCHANGED <<layout, alignment, comps, header_size, index, offset,
                 base_offset, origin>>

WriteContainer ==
  /\ pc = "write"
  /\ LET h == Adjusted(comps)
     IN  /\ FitsRegions(h)
         /\ header' = h
         /\ file' = GetData(h)
  /\ pc' = "written"
  /\ UNCHANGED <<layout, alignment, comps, header_size, index, offset,
                 base_offset, origin>>

(* A component larger than the region the layout gives it.                 *)
DoesNotFit ==
  /\ pc \in {"sign", "write"}
  /\ ~FitsRegions(Adjusted(comps))
  /\ Fail

-----------------------------------------------------------------------------
(* replace and extract, on the file of an earlier command. A replace that  *)
(* raises leaves everything as it was.                                     *)

(* get_auth_data: the file is a component with its signature already.      *)
Prepared(f, auth) ==
  IsLz(f) /\ Len(f) = LzSize + AlignUp(CompressedLen(f), Pad) + AuthSize(auth)

(* The component the file gives: of the prepared ones only those of type   *)
(* SHA2_384 get past the check of the type.                                *)
NewComponents(c, f, alg, key) ==
  LET data == IF Prepared(f, c.auth) THEN Slice(f, 0, LzSize + CompressedLen(f))
              ELSE LzFile(alg, f)
  IN  {d \in {[c EXCEPT !.data = data, !.auth_data = Signature(data, c.auth, key)]} :
         /\ Prepared(f, c.auth) => c.auth = "SHA2_384"
         /\ IsRsa(c.auth) => key # NoKey
         /\ HashData(data, c.auth, key) = c.hash}

Replace(name, f, alg, key) ==
  /\ pc = "written"
  /\ LET h == Parse(file)
     IN  /\ ~h.mono
         /\ \E i \in DOMAIN h.comps :
              /\ h.comps[i].name = name
              /\ \E c \in NewComponents(h.comps[i], f, alg, key) :
                   LET new == [h EXCEPT !.comps[i] = c]
                   IN  /\ FitsRegions(new)
                       /\ header' = new
                       /\ file' = GetData(new)
  /\ UNCHANGED <<pc, layout, alignment, comps, header_size, index, offset,
                 base_offset, origin>>

(* The layout names one key for each size of key.                          *)
KeyFor(auth) == IF auth = "RSA2048" THEN "k2048"
                ELSE IF auth = "RSA3072" THEN "k3072" ELSE NoKey

(* Wrong variant of ExtractedRow: the size is left to create.              *)
ExtractedRowUnsized(c) ==
  [name |-> c.name, content |-> IF c.reserved THEN <<>> ELSE <<Decompress(c.data)>>,
   alg |-> c.data[1][2], auth |-> c.auth, key |-> KeyFor(c.auth),
   alignment |-> c.alignment, size |-> 0]

ExtractedRow(c) ==
  [name |-> c.name, content |-> IF c.reserved THEN <<>> ELSE <<Decompress(c.data)>>,
   alg |-> c.data[1][2], auth |-> c.auth, key |-> KeyFor(c.auth),
   alignment |-> c.alignment, size |-> c.size]

ExtractedLayout(h) ==
  [header |-> [auth |-> h.auth, key |-> KeyFor(h.auth), alignment |-> h.alignment],
   rows |-> [i \in DOMAIN h.comps |-> ExtractedRow(h.comps[i])]]

(* extract of all components, and a create with the layout it has written. *)
ExtractAndCreate ==
  /\ pc = "written" /\ origin = <<>>
  /\ LET h == Parse(file)
     IN  /\ \A i \in DOMAIN h.comps :
              /\ IsLz(h.comps[i].data)
              /\ ~h.comps[i].reserved => Decompressible(h.comps[i].data)
         /\ StartCreate(ExtractedLayout(h))
  /\ origin' = <<layout, file>>
  /\ header' = <<>> /\ file' = <<>>

Next ==
  \/ BuildComponent \/ BuildFails \/ Built
  \/ PlaceComponent \/ Placed
  \/ SignAll \/ WriteContainer \/ DoesNotFit
  \/ \E name \in {Rows[i].name : i \in DOMAIN Rows}, f \in Contents,
        alg \in Algorithms, key \in Keys \cup {NoKey} : Replace(name, f, alg, key)
  \/ ExtractAndCreate

Spec == Init /\ [][Next]_containerVars

-----------------------------------------------------------------------------
(* Properties.                                                             *)

(* The premises. data_offset has not wrapped around; keys are of the type  *)
(* their rows say, as the entries keep the type of the row whatever the    *)
(* key; components start where padding in the file and in a component      *)
(* agree.                                                                  *)
Sane == AlignUp(header_size, alignment) < OffsetLimit
KeysMatch(rows) ==
  \A i \in DOMAIN rows : IsRsa(rows[i].auth) => KeyType(rows[i].key) = rows[i].auth
Padded ==
  /\ alignment % Pad = 0
  /\ \A i \in DOMAIN comps : comps[i].alignment % Pad = 0
Readable == pc = "written" /\ Sane /\ KeysMatch(Rows) /\ Padded

(* The loops of create stay in the lists, sizes and places are numbers,    *)
(* what is stored in c_uint16 data_offset has sixteen bits.                *)
ContTypeOK ==
  /\ pc \in {"build", "place", "sign", "write", "written", "failed"}
  /\ index \in 1..(Len(Rows) + 1)
  /\ Len(comps) <= Len(Rows)
  /\ alignment \in Nat \ {0} /\ header_size \in Nat /\ offset \in Nat
  /\ base_offset \in Nat \cup {-1}
  /\ \A i \in DOMAIN comps :
       /\ comps[i].offset \in Nat /\ comps[i].size \in Nat
       /\ comps[i].alignment \in Nat \ {0} /\ comps[i].auth \in AuthTypes
  /\ header # <<>> => header.data_offset \in 0..(OffsetLimit - 1)
  /\ file # <<>> <=> pc = "written"

(* A reader of the file finds what create or replace has put into it:      *)
(* CONTAINER_HDR of a buffer undoes get_data, whatever the alignments,     *)
(* signatures and paddings between the parts.                              *)
ParseInverts ==
  Readable =>
    LET h == Parse(file)
    IN  /\ h.auth_data = header.auth_data
        /\ h.data_offset = header.data_offset /\ h.data_size = header.data_size
        /\ h.comps = header.comps

(* The regions the entries describe follow one another: none reaches into  *)
(* the next, and the last one ends inside the payload (the steps back of   *)
(* create before an aligned place included).                               *)
RegionsDisjoint ==
  /\ pc \notin {"build", "failed"} =>
       \A i, j \in DOMAIN comps :
         i < j /\ j < index => comps[i].offset + comps[i].size <= comps[j].offset
  /\ pc = "written" =>
       \A i \in DOMAIN comps :
         comps[i].offset + comps[i].size <= header.data_size

(* What the boot loader verifies in a finished file, also after components *)
(* were replaced: the signature of the header covers all entries as they   *)
(* are in the file, each entry authenticates its component, and in a       *)
(* monolithic container the last one everything in front of it.            *)
SignaturesCover ==
  Readable =>
    LET h == Parse(file)
        n == Len(Rows)
        covered(i) == IF h.mono /\ i = n
                      THEN Slice(file, h.data_offset, h.data_offset + h.comps[n].offset)
                      ELSE h.comps[i].data
    IN  /\ h.auth_data = Signature(HeaderCells(h), h.auth, layout.header.key)
        /\ \A i \in 1..n :
             /\ h.comps[i].hash = HashData(covered(i), Rows[i].auth, Rows[i].key)
             /\ h.comps[i].auth_data = Signature(covered(i), Rows[i].auth, Rows[i].key)

(* The place a component or, behind its LZ header, its payload has in the  *)
(* file.                                                                   *)
IsAligned(c) ==
  LET at == header.data_offset + c.offset
  IN  at % c.alignment = 0 \/ (at + LzSize) % c.alignment = 0

(* "calculate the component offset based on alignment requirement": every  *)
(* component is aligned in the file. The offsets are aligned from the begin*)
(* of the first component, which itself is placed as the header demands, so*)
(* it holds where the two demand the same.                                 *)
AlignedAsGenerated ==
  /\ pc = "written" /\ Sane
  /\ comps # <<>> /\ comps[1].alignment = alignment
  /\ IsMono => alignment <= LzSize
  => \A i \in DOMAIN comps : IsAligned(comps[i])

(* A container made from the layout that extract has written is the one    *)
(* extract was given, replaced components and monolithic signatures        *)
(* included. The alignment of the header is not in the file, so it must be *)
(* that of the first component.                                            *)
RebuiltSame ==
  [][ /\ pc = "write" /\ pc' = "written" /\ origin # <<>>
      /\ Sane /\ Padded
      /\ LET l == origin[1]
         IN  /\ l.rows # <<>> /\ KeysMatch(l.rows)
             /\ l.rows[1].alignment \in {0, l.header.alignment}
      => file' = origin[2] ]_containerVars

(* replace leaves the header with its signature and every region but one   *)
(* as they are in the file.                                                *)
ReplaceKeepsOthers ==
  [][ Readable /\ pc' = "written" =>
        /\ Len(file') = Len(file)
        /\ \E i \in DOMAIN comps :
             LET from == header.data_offset + comps[i].offset
             IN  \A k \in DOMAIN file :
                   file'[k] # file[k] => k > from /\ k <= from + comps[i].size
    ]_containerVars
=============================================================================
