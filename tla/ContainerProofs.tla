---------------------------- MODULE ContainerProofs ----------------------------
(***************************************************************************)
(* Proofs about Container, for all layouts, files and sizes of structures. *)
(*                                                                         *)
(* The argument is about the file as get_data lays it out: what lies where *)
(* (Laid, which needs the regions apart, Roomy), what CONTAINER_HDR reads  *)
(* of it (ReadBack: always the header and the entries; ReadAll: also every *)
(* component, if a reader can tell its parts, Tidy), and where two files   *)
(* agree (LaidAgree). The invariant keeps, from the first row to the last  *)
(* replace, what makes a header Tidy and what its hashes are of (Covers).  *)
(***************************************************************************)
EXTENDS Container, SequenceFacts

(* What the proofs keep of files, components and headers. Before the       *)
(* extraction what is squeezed can be read too.                            *)
Deep == origin = <<>>
Fine(deep, f) ==
  /\ LzCells(f)
  /\ deep => \A k \in DOMAIN f : f[k][1] = "squeezed" => LzCells(f[k][2])

HashLen(auth) == IF auth = "NONE" THEN 0 ELSE HashSize

IsComp(deep, c) ==
  /\ c = [name |-> c.name, offset |-> c.offset, size |-> c.size,
          reserved |-> c.reserved, alignment |-> c.alignment, auth |-> c.auth,
          hash |-> c.hash, data |-> c.data, auth_data |-> c.auth_data]
  /\ c.offset \in Nat /\ c.size \in Nat /\ c.alignment \in Nat \ {0}
  /\ c.auth \in AuthTypes
  /\ Fine(deep, c.hash) /\ Fine(deep, c.data) /\ Fine(deep, c.auth_data)
  /\ Len(c.hash) = HashLen(c.auth)

AreComps(deep, cs) == IsSeq(cs) /\ \A i \in 1..Len(cs) : IsComp(deep, cs[i])

IsHeader(deep, h) ==
  /\ h.auth \in AuthTypes /\ h.data_offset \in Nat /\ h.data_size \in Nat
  /\ Fine(deep, h.auth_data) /\ Len(h.auth_data) = AuthSize(h.auth)
  /\ AreComps(deep, h.comps)

(* What goes in front of the components, and their entries.                *)
Lead(h) == HeaderCells(h) \o Padding(Len(HeaderCells(h))) \o h.auth_data
Entries(cs) == FlattenSeq([i \in DOMAIN cs |-> EntryCells(cs[i])])

(* A component that is as long as its LZ header says.                      *)
Whole(data) == IsLz(data) /\ Len(data) = LzSize + CompressedLen(data)

(* The components have room for each other.                                *)
Apart(cs) == \A i, j \in 1..Len(cs) : i < j => cs[i].offset + cs[i].size <= cs[j].offset

Roomy(h) ==
  /\ FitsRegions(h) /\ Apart(h.comps) /\ Len(Lead(h)) <= h.data_offset
  /\ \A i \in 1..Len(h.comps) :
       h.comps[i].offset + h.comps[i].size <= h.data_size

(* A reader can tell its parts.                                            *)
Tidy(h) ==
  /\ Roomy(h) /\ h.data_offset % Pad = 0
  /\ \A i \in 1..Len(h.comps) :
       /\ h.comps[i].offset % Pad = 0
       /\ Whole(h.comps[i].data)
       /\ Len(h.comps[i].auth_data) = AuthSize(h.comps[i].auth)

RowOk(r) ==
  /\ r.auth \in AuthTypes /\ r.key \in Keys \cup {NoKey}
  /\ r.alignment \in Nat /\ r.size \in Nat
  /\ r.content # <<>> => r.content = <<r.content[1]>> /\ Fine(Deep, r.content[1])

LayoutOk ==
  /\ layout.header.auth \in AuthTypes /\ layout.header.key \in Keys \cup {NoKey}
  /\ layout.header.alignment \in Nat
  /\ IsSeq(Rows) /\ \A i \in 1..Len(Rows) : RowOk(Rows[i])

TypeInv ==
  /\ pc \in {"build", "place", "sign", "write", "written", "failed"}
  /\ LayoutOk
  /\ alignment \in Nat \ {0} /\ header_size \in Nat /\ offset \in Nat
  /\ base_offset \in Nat \cup {-1}
  /\ index \in 1..(Len(Rows) + 1)
  /\ AreComps(Deep, comps) /\ Len(comps) <= Len(Rows)
  /\ header # <<>> => header.data_offset \in 0..(OffsetLimit - 1)
  /\ file # <<>> <=> pc = "written"

(* A component is made from a row, and carries the row's signature.        *)
Made(c, r) ==
  /\ c.name = Entry(r).name /\ c.size = Entry(r).size
  /\ c.reserved = Entry(r).reserved /\ c.alignment = Entry(r).alignment
  /\ c.auth = Entry(r).auth /\ c.data = Entry(r).data
SignedAlone(c, r) == c.hash = Entry(r).hash /\ c.auth_data = Entry(r).auth_data

BuiltInv ==
  /\ pc = "build" => index = Len(comps) + 1 /\ base_offset = -1
  /\ pc \in {"sign", "write", "written"} => index = Len(comps) + 1
  /\ pc = "sign" => IsMono
  /\ pc \notin {"build", "failed"} => Len(comps) = Len(Rows) /\ ~HeaderFails
  /\ pc # "failed" =>
       /\ header_size = HdrSize + AuthSize(HeaderAuth) + Len(Entries(comps))
       /\ \A i \in 1..Len(comps) :
            /\ ~RowFails(i) /\ Made(comps[i], Rows[i])
            /\ \/ pc \in {"write", "written"} /\ IsMono /\ i = Len(comps)
               \/ SignedAlone(comps[i], Rows[i])

FirstPlace(next) ==
  IF IsMono /\ next - header_size >= LzSize THEN next - LzSize ELSE next

PlacedInv ==
  pc \notin {"build", "failed"} =>
    LET n == index - 1
    IN  /\ n = 0 => offset = header_size /\ base_offset = -1
        /\ n > 0 => /\ base_offset \in Nat /\ base_offset <= offset
                    /\ base_offset = FirstPlace(AlignUp(header_size, comps[1].alignment))
                    /\ Padded => base_offset % Pad = 0
        /\ \A i, j \in 1..n : i < j => comps[i].offset + comps[i].size <= comps[j].offset
        /\ \A i \in 1..n :
             /\ comps[i].offset + comps[i].size <= offset - base_offset
             /\ Padded => comps[i].offset % Pad = 0
             /\ \/ (base_offset + comps[i].offset) % comps[i].alignment = 0
                \/ (base_offset + comps[i].offset + LzSize) % comps[i].alignment = 0

SameEntry(c, d) ==
  /\ c.name = d.name /\ c.offset = d.offset /\ c.size = d.size
  /\ c.reserved = d.reserved /\ c.alignment = d.alignment /\ c.auth = d.auth
  /\ c.hash = d.hash

(* What a component's hash and signature are of.                           *)
CoveredOf(h, f, i) ==
  IF h.mono /\ i = Len(h.comps)
  THEN Slice(f, h.data_offset, h.data_offset + h.comps[i].offset)
  ELSE h.comps[i].data
Covers(h, f) ==
  \A i \in 1..Len(h.comps) :
    /\ h.comps[i].hash = HashData(CoveredOf(h, f, i), Rows[i].auth, Rows[i].key)
    /\ h.comps[i].auth_data = Signature(CoveredOf(h, f, i), Rows[i].auth, Rows[i].key)

Premises == Sane /\ KeysMatch(Rows) /\ Padded

BeforeSigning(c) ==
  /\ IsComp(Deep, c) /\ c.offset = comps[Len(comps)].offset
  /\ Made(c, Rows[Len(comps)]) /\ SignedAlone(c, Rows[Len(comps)])
  /\ header = Adjusted([comps EXCEPT ![Len(comps)] = c])

SignedInv ==
  pc = "write" /\ IsMono =>
    LET n    == Len(comps)
        data == Slice(GetData(header), header.data_offset,
                      header.data_offset + comps[n].offset)
    IN  /\ BeforeSigning(header.comps[n])
        /\ FitsRegions(header)
        /\ comps[n].hash = HashData(data, Rows[n].auth, Rows[n].key)
        /\ comps[n].auth_data = Signature(data, Rows[n].auth, Rows[n].key)

WrittenInv ==
  pc = "written" =>
    /\ IsHeader(Deep, header) /\ file = GetData(header) /\ FitsRegions(header)
    /\ LET a == Adjusted(comps)
       IN  /\ header.auth = a.auth /\ header.mono = a.mono
           /\ header.data_offset = a.data_offset /\ header.data_size = a.data_size
           /\ header.auth_data = a.auth_data
    /\ Len(header.comps) = Len(comps)
    /\ \A i \in 1..Len(comps) : SameEntry(header.comps[i], comps[i])
    /\ Premises => Tidy(header) /\ Covers(header, file)

(* The inductive invariant.                                                *)
IInv == TypeInv /\ BuiltInv /\ PlacedInv /\ SignedInv /\ WrittenInv

-----------------------------------------------------------------------------
(* AlignUp is the next multiple, less than one step away.                   *)
LEMMA Aligned ==
  ASSUME NEW n \in Nat, NEW a \in Nat \ {0}
  PROVE  /\ AlignUp(n, a) \in Nat /\ AlignUp(n, a) % a = 0
         /\ n <= AlignUp(n, a) /\ AlignUp(n, a) < n + a
<1> DEFINE q == (n + a - 1) \div a
           r == (n + a - 1) % a
<1>1. n + a - 1 \in Nat
  OBVIOUS
<1>2. q \in Int /\ r \in Nat /\ r < a /\ n + a - 1 = q * a + r
  BY <1>1, Quotient
<1>3. AlignUp(n, a) = q * a
  BY DEF AlignUp
<1> HIDE DEF q, r
<1>4. q * a \in Int
  BY <1>2
<1>5. (q * a) % a = 0
  BY <1>2, MultipleOf
<1>6. n <= q * a /\ q * a < n + a
  BY <1>2, <1>4
<1> QED  BY <1>3, <1>4, <1>5, <1>6

(* No smaller multiple will do.                                            *)
LEMMA AlignedLeast ==
  ASSUME NEW n \in Nat, NEW a \in Nat \ {0}, NEW m \in Int, m % a = 0, n <= m
  PROVE  AlignUp(n, a) <= m
<1> DEFINE b == AlignUp(n, a)
<1>1. b \in Nat /\ b % a = 0 /\ b < n + a
  BY Aligned
<1> HIDE DEF b
<1>2. PICK q \in Int : m = q * a
  BY Multiples
<1>3. PICK r \in Int : b = r * a
  BY <1>1, Multiples
<1>4. q < r => q * a + a <= r * a
  BY ProductOrder
<1>5. r < q => r * a + a <= q * a
  BY ProductOrder
<1>6. q * a \in Int /\ r * a \in Int
  OBVIOUS
<1>7. r = q => r * a = q * a
  OBVIOUS
<1>8. q < r \/ r < q \/ r = q
  OBVIOUS
<1>9. b <= m
  BY <1>1, <1>2, <1>3, <1>4, <1>5, <1>6, <1>7, <1>8
<1> QED  BY <1>9 DEF b

(* A multiple is aligned.                                                   *)
LEMMA AlignedAlready ==
  ASSUME NEW n \in Nat, NEW a \in Nat \ {0}, n % a = 0
  PROVE  AlignUp(n, a) = n
<1>1. AlignUp(n, a) \in Nat /\ n <= AlignUp(n, a)
  BY Aligned
<1>2. AlignUp(n, a) <= n
  BY AlignedLeast
<1> QED  BY <1>1, <1>2

(* Behind a multiple only the rest is aligned.                              *)
LEMMA AlignedBehind ==
  ASSUME NEW m \in Nat, NEW n \in Nat, NEW a \in Nat \ {0}, m % a = 0
  PROVE  AlignUp(m + n, a) = m + AlignUp(n, a)
<1> DEFINE b == AlignUp(n, a)
           c == AlignUp(m + n, a)
<1>1. b \in Nat /\ b % a = 0 /\ n <= b
  BY Aligned
<1>2. m + n \in Nat
  OBVIOUS
<1>3. c \in Nat /\ c % a = 0 /\ m + n <= c
  BY <1>2, Aligned
<1> HIDE DEF b, c
<1>4. c <= m + b
  <2>1. (m + b) % a = 0
    <3>1. m \in Int /\ b \in Int
      BY <1>1
    <3> QED  BY <1>1, <3>1, SumOfMultiples, Zenon
  <2>2. m + b \in Int /\ m + n <= m + b
    BY <1>1
  <2> QED  BY <1>2, <2>1, <2>2, AlignedLeast DEF c
<1>5. b <= c - m
  <2>1. (c - m) % a = 0
    <3>1. m \in Int /\ c \in Int
      BY <1>3
    <3> QED  BY <1>3, <3>1, SumOfMultiples, Zenon
  <2>2. c - m \in Int /\ n <= c - m
    BY <1>3
  <2> QED  BY <2>1, <2>2, AlignedLeast DEF b
<1>6. c = m + b
  BY <1>1, <1>3, <1>4, <1>5
<1> QED  BY <1>6 DEF b, c

-----------------------------------------------------------------------------
(* Pieces of a file.                                                       *)

(* The sizes of the structures are numbers.                                 *)
LEMMA Sizes ==
  /\ DefaultAlignment \in Nat \ {0} /\ HdrSize \in Nat \ {0}
  /\ EntrySize \in Nat \ {0} /\ LzSize \in Nat \ {0} /\ HashSize \in Nat \ {0}
  /\ Pad \in Nat \ {0} /\ OffsetLimit \in Nat \ {0}
BY ContainerAssumption

(* A file is a sequence.                                                    *)
LEMMA FineShape ==
  ASSUME NEW deep, NEW f, Fine(deep, f)
  PROVE  IsSeq(f) /\ Len(f) \in Nat /\ DOMAIN f = 1..Len(f)
<1>1. IsSeq(f)
  BY DEF Fine, LzCells, IsSeq
<1> QED  BY <1>1, SeqShape

(* What makes a sequence of cells fine, cell by cell.                      *)
FineCell(deep, c) ==
  /\ c[1] = "lz" => c[3] \in Nat
  /\ deep /\ c[1] = "squeezed" => LzCells(c[2])

(* A file is one if each of its cells may be in a file.                     *)
LEMMA FineCells ==
  ASSUME NEW deep, NEW f, IsSeq(f)
  PROVE  Fine(deep, f) <=> \A k \in 1..Len(f) : FineCell(deep, f[k])
<1>1. DOMAIN f = 1..Len(f)
  BY SeqShape
<1> QED  BY <1>1, Zenon DEF Fine, LzCells, IsSeq, FineCell

(* Fill(n) is a file of n cells FF.                                         *)
LEMMA FillShape ==
  ASSUME NEW n \in Nat, NEW deep
  PROVE  /\ IsSeq(Fill(n)) /\ Len(Fill(n)) = n /\ Fine(deep, Fill(n))
         /\ \A k \in 1..n : Fill(n)[k] = FF
<1>1. Fill(n) = [k \in 1..n |-> Fill(n)[k]] /\ \A k \in 1..n : Fill(n)[k] = FF
  BY DEF Fill
<1>2. IsSeq(Fill(n)) /\ Len(Fill(n)) = n
  BY <1>1, ShapeSeq
<1>3. FineCell(deep, FF)
  BY DEF FineCell, FF
<1>4. Fine(deep, Fill(n))
  BY <1>1, <1>2, <1>3, FineCells
<1> QED  BY <1>1, <1>2, <1>4

(* A structure is its first cell and as many further ones as it is long.    *)
LEMMA StructShape ==
  ASSUME NEW x, NEW n \in Nat \ {0}
  PROVE  /\ IsSeq(Struct(x, n)) /\ Len(Struct(x, n)) = n /\ Struct(x, n)[1] = x
         /\ \A k \in 2..n : Struct(x, n)[k] = <<"more">>
         /\ \A deep : FineCell(deep, x) => Fine(deep, Struct(x, n))
<1> DEFINE s == Struct(x, n)
<1>1. /\ s = [k \in 1..n |-> s[k]]
      /\ s[1] = x /\ \A k \in 2..n : s[k] = <<"more">>
  BY DEF Struct
<1> HIDE DEF s
<1>2. IsSeq(s) /\ Len(s) = n
  BY <1>1, ShapeSeq
<1>3. ASSUME NEW deep, FineCell(deep, x)
      PROVE  Fine(deep, s)
  <2>1. FineCell(deep, <<"more">>)
    BY DEF FineCell
  <2>2. ASSUME NEW k \in 1..n
        PROVE  s[k] = x \/ s[k] = <<"more">>
    <3>1. k = 1 \/ k \in 2..n
      OBVIOUS
    <3> QED  BY <1>1, <3>1
  <2>3. \A k \in 1..n : FineCell(deep, s[k])
    BY <1>3, <2>1, <2>2
  <2> QED  BY <1>2, <2>3, FineCells
<1> QED  BY <1>1, <1>2, <1>3 DEF s

(* Two files one after the other are a file.                                *)
LEMMA FineCat ==
  ASSUME NEW deep, NEW s, NEW t, Fine(deep, s), Fine(deep, t)
  PROVE  Fine(deep, s \o t)
<1>1. IsSeq(s) /\ IsSeq(t) /\ Len(s) \in Nat /\ Len(t) \in Nat
  BY FineShape
<1> DEFINE r == s \o t
<1>2. /\ IsSeq(r) /\ Len(r) = Len(s) + Len(t)
      /\ \A k \in 1..(Len(s) + Len(t)) : r[k] = IF k <= Len(s) THEN s[k] ELSE t[k - Len(s)]
  BY <1>1, CatShape
<1> HIDE DEF r
<1>3. ASSUME NEW k \in 1..Len(r)
      PROVE  FineCell(deep, r[k])
  <2>1. CASE k <= Len(s)
    <3>1. k \in 1..Len(s) /\ r[k] = s[k]
      BY <1>1, <1>2, <2>1
    <3> QED  BY <1>1, <3>1, FineCells
  <2>2. CASE k > Len(s)
    <3>1. k - Len(s) \in 1..Len(t) /\ r[k] = t[k - Len(s)]
      BY <1>1, <1>2, <2>2
    <3> QED  BY <1>1, <3>1, FineCells
  <2> QED  BY <1>1, <2>1, <2>2
<1>4. Fine(deep, r)
  BY <1>2, <1>3, FineCells
<1> QED  BY <1>4 DEF r

(* What a slice of a file is, short when it reaches past the end.           *)
LEMMA SliceShape ==
  ASSUME NEW f, NEW from \in Nat, NEW to \in Nat, IsSeq(f)
  PROVE  /\ IsSeq(Slice(f, from, to))
         /\ Len(Slice(f, from, to)) =
              LET end == IF to <= Len(f) THEN to ELSE Len(f)
              IN  IF from < end THEN end - from ELSE 0
         /\ \A k \in 1..Len(Slice(f, from, to)) :
              from + k \in 1..Len(f) /\ Slice(f, from, to)[k] = f[from + k]
<1> DEFINE end == IF to <= Len(f) THEN to ELSE Len(f)
           s == SubSeq(f, from + 1, end)
<1>1. Len(f) \in Nat /\ end \in Nat /\ end <= Len(f) /\ from + 1 \in Nat \ {0}
  BY SeqShape
<1>2. Slice(f, from, to) = s
  BY DEF Slice
<1> HIDE DEF end
<1>3. /\ IsSeq(s) /\ Len(s) = IF from + 1 <= end THEN end - (from + 1) + 1 ELSE 0
      /\ \A k \in 1..Len(s) : s[k] = f[from + 1 + k - 1]
  BY <1>1, SubSeqShape
<1> HIDE DEF s
<1>4. Len(s) = IF from < end THEN end - from ELSE 0
  BY <1>1, <1>3
<1>5. \A k \in 1..Len(s) : from + k \in 1..Len(f) /\ from + 1 + k - 1 = from + k
  BY <1>1, <1>4
<1>6. \A k \in 1..Len(s) : from + k \in 1..Len(f) /\ s[k] = f[from + k]
  BY <1>3, <1>5
<1> QED  BY <1>2, <1>3, <1>4, <1>6 DEF end

(* A slice of a file is a file.                                             *)
LEMMA FineSlice ==
  ASSUME NEW deep, NEW f, NEW from \in Nat, NEW to \in Nat, Fine(deep, f)
  PROVE  Fine(deep, Slice(f, from, to))
<1>1. IsSeq(f)
  BY FineShape
<1> DEFINE s == Slice(f, from, to)
<1>2. IsSeq(s) /\ \A k \in 1..Len(s) : from + k \in 1..Len(f) /\ s[k] = f[from + k]
  BY <1>1, SliceShape
<1> HIDE DEF s
<1>3. \A k \in 1..Len(s) : FineCell(deep, s[k])
  BY <1>1, <1>2, FineCells
<1>4. Fine(deep, s)
  BY <1>2, <1>3, FineCells
<1> QED  BY <1>4 DEF s

(* A piece that is in the file is what a slice of its length gives.        *)
LEMMA SliceIs ==
  ASSUME NEW f, NEW t, IsSeq(f), IsSeq(t), NEW from \in Nat, from + Len(t) <= Len(f),
         \A k \in 1..Len(t) : f[from + k] = t[k]
  PROVE  Slice(f, from, from + Len(t)) = t
<1> DEFINE s == Slice(f, from, from + Len(t))
<1>1. Len(t) \in Nat /\ Len(f) \in Nat /\ from + Len(t) \in Nat
  BY SeqShape
<1>2. /\ IsSeq(s) /\ \A k \in 1..Len(s) : s[k] = f[from + k]
      /\ Len(s) = LET end == IF from + Len(t) <= Len(f) THEN from + Len(t) ELSE Len(f)
                  IN  IF from < end THEN end - from ELSE 0
  BY <1>1, SliceShape
<1> HIDE DEF s
<1>3. Len(s) = Len(t)
  BY <1>1, <1>2
<1>4. s = t
  BY <1>2, <1>3, SeqSame
<1> QED  BY <1>4 DEF s

(* The padding of n cells reaches up to the next multiple of Pad.           *)
LEMMA PaddingShape ==
  ASSUME NEW n \in Nat, NEW deep
  PROVE  /\ IsSeq(Padding(n)) /\ Len(Padding(n)) = AlignUp(n, Pad) - n
         /\ AlignUp(n, Pad) - n \in Nat /\ Fine(deep, Padding(n))
         /\ \A k \in 1..Len(Padding(n)) : Padding(n)[k] = FF
<1> DEFINE m == AlignUp(n, Pad) - n
<1>1. AlignUp(n, Pad) \in Nat /\ n <= AlignUp(n, Pad)
  BY Sizes, Aligned
<1>2. m \in Nat
  BY <1>1
<1>3. Padding(n) = Fill(m)
  BY DEF Padding
<1> HIDE DEF m
<1>4. /\ IsSeq(Fill(m)) /\ Len(Fill(m)) = m /\ Fine(deep, Fill(m))
      /\ \A k \in 1..m : Fill(m)[k] = FF
  BY <1>2, FillShape
<1> QED  BY <1>2, <1>3, <1>4 DEF m

(* What a tool has compressed can be read, and so can what is inside.       *)
LEMMA SqueezedFine ==
  ASSUME NEW deep, NEW alg, NEW content, Fine(deep, content), LzCells(content)
  PROVE  Fine(deep, Squeezed(alg, content))
<1>1. CASE alg = "Dummy" \/ content = <<>>
  <2>1. Squeezed(alg, content) = content
    BY <1>1 DEF Squeezed
  <2> QED  BY <2>1
<1>2. CASE ~(alg = "Dummy" \/ content = <<>>)
  <2> DEFINE n == (Len(content) + 1) \div 2
             x == <<"squeezed", content>>
  <2>1. Squeezed(alg, content) = Struct(x, n)
    BY <1>2 DEF Squeezed
  <2>2. n \in Nat \ {0}
    <3>1. IsSeq(content) /\ Len(content) \in Nat
      BY FineShape
    <3>2. Len(content) # 0
      BY <1>2, <3>1 DEF IsSeq
    <3> QED  BY <3>1, <3>2
  <2>3. FineCell(deep, x)
    BY DEF FineCell
  <2> HIDE DEF n, x
  <2>4. Fine(deep, Struct(x, n))
    BY <2>2, <2>3, StructShape
  <2> QED  BY <2>1, <2>4
<1> QED  BY <1>1, <1>2

(* compress gives a component that is as long as its header says.           *)
LEMMA LzFileShape ==
  ASSUME NEW deep, NEW alg, NEW content, Fine(deep, content)
  PROVE  /\ Fine(deep, LzFile(alg, content)) /\ Whole(LzFile(alg, content))
<1> DEFINE data == Squeezed(alg, content)
           x == <<"lz", alg, Len(data)>>
           head == Struct(x, LzSize)
           f == LzFile(alg, content)
<1>1. Fine(deep, data)
  BY SqueezedFine DEF Fine
<1>2. f = head \o data
  BY DEF LzFile
<1> HIDE DEF data
<1>3. IsSeq(data) /\ Len(data) \in Nat
  BY <1>1, FineShape
<1>4. FineCell(deep, x) /\ x[1] = "lz" /\ x[3] = Len(data)
  BY <1>3 DEF FineCell
<1> HIDE DEF x
<1>5. /\ IsSeq(head) /\ Len(head) = LzSize /\ head[1] = x /\ Fine(deep, head)
      /\ LzSize \in Nat \ {0}
  BY <1>4, Sizes, StructShape
<1> HIDE DEF head
<1>6. Fine(deep, f)
  BY <1>1, <1>2, <1>5, FineCat
<1> HIDE DEF f
<1>7. Len(f) = LzSize + Len(data) /\ f[1] = x
  <2>1. Len(f) = LzSize + Len(data) /\ \A k \in 1..LzSize : f[k] = head[k]
    BY <1>2, <1>3, <1>5, CatShape
  <2> QED  BY <1>5, <2>1
<1>8. Whole(f)
  BY <1>3, <1>4, <1>5, <1>7 DEF Whole, IsLz, CompressedLen
<1> QED  BY <1>6, <1>8 DEF f

(* A hash is as long as its type says.                                      *)
LEMMA HashDataShape ==
  ASSUME NEW deep, NEW f, NEW auth, NEW key
  PROVE  /\ Fine(deep, HashData(f, auth, key)) /\ IsSeq(HashData(f, auth, key))
         /\ Len(HashData(f, auth, key)) = HashLen(auth)
<1>1. CASE auth = "NONE"
  <2>1. HashData(f, auth, key) = <<>> /\ HashLen(auth) = 0
    BY <1>1 DEF HashData, HashLen
  <2>2. Fine(deep, <<>>)
    BY EmptyIsSeq, FineCells
  <2> QED  BY <2>1, <2>2, EmptyIsSeq
<1>2. CASE auth # "NONE"
  <2> DEFINE x == IF IsRsa(auth) THEN <<"keyhash", key>> ELSE <<"hash", auth, f>>
  <2>1. HashData(f, auth, key) = Struct(x, HashSize) /\ HashLen(auth) = HashSize
    BY <1>2 DEF HashData, HashLen
  <2>2. FineCell(deep, x)
    BY DEF FineCell
  <2> HIDE DEF x
  <2> QED  BY <2>1, <2>2, Sizes, StructShape
<1> QED  BY <1>1, <1>2

(* Signatures are as long as the padding demands.                           *)
LEMMA AuthSizes ==
  ASSUME NEW auth
  PROVE  AuthSize(auth) \in Nat /\ AuthSize(auth) % Pad = 0
<1>1. HashSize \in Nat \ {0} /\ Pad \in Nat \ {0} /\ HashSize % Pad = 0
  BY ContainerAssumption
<1>2. (2 * HashSize) % Pad = 0 /\ (3 * HashSize) % Pad = 0 /\ 0 % Pad = 0
  <2> DEFINE x == 2 * HashSize
             y == 3 * HashSize
  <2>1. (HashSize + HashSize) % Pad = 0
    <3>1. HashSize \in Int
      BY <1>1
    <3> QED  BY <1>1, <3>1, SumOfMultiples, Zenon
  <2>2. x = HashSize + HashSize /\ y = HashSize + x /\ HashSize \in Int /\ x \in Int
    BY <1>1
  <2> HIDE DEF x, y
  <2>3. x % Pad = 0
    BY <2>1, <2>2
  <2>4. (HashSize + x) % Pad = 0
    BY <1>1, <2>2, <2>3, SumOfMultiples, Zenon
  <2>5. 0 % Pad = 0
    BY <1>1
  <2> QED  BY <2>2, <2>3, <2>4, <2>5 DEF x, y
<1>3. 2 * HashSize \in Nat /\ 3 * HashSize \in Nat
  BY <1>1
<1> QED  BY <1>2, <1>3, Zenon DEF AuthSize

SignatureLen(auth, key) == IF IsRsa(auth) THEN AuthSize(KeyType(key)) ELSE 0

(* A signature is as long as the type of its key says.                      *)
LEMMA SignatureShape ==
  ASSUME NEW deep, NEW f, NEW auth, NEW key
  PROVE  /\ Fine(deep, Signature(f, auth, key)) /\ IsSeq(Signature(f, auth, key))
         /\ Len(Signature(f, auth, key)) = SignatureLen(auth, key)
<1>1. CASE ~IsRsa(auth)
  <2>1. Signature(f, auth, key) = <<>> /\ SignatureLen(auth, key) = 0
    BY <1>1 DEF Signature, SignatureLen
  <2>2. Fine(deep, <<>>)
    BY EmptyIsSeq, FineCells
  <2> QED  BY <2>1, <2>2, EmptyIsSeq
<1>2. CASE IsRsa(auth)
  <2> DEFINE x == <<"sig", key, f>>
             n == AuthSize(KeyType(key))
  <2>1. Signature(f, auth, key) = Struct(x, n) /\ SignatureLen(auth, key) = n
    BY <1>2 DEF Signature, SignatureLen
  <2>2. FineCell(deep, x)
    BY DEF FineCell
  <2>3. n \in Nat \ {0}
    BY Sizes DEF AuthSize, KeyType
  <2> HIDE DEF x, n
  <2> QED  BY <2>1, <2>2, <2>3, StructShape
<1> QED  BY <1>1, <1>2

EntryCell(c) == <<"entry", c.name, c.offset, c.size, c.reserved, c.alignment,
                  c.auth, Len(c.hash)>>

(* The cells of an entry: its fields, then its hash.                        *)
LEMMA EntryShape ==
  ASSUME NEW deep, NEW c, Fine(deep, c.hash)
  PROVE  /\ IsSeq(EntryCells(c)) /\ Len(EntryCells(c)) = EntrySize + Len(c.hash)
         /\ Fine(deep, EntryCells(c)) /\ EntryCells(c)[1] = EntryCell(c)
         /\ \A k \in 1..Len(c.hash) : EntryCells(c)[EntrySize + k] = c.hash[k]
<1> DEFINE x == EntryCell(c)
           s == Struct(x, EntrySize)
           t == c.hash
<1>1. EntryCells(c) = s \o t
  BY DEF EntryCells, EntryCell
<1>2. FineCell(deep, x)
  BY DEF FineCell, EntryCell
<1> HIDE DEF x
<1>3. /\ EntrySize \in Nat \ {0} /\ IsSeq(s) /\ Len(s) = EntrySize /\ s[1] = x
      /\ Fine(deep, s)
  BY <1>2, Sizes, StructShape
<1>4. IsSeq(t) /\ Fine(deep, t)
  BY FineShape
<1> HIDE DEF s, t
<1>5. /\ IsSeq(s \o t) /\ Len(s \o t) = EntrySize + Len(t)
      /\ \A k \in 1..EntrySize : (s \o t)[k] = s[k]
      /\ \A k \in 1..Len(t) : (s \o t)[EntrySize + k] = t[k]
  BY <1>3, <1>4, CatShape
<1>6. Fine(deep, s \o t)
  BY <1>3, <1>4, FineCat
<1>7. (s \o t)[1] = x
  BY <1>3, <1>5
<1> QED  BY <1>1, <1>5, <1>6, <1>7 DEF t, x

(* A body: the data, and behind its padding the signature.                  *)
LEMMA BodyShape ==
  ASSUME NEW deep, NEW c, Fine(deep, c.data), Fine(deep, c.auth_data)
  PROVE  LET d == Len(c.data)
             p == AlignUp(d, Pad)
         IN  /\ IsSeq(Body(c)) /\ Fine(deep, Body(c))
             /\ d \in Nat /\ p \in Nat /\ d <= p
             /\ Len(Body(c)) = p + Len(c.auth_data)
             /\ \A k \in 1..d : Body(c)[k] = c.data[k]
             /\ \A k \in 1..Len(c.auth_data) : Body(c)[p + k] = c.auth_data[k]
<1> DEFINE data == c.data
           auth == c.auth_data
           d == Len(data)
           p == AlignUp(d, Pad)
           gap == Padding(d)
           s == data \o gap
<1>1. IsSeq(data) /\ IsSeq(auth) /\ d \in Nat /\ Len(auth) \in Nat
  BY FineShape
<1>2. IsSeq(gap) /\ Fine(deep, gap) /\ Len(gap) = p - d
  BY <1>1, PaddingShape
<1>3. p \in Nat /\ d <= p
  BY <1>1, Sizes, Aligned
<1>4. Body(c) = s \o auth
  BY DEF Body
<1>5. Fine(deep, s) /\ Fine(deep, s \o auth)
  <2>1. Fine(deep, s)
    BY <1>2, FineCat
  <2> HIDE DEF s
  <2> QED  BY <2>1, FineCat
<1> HIDE DEF data, auth, gap, p
<1>6. /\ IsSeq(s) /\ Len(s) = p /\ \A k \in 1..d : s[k] = data[k]
  BY <1>1, <1>2, <1>3, CatShape
<1> HIDE DEF s
<1>7. /\ IsSeq(s \o auth) /\ Len(s \o auth) = p + Len(auth)
      /\ \A k \in 1..p : (s \o auth)[k] = s[k]
      /\ \A k \in 1..Len(auth) : (s \o auth)[p + k] = auth[k]
  BY <1>1, <1>6, CatShape
<1> HIDE DEF d
<1>8. \A k \in 1..d : (s \o auth)[k] = data[k]
  BY <1>1, <1>3, <1>6, <1>7
<1> QED  BY <1>1, <1>3, <1>4, <1>5, <1>7, <1>8, Zenon DEF data, auth, d, p

(* Filling up to n keeps what is there and adds cells FF.                   *)
LEMMA FillToShape ==
  ASSUME NEW deep, NEW s, NEW n \in Int, Fine(deep, s)
  PROVE  /\ IsSeq(FillTo(s, n)) /\ Fine(deep, FillTo(s, n))
         /\ Len(FillTo(s, n)) = IF n > Len(s) THEN n ELSE Len(s)
         /\ \A k \in 1..Len(s) : FillTo(s, n)[k] = s[k]
         /\ \A k \in 1..Len(FillTo(s, n)) : k > Len(s) => FillTo(s, n)[k] = FF
<1> DEFINE m == IF n > Len(s) THEN n - Len(s) ELSE 0
           r == s \o Fill(m)
<1>1. IsSeq(s) /\ Len(s) \in Nat
  BY FineShape
<1>2. m \in Nat
  BY <1>1
<1>3. FillTo(s, n) = r
  BY DEF FillTo
<1>4. Len(s) + m = IF n > Len(s) THEN n ELSE Len(s)
  BY <1>1
<1> HIDE DEF m
<1>5. /\ IsSeq(Fill(m)) /\ Len(Fill(m)) = m /\ Fine(deep, Fill(m))
      /\ \A k \in 1..m : Fill(m)[k] = FF
  BY <1>2, FillShape
<1>6. Fine(deep, r)
  BY <1>5, FineCat
<1>7. /\ IsSeq(r) /\ Len(r) = Len(s) + m /\ \A k \in 1..Len(s) : r[k] = s[k]
      /\ \A k \in 1..m : r[Len(s) + k] = Fill(m)[k]
  BY <1>1, <1>5, CatShape
<1> HIDE DEF r
<1>8. ASSUME NEW k \in 1..Len(r), k > Len(s)
      PROVE  r[k] = FF
  <2>1. k - Len(s) \in 1..m /\ Len(s) + (k - Len(s)) = k
    BY <1>1, <1>2, <1>7, <1>8
  <2> QED  BY <1>5, <1>7, <2>1
<1> QED  BY <1>3, <1>4, <1>6, <1>7, <1>8

-----------------------------------------------------------------------------
(* The front of the file.                                                  *)

(* Entries one after the other: where each is, and its hash.               *)
EntriesAt(cs, f, first, at) ==
  /\ at \in [1..(Len(cs) + 1) -> Nat] /\ at[1] = first
  /\ \A i \in 1..Len(cs) :
       /\ at[i + 1] = at[i] + EntrySize + Len(cs[i].hash) /\ at[i + 1] <= Len(f)
       /\ f[at[i] + 1] = EntryCell(cs[i])
       /\ \A k \in 1..Len(cs[i].hash) : f[at[i] + EntrySize + k] = cs[i].hash[k]

(* The entries lie one behind the other, each as long as its hash makes it. *)
LEMMA EntriesShape ==
  ASSUME NEW deep, NEW cs, IsSeq(cs), \A i \in 1..Len(cs) : Fine(deep, cs[i].hash)
  PROVE  /\ Fine(deep, Entries(cs)) /\ IsSeq(Entries(cs))
         /\ \E at : EntriesAt(cs, Entries(cs), 0, at) /\ at[Len(cs) + 1] = Len(Entries(cs))
<1> DEFINE n == Len(cs)
           es == [i \in DOMAIN cs |-> EntryCells(cs[i])]
           r == Entries(cs)
<1>1. n \in Nat /\ DOMAIN cs = 1..n
  BY SeqShape
<1>2. es = [i \in 1..n |-> es[i]] /\ \A i \in 1..n : es[i] = EntryCells(cs[i])
  BY <1>1
<1>3. r = FlattenSeq(es)
  BY DEF Entries
<1> HIDE DEF es, r
<1>4. IsSeq(es) /\ Len(es) = n
  BY <1>1, <1>2, ShapeSeq
<1>5. ASSUME NEW i \in 1..n
      PROVE  /\ IsSeq(es[i]) /\ Len(es[i]) = EntrySize + Len(cs[i].hash)
             /\ Fine(deep, es[i]) /\ es[i][1] = EntryCell(cs[i])
             /\ \A k \in 1..Len(cs[i].hash) : es[i][EntrySize + k] = cs[i].hash[k]
             /\ Len(cs[i].hash) \in Nat
  <2>1. es[i] = EntryCells(cs[i]) /\ Fine(deep, cs[i].hash)
    BY <1>2
  <2>2. Len(cs[i].hash) \in Nat
    BY <2>1, FineShape
  <2> QED  BY <2>1, <2>2, EntryShape
<1>6. PICK at : Flattened(es, n, r, at)
  BY <1>3, <1>4, <1>5, FlattenShape
<1>7. /\ IsSeq(r) /\ Len(r) \in Nat
      /\ at \in [1..(n + 1) -> Nat] /\ at[1] = 0 /\ at[n + 1] = Len(r)
      /\ \A i \in 1..n : at[i + 1] = at[i] + Len(es[i])
      /\ \A i \in 1..n : \A k \in 1..Len(es[i]) :
           at[i] + k \in 1..Len(r) /\ r[at[i] + k] = es[i][k]
      /\ \A p \in 1..Len(r) : \E i \in 1..n : \E k \in 1..Len(es[i]) : p = at[i] + k
  BY <1>6, SeqShape DEF Flattened
<1>8. Fine(deep, r)
  <2>1. ASSUME NEW p \in 1..Len(r)
        PROVE  FineCell(deep, r[p])
    <3>1. PICK i \in 1..n : \E k \in 1..Len(es[i]) : r[p] = es[i][k]
      BY <1>7
    <3> QED  BY <1>5, <3>1, FineCells
  <2> QED  BY <1>7, <2>1, FineCells
<1>9. ASSUME NEW i \in 1..n
      PROVE  /\ at[i + 1] = at[i] + EntrySize + Len(cs[i].hash) /\ at[i + 1] <= Len(r)
             /\ r[at[i] + 1] = EntryCell(cs[i])
             /\ \A k \in 1..Len(cs[i].hash) : r[at[i] + EntrySize + k] = cs[i].hash[k]
  <2> DEFINE m == Len(cs[i].hash)
             l == Len(es[i])
             a == at[i]
  <2>1. EntrySize \in Nat \ {0} /\ m \in Nat /\ l = EntrySize + m /\ a \in Nat
    BY <1>5, <1>7, Sizes
  <2>2. at[i + 1] = a + l /\ \A k \in 1..l : a + k \in 1..Len(r) /\ r[a + k] = es[i][k]
    BY <1>7
  <2>3. es[i][1] = EntryCell(cs[i]) /\ \A k \in 1..m : es[i][EntrySize + k] = cs[i].hash[k]
    BY <1>5
  <2> HIDE DEF m, l, a
  <2>4. 1 \in 1..l /\ l \in 1..l /\ \A k \in 1..m : EntrySize + k \in 1..l
    BY <2>1
  <2>5. a + l <= Len(r) /\ r[a + 1] = es[i][1]
    <3>1. a + l \in 1..Len(r) /\ r[a + 1] = es[i][1]
      BY <2>2, <2>4
    <3>2. Len(r) \in Nat
      BY <1>7
    <3> QED  BY <3>1, <3>2
  <2>6. ASSUME NEW k \in 1..m
        PROVE  r[a + EntrySize + k] = cs[i].hash[k]
    <3>1. a + EntrySize + k = a + (EntrySize + k)
      BY <2>1
    <3> QED  BY <2>2, <2>3, <2>4, <3>1
  <2>7. at[i + 1] = a + EntrySize + m
    BY <2>1, <2>2
  <2> QED  BY <2>2, <2>3, <2>5, <2>6, <2>7 DEF m, a
<1>10. EntriesAt(cs, r, 0, at) /\ at[n + 1] = Len(r)
  BY <1>7, <1>9 DEF EntriesAt
<1> QED  BY <1>7, <1>8, <1>10 DEF r

HeaderCell(h) == <<"header", h.auth, h.mono, h.data_offset, h.data_size, Len(h.comps)>>

(* What a reader finds at the begin of a file.                             *)
StartsWith(f, s) ==
  IsSeq(f) /\ IsSeq(s) /\ Len(s) <= Len(f) /\ \A k \in 1..Len(s) : f[k] = s[k]

HeadAt(h, f, at) ==
  /\ f[1] = HeaderCell(h) /\ Len(f) > 0
  /\ EntriesAt(h.comps, f, HdrSize, at)
  /\ LET auth == AlignUp(at[Len(h.comps) + 1], Pad)
     IN  /\ auth + Len(h.auth_data) <= Len(f)
         /\ \A k \in 1..Len(h.auth_data) : f[auth + k] = h.auth_data[k]

(* The header, then the entries.                                            *)
LEMMA HeaderCellsShape ==
  ASSUME NEW deep, NEW h, IsHeader(deep, h)
  PROVE  /\ IsSeq(HeaderCells(h)) /\ Fine(deep, HeaderCells(h))
         /\ HeaderCells(h)[1] = HeaderCell(h)
         /\ Len(HeaderCells(h)) = HdrSize + Len(Entries(h.comps))
         /\ \E at : /\ EntriesAt(h.comps, HeaderCells(h), HdrSize, at)
                    /\ at[Len(h.comps) + 1] = Len(HeaderCells(h))
<1> DEFINE cs == h.comps
           n == Len(cs)
           x == HeaderCell(h)
           s == Struct(x, HdrSize)
           t == Entries(cs)
           r == HeaderCells(h)
<1>1. r = s \o t
  BY DEF HeaderCells, Entries, HeaderCell
<1>2. FineCell(deep, x)
  BY DEF FineCell, HeaderCell
<1> HIDE DEF x
<1>3. /\ HdrSize \in Nat \ {0} /\ IsSeq(s) /\ Len(s) = HdrSize /\ s[1] = x
      /\ Fine(deep, s)
  BY <1>2, Sizes, StructShape
<1>4. IsSeq(cs) /\ n \in Nat /\ \A i \in 1..n : Fine(deep, cs[i].hash)
  BY SeqShape DEF IsHeader, AreComps, IsComp
<1> HIDE DEF s, t, r, cs
<1>5. Fine(deep, t) /\ IsSeq(t) /\ Len(t) \in Nat
  BY <1>4, EntriesShape, SeqShape DEF t
<1>6. PICK b : EntriesAt(cs, t, 0, b) /\ b[n + 1] = Len(t)
  BY <1>4, EntriesShape DEF t
<1>7. /\ IsSeq(r) /\ Len(r) = HdrSize + Len(t) /\ Fine(deep, r)
      /\ \A k \in 1..HdrSize : r[k] = s[k]
      /\ \A k \in 1..Len(t) : r[HdrSize + k] = t[k]
  <2>1. Fine(deep, s \o t)
    BY <1>3, <1>5, FineCat
  <2> QED  BY <1>1, <1>3, <1>5, <2>1, CatShape
<1>8. r[1] = x
  BY <1>3, <1>7
<1> DEFINE at == [i \in 1..(n + 1) |-> HdrSize + b[i]]
<1>9. /\ b \in [1..(n + 1) -> Nat] /\ b[1] = 0
      /\ \A i \in 1..n :
           /\ b[i + 1] = b[i] + EntrySize + Len(cs[i].hash) /\ b[i + 1] <= Len(t)
           /\ t[b[i] + 1] = EntryCell(cs[i])
           /\ \A k \in 1..Len(cs[i].hash) : t[b[i] + EntrySize + k] = cs[i].hash[k]
  BY <1>6 DEF EntriesAt
<1>10. /\ at \in [1..(n + 1) -> Nat] /\ at[1] = HdrSize /\ at[n + 1] = Len(r)
       /\ \A i \in 1..n : at[i] = HdrSize + b[i] /\ at[i + 1] = HdrSize + b[i + 1]
  BY <1>3, <1>4, <1>6, <1>7, <1>9
<1> HIDE DEF at
<1>11. ASSUME NEW i \in 1..n
       PROVE  /\ at[i + 1] = at[i] + EntrySize + Len(cs[i].hash) /\ at[i + 1] <= Len(r)
              /\ r[at[i] + 1] = EntryCell(cs[i])
              /\ \A k \in 1..Len(cs[i].hash) : r[at[i] + EntrySize + k] = cs[i].hash[k]
  <2> DEFINE m == Len(cs[i].hash)
             a == at[i]
             c == b[i]
  <2>1. /\ EntrySize \in Nat \ {0} /\ HdrSize \in Nat /\ m \in Nat /\ c \in Nat
        /\ a = HdrSize + c /\ at[i + 1] = HdrSize + b[i + 1]
    BY <1>3, <1>4, <1>9, <1>10, Sizes, FineShape
  <2>2. /\ b[i + 1] = c + EntrySize + m /\ b[i + 1] <= Len(t)
        /\ t[c + 1] = EntryCell(cs[i])
        /\ \A k \in 1..m : t[c + EntrySize + k] = cs[i].hash[k]
    BY <1>9
  <2> HIDE DEF m, a, c
  <2>3. at[i + 1] = a + EntrySize + m /\ at[i + 1] <= Len(r)
    BY <1>5, <1>7, <2>1, <2>2
  <2>4. r[a + 1] = t[c + 1]
    <3>1. c + 1 \in 1..Len(t) /\ a + 1 = HdrSize + (c + 1)
      BY <1>5, <2>1, <2>2
    <3> QED  BY <1>7, <3>1
  <2>5. ASSUME NEW k \in 1..m
        PROVE  r[a + EntrySize + k] = cs[i].hash[k]
    <3>1. c + EntrySize + k \in 1..Len(t) /\ a + EntrySize + k = HdrSize + (c + EntrySize + k)
      BY <1>5, <2>1, <2>2
    <3> QED  BY <1>7, <2>2, <3>1
  <2> QED  BY <2>2, <2>3, <2>4, <2>5 DEF m, a
<1>12. EntriesAt(cs, r, HdrSize, at)
  BY <1>10, <1>11 DEF EntriesAt
<1> QED  BY <1>7, <1>8, <1>10, <1>12 DEF cs, r, t, x

(* What was found in the begin of a file is found in the file.             *)
LEMMA EntriesKept ==
  ASSUME NEW cs, NEW s, NEW f, NEW first, NEW at, EntriesAt(cs, s, first, at),
         StartsWith(f, s), \A i \in 1..Len(cs) : Len(cs[i].hash) \in Nat
  PROVE  EntriesAt(cs, f, first, at)
<1> DEFINE n == Len(cs)
<1>1. Len(s) \in Nat /\ Len(f) \in Nat /\ Len(s) <= Len(f) /\ \A k \in 1..Len(s) : f[k] = s[k]
  BY SeqShape DEF StartsWith
<1>2. at \in [1..(n + 1) -> Nat] /\ at[1] = first
  BY DEF EntriesAt
<1>3. ASSUME NEW i \in 1..n
      PROVE  /\ at[i + 1] = at[i] + EntrySize + Len(cs[i].hash) /\ at[i + 1] <= Len(f)
             /\ f[at[i] + 1] = EntryCell(cs[i])
             /\ \A k \in 1..Len(cs[i].hash) : f[at[i] + EntrySize + k] = cs[i].hash[k]
  <2> DEFINE m == Len(cs[i].hash)
             a == at[i]
             b == at[i + 1]
  <2>1. m \in Nat /\ EntrySize \in Nat \ {0}
    BY Sizes
  <2>2. /\ b = a + EntrySize + m /\ b <= Len(s) /\ s[a + 1] = EntryCell(cs[i])
        /\ \A k \in 1..m : s[a + EntrySize + k] = cs[i].hash[k]
    BY DEF EntriesAt
  <2>3. a \in Nat
    <3>1. i \in 1..(n + 1)
      OBVIOUS
    <3> QED  BY <1>2, <3>1
  <2> HIDE DEF m, a, b
  <2>4. b <= Len(f) /\ a + 1 \in 1..Len(s) /\ \A k \in 1..m : a + EntrySize + k \in 1..Len(s)
    BY <1>1, <2>1, <2>2, <2>3
  <2>5. f[a + 1] = EntryCell(cs[i])
    BY <1>1, <2>2, <2>4
  <2>6. \A k \in 1..m : f[a + EntrySize + k] = cs[i].hash[k]
    BY <1>1, <2>2, <2>4
  <2> QED  BY <2>2, <2>4, <2>5, <2>6 DEF m, a, b
<1> QED  BY <1>2, <1>3 DEF EntriesAt

(* A file that starts with another one has its header.                      *)
LEMMA HeadKept ==
  ASSUME NEW h, NEW s, NEW f, NEW at, HeadAt(h, s, at), StartsWith(f, s),
         \A i \in 1..Len(h.comps) : Len(h.comps[i].hash) \in Nat,
         AlignUp(at[Len(h.comps) + 1], Pad) \in Nat, Len(h.auth_data) \in Nat
  PROVE  HeadAt(h, f, at)
<1> DEFINE auth == AlignUp(at[Len(h.comps) + 1], Pad)
           m == Len(h.auth_data)
<1>1. Len(s) \in Nat /\ Len(f) \in Nat /\ Len(s) <= Len(f) /\ \A k \in 1..Len(s) : f[k] = s[k]
  BY SeqShape DEF StartsWith
<1>2. /\ s[1] = HeaderCell(h) /\ Len(s) > 0 /\ EntriesAt(h.comps, s, HdrSize, at)
      /\ auth + m <= Len(s) /\ \A k \in 1..m : s[auth + k] = h.auth_data[k]
  BY DEF HeadAt
<1>3. EntriesAt(h.comps, f, HdrSize, at)
  BY <1>2, EntriesKept
<1>4. auth \in Nat /\ m \in Nat
  OBVIOUS
<1> HIDE DEF auth, m
<1>5. f[1] = HeaderCell(h) /\ Len(f) > 0
  BY <1>1, <1>2
<1>6. auth + m <= Len(f) /\ \A k \in 1..m : auth + k \in 1..Len(s)
  BY <1>1, <1>2, <1>4
<1>7. \A k \in 1..m : f[auth + k] = h.auth_data[k]
  BY <1>1, <1>2, <1>6
<1> QED  BY <1>3, <1>5, <1>6, <1>7 DEF HeadAt, auth, m

(* What is in front of the components is as long as header_size, padded,    *)
(* with the signature behind it.                                            *)
LEMMA LeadShape ==
  ASSUME NEW deep, NEW h, IsHeader(deep, h)
  PROVE  /\ IsSeq(Lead(h)) /\ Fine(deep, Lead(h)) /\ Len(Lead(h)) \in Nat
         /\ Len(Lead(h)) = AlignUp(HdrSize + Len(Entries(h.comps)), Pad) + AuthSize(h.auth)
         /\ \E at : /\ HeadAt(h, Lead(h), at)
                    /\ at[Len(h.comps) + 1] = HdrSize + Len(Entries(h.comps))
<1> DEFINE r == HeaderCells(h)
           n == Len(r)
           p == AlignUp(n, Pad)
           gap == Padding(n)
           auth == h.auth_data
           m == Len(auth)
           s == r \o gap
           t == Lead(h)
<1>1. /\ IsSeq(r) /\ Fine(deep, r) /\ r[1] = HeaderCell(h)
      /\ n = HdrSize + Len(Entries(h.comps))
  BY HeaderCellsShape
<1>2. PICK at : EntriesAt(h.comps, r, HdrSize, at) /\ at[Len(h.comps) + 1] = n
  BY HeaderCellsShape
<1>3. /\ Fine(deep, auth) /\ m = AuthSize(h.auth)
      /\ \A i \in 1..Len(h.comps) : Fine(deep, h.comps[i].hash)
  BY DEF IsHeader, AreComps, IsComp
<1>4. /\ IsSeq(auth) /\ m \in Nat
      /\ \A i \in 1..Len(h.comps) : Len(h.comps[i].hash) \in Nat
  BY <1>3, FineShape
<1>5. HdrSize \in Nat \ {0} /\ Pad \in Nat \ {0} /\ Len(Entries(h.comps)) \in Nat
  <2>1. IsSeq(h.comps)
    BY DEF IsHeader, AreComps
  <2>2. IsSeq(Entries(h.comps))
    BY <1>3, <2>1, EntriesShape
  <2> QED  BY <2>2, Sizes, SeqShape
<1>6. n \in Nat /\ n > 0
  BY <1>1, <1>5
<1>7. p \in Nat /\ n <= p
  BY <1>5, <1>6, Aligned
<1>8. IsSeq(gap) /\ Fine(deep, gap) /\ Len(gap) = p - n
  BY <1>6, PaddingShape
<1>9. t = s \o auth
  BY DEF Lead
<1>10. Fine(deep, s)
  BY <1>1, <1>8, FineCat
<1>11. Fine(deep, s \o auth)
  <2> HIDE DEF s, auth
  <2> QED  BY <1>3, <1>10, FineCat
<1>12. HeadAt(h, t, at) <=>
         /\ t[1] = HeaderCell(h) /\ Len(t) > 0
         /\ EntriesAt(h.comps, t, HdrSize, at)
         /\ p + m <= Len(t)
         /\ \A k \in 1..m : t[p + k] = auth[k]
  BY <1>2 DEF HeadAt
<1> HIDE DEF r, gap, auth, p, t
<1>13. IsSeq(s) /\ Len(s) = p /\ \A k \in 1..n : s[k] = r[k]
  <2>1. IsSeq(s) /\ Len(s) = n + Len(gap) /\ \A k \in 1..n : s[k] = r[k]
    BY <1>1, <1>8, CatShape
  <2> QED  BY <1>6, <1>7, <1>8, <2>1
<1> HIDE DEF s, n, m
<1>14. /\ IsSeq(t) /\ Len(t) = p + m
        /\ \A k \in 1..p : t[k] = s[k]
       /\ \A k \in 1..m : t[p + k] = auth[k]
  <2>1. m = Len(auth)
    BY DEF m
  <2>2. /\ IsSeq(s \o auth) /\ Len(s \o auth) = p + m
        /\ \A k \in 1..p : (s \o auth)[k] = s[k]
        /\ \A k \in 1..m : (s \o auth)[p + k] = auth[k]
    BY <1>4, <1>13, <2>1, CatShape
  <2> QED  BY <1>9, <2>2
<1>15. Len(t) \in Nat /\ Len(t) > 0
  BY <1>4, <1>6, <1>7, <1>14
<1>16. StartsWith(t, r)
  <2>1. Len(r) = n /\ n <= Len(t)
    BY <1>4, <1>6, <1>7, <1>14 DEF n
  <2>2. \A k \in 1..n : t[k] = r[k]
    <3>1. \A k \in 1..n : k \in 1..p
      BY <1>6, <1>7
    <3> QED  BY <1>13, <1>14, <3>1
  <2> QED  BY <1>1, <1>14, <2>1, <2>2 DEF StartsWith
<1>17. EntriesAt(h.comps, t, HdrSize, at)
  BY <1>2, <1>4, <1>16, EntriesKept
<1>18. t[1] = HeaderCell(h)
  <2>1. 1 \in 1..Len(r) /\ t[1] = r[1]
    BY <1>6, <1>16 DEF StartsWith, n
  <2> QED  BY <1>1, <2>1
<1>19. HeadAt(h, t, at)
  BY <1>12, <1>14, <1>15, <1>17, <1>18
<1> QED  BY <1>1, <1>2, <1>3, <1>9, <1>11, <1>14, <1>15, <1>19 DEF t, p, m, auth, n

-----------------------------------------------------------------------------
(* get_data appends the components one after the other. The fold over them *)
(* has a value for each number of components.                              *)

Place(h, cells, c) == FillTo(cells, c.offset + h.data_offset) \o Body(c)

PlaceTo(h, f, m) ==
  f = [T \in SUBSET (1..m) |->
         IF T = {} THEN Lead(h) ELSE Place(h, f[T \ {Max(T)}], h.comps[Max(T)])]

(* The fold of get_data has a value for any number of components.           *)
LEMMA PlaceExists ==
  ASSUME NEW h, NEW n \in Nat
  PROVE  \E f : PlaceTo(h, f, n)
<1> DEFINE S == {m \in Nat : \E f : PlaceTo(h, f, m)}
<1>1. 0 \in S
  <2>1. PlaceTo(h, [T \in SUBSET (1..0) |-> Lead(h)], 0)
    BY DEF PlaceTo
  <2> QED  BY <2>1
<1>2. ASSUME NEW m \in Nat, m \in S
      PROVE  m + 1 \in S
  <2>1. PICK f : PlaceTo(h, f, m)
    BY <1>2
  <2> DEFINE g == [T \in SUBSET (1..(m + 1)) |->
                     IF T \subseteq 1..m THEN f[T]
                     ELSE Place(h, f[T \ {m + 1}], h.comps[m + 1])]
  <2>2. ASSUME NEW T \in SUBSET (1..(m + 1))
        PROVE  g[T] = IF T = {} THEN Lead(h)
                      ELSE Place(h, g[T \ {Max(T)}], h.comps[Max(T)])
    <3>1. CASE T \subseteq 1..m
      <4>1. f[T] = IF T = {} THEN Lead(h) ELSE Place(h, f[T \ {Max(T)}], h.comps[Max(T)])
        BY <2>1, <3>1 DEF PlaceTo
      <4>2. g[T] = f[T] /\ g[T \ {Max(T)}] = f[T \ {Max(T)}]
        BY <3>1
      <4> HIDE DEF g
      <4> QED  BY <4>1, <4>2
    <3>2. CASE ~(T \subseteq 1..m)
      <4>1. m + 1 \in T /\ T \subseteq Nat /\ \A k \in T : k <= m + 1
        BY <3>2
      <4>2. Max(T) = m + 1
        BY <4>1, MaxOf
      <4>3. g[T] = Place(h, f[T \ {m + 1}], h.comps[m + 1])
        BY <3>2
      <4>4. T \ {m + 1} \in SUBSET (1..m)
        OBVIOUS
      <4>5. g[T \ {m + 1}] = f[T \ {m + 1}]
        BY <4>4
      <4>6. T # {}
        BY <4>1
      <4> HIDE DEF g
      <4> QED  BY <4>2, <4>3, <4>5, <4>6
    <3> QED  BY <3>1, <3>2
  <2>3. g = [T \in SUBSET (1..(m + 1)) |->
               IF T = {} THEN Lead(h) ELSE Place(h, g[T \ {Max(T)}], h.comps[Max(T)])]
    BY <2>2
  <2> HIDE DEF g
  <2>4. PlaceTo(h, g, m + 1)
    BY <2>3 DEF PlaceTo
  <2> QED  BY <2>4
<1> HIDE DEF S
<1>3. n \in S
  BY <1>1, <1>2, SetInduction
<1> QED  BY <1>3 DEF S

(* get_data step by step: each component is placed behind the ones before.  *)
LEMMA GetDataUnfolds ==
  ASSUME NEW h, IsSeq(h.comps)
  PROVE  \E g : /\ g[0] = Lead(h)
                /\ \A m \in 1..Len(h.comps) : g[m] = Place(h, g[m - 1], h.comps[m])
                /\ GetData(h) = FillTo(g[Len(h.comps)], h.data_offset + h.data_size)
<1> DEFINE n == Len(h.comps)
<1>1. n \in Nat /\ DOMAIN h.comps = 1..n
  BY SeqShape
<1> DEFINE F == CHOOSE f : f = [T \in SUBSET (1..n) |->
                  IF T = {} THEN Lead(h) ELSE Place(h, f[T \ {Max(T)}], h.comps[Max(T)])]
<1>2. F = [T \in SUBSET (1..n) |->
             IF T = {} THEN Lead(h) ELSE Place(h, F[T \ {Max(T)}], h.comps[Max(T)])]
  <2>1. \E f : f = [T \in SUBSET (1..n) |->
             IF T = {} THEN Lead(h) ELSE Place(h, f[T \ {Max(T)}], h.comps[Max(T)])]
    BY <1>1, PlaceExists DEF PlaceTo
  <2> QED  BY <2>1
<1>3. GetData(h) = FillTo(F[1..n], h.data_offset + h.data_size)
  BY <1>1, Zenon DEF GetData, FoldLeft, MapThenFoldSet, Lead, Place
<1> HIDE DEF F
<1> DEFINE g == [m \in 0..n |-> F[1..m]]
<1>4. g[0] = Lead(h)
  <2>1. 1..0 = {} /\ {} \in SUBSET (1..n)
    OBVIOUS
  <2>2. F[{}] = Lead(h)
    BY <1>2, <2>1
  <2> QED  BY <1>1, <2>1, <2>2
<1>5. ASSUME NEW m \in 1..n
      PROVE  g[m] = Place(h, g[m - 1], h.comps[m])
  <2>1. m - 1 \in Nat /\ (m - 1) + 1 = m
    BY <1>1
  <2>2. Max(1..m) = m /\ (1..m) \ {m} = 1..(m - 1)
    BY <2>1, MaxOfFirst
  <2>3. 1..m \in SUBSET (1..n) /\ 1..m # {}
    BY <1>1
  <2>4. F[1..m] = Place(h, F[1..(m - 1)], h.comps[m])
    BY <1>2, <2>2, <2>3
  <2>5. g[m] = F[1..m] /\ g[m - 1] = F[1..(m - 1)]
    BY <1>1
  <2> HIDE DEF g
  <2> QED  BY <2>4, <2>5
<1>6. g[n] = F[1..n]
  BY <1>1
<1> HIDE DEF g
<1> QED  BY <1>3, <1>4, <1>5, <1>6

(* A component behind what is there, with the gap in front of it filled.   *)
Appended(deep, h, s, c) ==
  LET r  == Place(h, s, c)
      at == IF c.offset + h.data_offset > Len(s) THEN c.offset + h.data_offset ELSE Len(s)
  IN  /\ IsSeq(r) /\ Fine(deep, r) /\ Len(r) = at + Len(Body(c))
      /\ at \in Nat /\ Len(Body(c)) \in Nat
      /\ \A k \in 1..Len(s) : r[k] = s[k]
      /\ \A k \in 1..at : k > Len(s) => r[k] = FF
      /\ \A k \in 1..Len(Body(c)) : r[at + k] = Body(c)[k]

(* What one component adds to the file.                                     *)
LEMMA PlaceShape ==
  ASSUME NEW deep, NEW h, NEW s, NEW c, Fine(deep, s), IsComp(deep, c),
         h.data_offset \in Nat
  PROVE  Appended(deep, h, s, c)
<1> DEFINE r == Place(h, s, c)
           to == c.offset + h.data_offset
           at == IF to > Len(s) THEN to ELSE Len(s)
           t == FillTo(s, to)
           b == Body(c)
<1>1. to \in Nat /\ to \in Int
  BY DEF IsComp
<1>2. Fine(deep, c.data) /\ Fine(deep, c.auth_data)
  BY DEF IsComp
<1>3. IsSeq(b) /\ Fine(deep, b)
  BY <1>2, BodyShape
<1>4. Len(b) \in Nat /\ Len(s) \in Nat
  BY <1>3, FineShape
<1>5. r = t \o b
  BY DEF Place
<1> HIDE DEF to, b
<1>6. /\ IsSeq(t) /\ Fine(deep, t) /\ Len(t) = at
      /\ \A k \in 1..Len(s) : t[k] = s[k]
      /\ \A k \in 1..Len(t) : k > Len(s) => t[k] = FF
  BY <1>1, FillToShape
<1>7. at \in Nat /\ Len(s) <= at
  BY <1>1, <1>4
<1> HIDE DEF t, at, r
<1>8. Fine(deep, t \o b)
  BY <1>3, <1>6, FineCat
<1>9. /\ IsSeq(r) /\ Len(r) = at + Len(b) /\ Fine(deep, r)
      /\ \A k \in 1..at : r[k] = t[k]
      /\ \A k \in 1..Len(b) : r[at + k] = b[k]
  <2>1. /\ IsSeq(t \o b) /\ Len(t \o b) = at + Len(b)
        /\ \A k \in 1..at : (t \o b)[k] = t[k]
        /\ \A k \in 1..Len(b) : (t \o b)[at + k] = b[k]
    BY <1>3, <1>6, CatShape
  <2> QED  BY <1>5, <1>8, <2>1
<1>10. \A k \in 1..Len(s) : k \in 1..at
  BY <1>4, <1>7
<1>11. \A k \in 1..Len(s) : r[k] = s[k]
  BY <1>6, <1>9, <1>10
<1>12. \A k \in 1..at : k > Len(s) => r[k] = FF
  BY <1>6, <1>9
<1> QED  BY <1>4, <1>7, <1>9, <1>11, <1>12 DEF r, at, to, b, Appended

(* The front stays in front, whatever is appended.                         *)
LEMMA FileStarts ==
  ASSUME NEW deep, NEW h, IsHeader(deep, h)
  PROVE  Fine(deep, GetData(h)) /\ IsSeq(GetData(h)) /\ StartsWith(GetData(h), Lead(h))
<1> DEFINE n == Len(h.comps)
           to == h.data_offset + h.data_size
           s == Lead(h)
<1>1. /\ IsSeq(h.comps) /\ n \in Nat /\ h.data_offset \in Nat /\ to \in Int
      /\ \A i \in 1..n : IsComp(deep, h.comps[i])
  BY SeqShape DEF IsHeader, AreComps
<1>2. PICK g : /\ g[0] = s
               /\ \A m \in 1..n : g[m] = Place(h, g[m - 1], h.comps[m])
               /\ GetData(h) = FillTo(g[n], to)
  BY <1>1, GetDataUnfolds
<1>3. IsSeq(s) /\ Fine(deep, s) /\ Len(s) \in Nat
  BY LeadShape
<1> HIDE DEF n, to, s
<1> DEFINE S == {m \in Nat : m <= n => Fine(deep, g[m]) /\ StartsWith(g[m], s)}
<1>4. 0 \in S
  BY <1>2, <1>3 DEF StartsWith
<1>5. ASSUME NEW m \in Nat, m \in S
      PROVE  m + 1 \in S
  <2> SUFFICES ASSUME m + 1 <= n
               PROVE  Fine(deep, g[m + 1]) /\ StartsWith(g[m + 1], s)
    OBVIOUS
  <2>1. Fine(deep, g[m]) /\ StartsWith(g[m], s)
    BY <1>1, <1>5
  <2>2. m + 1 \in 1..n /\ (m + 1) - 1 = m
    BY <1>1
  <2>3. g[m + 1] = Place(h, g[m], h.comps[m + 1]) /\ IsComp(deep, h.comps[m + 1])
    BY <1>1, <1>2, <2>2
  <2> DEFINE r == Place(h, g[m], h.comps[m + 1])
  <2>4. /\ IsSeq(r) /\ Fine(deep, r) /\ Len(g[m]) <= Len(r)
        /\ \A k \in 1..Len(g[m]) : r[k] = g[m][k]
    <3> DEFINE c == h.comps[m + 1]
               at == IF c.offset + h.data_offset > Len(g[m]) THEN c.offset + h.data_offset
                     ELSE Len(g[m])
    <3>1. /\ IsSeq(r) /\ Fine(deep, r) /\ Len(r) = at + Len(Body(c))
          /\ at \in Nat /\ Len(Body(c)) \in Nat
          /\ \A k \in 1..Len(g[m]) : r[k] = g[m][k]
      <4>1. Fine(deep, g[m]) /\ IsComp(deep, c) /\ h.data_offset \in Nat
        BY <1>1, <2>1, <2>3
      <4>2. Appended(deep, h, g[m], c)
        BY <4>1, PlaceShape
      <4> QED  BY <4>2 DEF Appended
    <3>2. Len(g[m]) \in Nat /\ c.offset + h.data_offset \in Nat
      BY <1>1, <2>1, <2>3, FineShape DEF IsComp
    <3>3. Len(g[m]) <= at
      BY <3>2
    <3> HIDE DEF at, r, c
    <3> QED  BY <3>1, <3>2, <3>3
  <2> HIDE DEF r
  <2>5. StartsWith(r, s)
    <3>1. IsSeq(g[m]) /\ Len(g[m]) \in Nat /\ Len(r) \in Nat
      BY <2>1, <2>4, FineShape
    <3>2. Len(s) <= Len(g[m]) /\ \A k \in 1..Len(s) : g[m][k] = s[k]
      BY <2>1 DEF StartsWith
    <3>3. Len(s) <= Len(r) /\ \A k \in 1..Len(s) : k \in 1..Len(g[m])
      BY <1>3, <2>4, <3>1, <3>2
    <3>4. \A k \in 1..Len(s) : r[k] = s[k]
      BY <2>4, <3>2, <3>3
    <3> QED  BY <1>3, <2>4, <3>3, <3>4 DEF StartsWith
  <2> QED  BY <2>3, <2>4, <2>5 DEF r
<1>6. Fine(deep, g[n]) /\ StartsWith(g[n], s)
  <2> HIDE DEF S
  <2>1. \A m \in Nat : m \in S
    BY <1>4, <1>5, SetInduction
  <2> QED  BY <1>1, <2>1 DEF S
<1> DEFINE r == FillTo(g[n], to)
           t == g[n]
<1>7. /\ IsSeq(r) /\ Fine(deep, r) /\ Len(r) = IF to > Len(t) THEN to ELSE Len(t)
      /\ \A k \in 1..Len(t) : r[k] = t[k]
  BY <1>1, <1>6, FillToShape
<1> HIDE DEF r, t
<1>8. Len(t) \in Nat /\ Len(s) <= Len(t) /\ \A k \in 1..Len(s) : t[k] = s[k]
  BY <1>6, FineShape DEF StartsWith, t
<1>9. Len(s) <= Len(r) /\ \A k \in 1..Len(s) : k \in 1..Len(t)
  BY <1>1, <1>3, <1>7, <1>8
<1>10. \A k \in 1..Len(s) : r[k] = s[k]
  BY <1>7, <1>8, <1>9
<1>11. StartsWith(r, s)
  BY <1>3, <1>7, <1>9, <1>10 DEF StartsWith
<1> QED  BY <1>2, <1>7, <1>11 DEF r, s

(* The first m components in their places, and nothing else behind the     *)
(* front.                                                                  *)
From(h, i) == h.data_offset + h.comps[i].offset
Laid(h, m, f) ==
  /\ StartsWith(f, Lead(h))
  /\ \A i \in 1..m : /\ From(h, i) + Len(Body(h.comps[i])) <= Len(f)
                     /\ \A k \in 1..Len(Body(h.comps[i])) : f[From(h, i) + k] = Body(h.comps[i])[k]
  /\ \A p \in 1..Len(f) :
       \/ p <= Len(Lead(h)) \/ f[p] = FF
       \/ \E i \in 1..m : From(h, i) < p /\ p <= From(h, i) + Len(Body(h.comps[i]))

(* One more component is laid where its entry says, if the file does not    *)
(* reach there yet.                                                         *)
LEMMA LaidOneMore ==
  ASSUME NEW deep, NEW h, IsHeader(deep, h), Roomy(h), NEW m \in Nat,
         m + 1 <= Len(h.comps), NEW f, Fine(deep, f), Laid(h, m, f),
         Len(f) <= From(h, m + 1)
  PROVE  LET r == Place(h, f, h.comps[m + 1])
         IN  /\ Fine(deep, r) /\ Laid(h, m + 1, r)
             /\ Len(r) = From(h, m + 1) + Len(Body(h.comps[m + 1]))
<1> DEFINE n == Len(h.comps)
           c == h.comps[m + 1]
           b == Body(c)
           at == From(h, m + 1)
           s == Lead(h)
           r == Place(h, f, c)
<1>1. /\ IsSeq(h.comps) /\ n \in Nat /\ h.data_offset \in Nat
      /\ \A i \in 1..n : IsComp(deep, h.comps[i])
  BY SeqShape DEF IsHeader, AreComps
<1>2. m + 1 \in 1..n
  BY <1>1
<1>3. IsComp(deep, c)
  BY <1>1, <1>2
<1>4. Len(f) \in Nat /\ IsSeq(f)
  BY FineShape
<1>5. c.offset + h.data_offset = at /\ at \in Nat
  BY <1>1, <1>3 DEF From, IsComp
<1>6. /\ IsSeq(r) /\ Fine(deep, r) /\ Len(r) = at + Len(b) /\ Len(b) \in Nat
      /\ \A k \in 1..Len(f) : r[k] = f[k]
      /\ \A k \in 1..at : k > Len(f) => r[k] = FF
      /\ \A k \in 1..Len(b) : r[at + k] = b[k]
  <2> DEFINE to == IF c.offset + h.data_offset > Len(f) THEN c.offset + h.data_offset
                   ELSE Len(f)
  <2>1. to = at
    BY <1>4, <1>5
  <2>2. /\ IsSeq(r) /\ Fine(deep, r) /\ Len(r) = to + Len(b) /\ Len(b) \in Nat
        /\ \A k \in 1..Len(f) : r[k] = f[k]
        /\ \A k \in 1..to : k > Len(f) => r[k] = FF
        /\ \A k \in 1..Len(b) : r[to + k] = b[k]
    <3>1. IsComp(deep, c) /\ h.data_offset \in Nat
      BY <1>1, <1>3
    <3>2. Appended(deep, h, f, c)
      BY <3>1, PlaceShape
    <3> QED  BY <3>2 DEF Appended
  <2> HIDE DEF to, r, b, at
  <2> QED  BY <2>1, <2>2
<1> HIDE DEF r, at
<1>7. Len(r) \in Nat /\ Len(f) <= Len(r)
  BY <1>4, <1>5, <1>6 DEF at
<1>8. StartsWith(r, s)
  <2>1. IsSeq(s) /\ Len(s) \in Nat /\ Len(s) <= Len(f) /\ \A k \in 1..Len(s) : f[k] = s[k]
    BY SeqShape DEF Laid, StartsWith
  <2> HIDE DEF s
  <2>2. Len(s) <= Len(r) /\ \A k \in 1..Len(s) : k \in 1..Len(f)
    BY <1>4, <1>7, <2>1
  <2>3. \A k \in 1..Len(s) : r[k] = s[k]
    BY <1>6, <2>1, <2>2
  <2> QED  BY <1>6, <2>1, <2>2, <2>3 DEF StartsWith
<1>9. ASSUME NEW i \in 1..(m + 1)
      PROVE  /\ From(h, i) + Len(Body(h.comps[i])) <= Len(r)
             /\ \A k \in 1..Len(Body(h.comps[i])) : r[From(h, i) + k] = Body(h.comps[i])[k]
  <2>1. CASE i = m + 1
    BY <1>6, <2>1 DEF at
  <2>2. CASE i # m + 1
    <3> DEFINE d == Body(h.comps[i])
               from == From(h, i)
    <3>1. i \in 1..m /\ i \in 1..n
      BY <1>1, <2>2
    <3>2. from + Len(d) <= Len(f) /\ \A k \in 1..Len(d) : f[from + k] = d[k]
      BY <3>1 DEF Laid
    <3>3. IsComp(deep, h.comps[i])
      BY <1>1, <3>1
    <3>4. from \in Nat
      BY <1>1, <3>3 DEF From, IsComp
    <3>5. Len(d) \in Nat
      BY <3>3, BodyShape, SeqShape DEF IsComp
    <3> HIDE DEF d, from
    <3>6. from + Len(d) <= Len(r) /\ \A k \in 1..Len(d) : from + k \in 1..Len(f)
      BY <1>4, <1>7, <3>2, <3>4, <3>5
    <3>7. \A k \in 1..Len(d) : r[from + k] = d[k]
      BY <1>6, <3>2, <3>6
    <3> QED  BY <3>6, <3>7 DEF d, from
  <2> QED  BY <2>1, <2>2
<1>10. ASSUME NEW p \in 1..Len(r)
       PROVE  \/ p <= Len(s) \/ r[p] = FF
              \/ \E i \in 1..(m + 1) : From(h, i) < p /\ p <= From(h, i) + Len(Body(h.comps[i]))
  <2>1. CASE p <= Len(f)
    <3>1. p \in 1..Len(f) /\ r[p] = f[p]
      BY <1>4, <1>6, <2>1
    <3>2. \/ p <= Len(s) \/ f[p] = FF
          \/ \E i \in 1..m : From(h, i) < p /\ p <= From(h, i) + Len(Body(h.comps[i]))
      BY <3>1 DEF Laid
    <3> QED  BY <3>1, <3>2
  <2>2. CASE p > Len(f) /\ p <= at
    <3>1. p \in 1..at
      BY <1>5, <2>2 DEF at
    <3> QED  BY <1>6, <2>2, <3>1
  <2>3. CASE p > at
    <3>1. at < p /\ p <= at + Len(b)
      BY <1>6, <2>3
    <3>2. m + 1 \in 1..(m + 1)
      OBVIOUS
    <3> QED  BY <3>1, <3>2 DEF at
  <2> QED  BY <1>4, <1>5, <2>1, <2>2, <2>3 DEF at
<1>11. Laid(h, m + 1, r)
  BY <1>8, <1>9, <1>10 DEF Laid
<1> QED  BY <1>6, <1>11 DEF r, at

(* Filling up the end leaves the components where they are.                 *)
LEMMA LaidFilled ==
  ASSUME NEW deep, NEW h, NEW m, NEW f, NEW n \in Int, Fine(deep, f), Laid(h, m, f),
         \A i \in 1..m : From(h, i) \in Nat /\ Len(Body(h.comps[i])) \in Nat
  PROVE  Laid(h, m, FillTo(f, n))
<1> DEFINE r == FillTo(f, n)
           s == Lead(h)
<1>1. /\ IsSeq(r) /\ Len(r) = IF n > Len(f) THEN n ELSE Len(f)
      /\ \A k \in 1..Len(f) : r[k] = f[k]
      /\ \A k \in 1..Len(r) : k > Len(f) => r[k] = FF
  BY FillToShape
<1> HIDE DEF r
<1>2. Len(f) \in Nat /\ IsSeq(f)
  BY FineShape
<1>3. Len(f) <= Len(r) /\ Len(r) \in Nat
  BY <1>1, <1>2
<1>4. StartsWith(r, s)
  <2>1. IsSeq(s) /\ Len(s) \in Nat /\ Len(s) <= Len(f) /\ \A k \in 1..Len(s) : f[k] = s[k]
    BY SeqShape DEF Laid, StartsWith
  <2> HIDE DEF s
  <2>2. Len(s) <= Len(r) /\ \A k \in 1..Len(s) : k \in 1..Len(f)
    BY <1>2, <1>3, <2>1
  <2>3. \A k \in 1..Len(s) : r[k] = s[k]
    BY <1>1, <2>1, <2>2
  <2> QED  BY <1>1, <2>1, <2>2, <2>3 DEF StartsWith
<1>5. ASSUME NEW i \in 1..m
      PROVE  /\ From(h, i) + Len(Body(h.comps[i])) <= Len(r)
             /\ \A k \in 1..Len(Body(h.comps[i])) : r[From(h, i) + k] = Body(h.comps[i])[k]
  <2> DEFINE d == Body(h.comps[i])
             from == From(h, i)
  <2>1. from + Len(d) <= Len(f) /\ \A k \in 1..Len(d) : f[from + k] = d[k]
    BY DEF Laid
  <2>2. from \in Nat /\ Len(d) \in Nat
    OBVIOUS
  <2> HIDE DEF d, from
  <2>3. from + Len(d) <= Len(r) /\ \A k \in 1..Len(d) : from + k \in 1..Len(f)
    BY <1>2, <1>3, <2>1, <2>2
  <2>4. \A k \in 1..Len(d) : r[from + k] = d[k]
    BY <1>1, <2>1, <2>3
  <2> QED  BY <2>3, <2>4 DEF d, from
<1>6. ASSUME NEW p \in 1..Len(r)
      PROVE  \/ p <= Len(s) \/ r[p] = FF
             \/ \E i \in 1..m : From(h, i) < p /\ p <= From(h, i) + Len(Body(h.comps[i]))
  <2>1. CASE p <= Len(f)
    <3>1. p \in 1..Len(f) /\ r[p] = f[p]
      BY <1>1, <1>2, <2>1
    <3>2. \/ p <= Len(s) \/ f[p] = FF
          \/ \E i \in 1..m : From(h, i) < p /\ p <= From(h, i) + Len(Body(h.comps[i]))
      BY <3>1 DEF Laid
    <3> QED  BY <3>1, <3>2
  <2>2. CASE p > Len(f)
    BY <1>1, <2>2
  <2> QED  BY <1>2, <2>1, <2>2
<1>7. Laid(h, m, r)
  BY <1>4, <1>5, <1>6 DEF Laid
<1> QED  BY <1>7 DEF r

(* The whole file, when there is room for everything.                      *)
LEMMA FileLaid ==
  ASSUME NEW deep, NEW h, IsHeader(deep, h), Roomy(h)
  PROVE  /\ Laid(h, Len(h.comps), GetData(h))
         /\ Len(GetData(h)) = h.data_offset + h.data_size
<1> DEFINE n == Len(h.comps)
           to == h.data_offset + h.data_size
           s == Lead(h)
<1>1. /\ IsSeq(h.comps) /\ n \in Nat /\ DOMAIN h.comps = 1..n
      /\ h.data_offset \in Nat /\ h.data_size \in Nat /\ to \in Nat
      /\ \A i \in 1..n : IsComp(deep, h.comps[i])
  BY SeqShape DEF IsHeader, AreComps
<1>2. PICK g : /\ g[0] = s
               /\ \A m \in 1..n : g[m] = Place(h, g[m - 1], h.comps[m])
               /\ GetData(h) = FillTo(g[n], to)
  BY <1>1, GetDataUnfolds
<1>3. IsSeq(s) /\ Fine(deep, s) /\ Len(s) \in Nat
  BY LeadShape
<1>4. ASSUME NEW i \in 1..n
      PROVE  /\ From(h, i) \in Nat /\ Len(Body(h.comps[i])) \in Nat
             /\ h.data_offset <= From(h, i)
             /\ From(h, i) + Len(Body(h.comps[i])) <= to
             /\ i + 1 <= n => From(h, i) + Len(Body(h.comps[i])) <= From(h, i + 1)
  <2> DEFINE b == Len(Body(h.comps[i]))
             c == h.comps[i]
             d == h.comps[i + 1]
  <2>1. c.offset \in Nat /\ c.size \in Nat
    BY <1>1 DEF IsComp
  <2>2. b \in Nat
    BY <1>1, BodyShape, SeqShape DEF IsComp
  <2>3. b <= c.size /\ c.offset + c.size <= h.data_size
    BY <1>1 DEF Roomy, FitsRegions
  <2>4. i + 1 <= n => d.offset \in Nat /\ c.offset + c.size <= d.offset
    <3>1. i + 1 <= n => i + 1 \in 1..n /\ i < i + 1
      BY <1>1
    <3> QED  BY <1>1, <3>1 DEF Roomy, Apart, IsComp
  <2> HIDE DEF b
  <2>5. From(h, i) = h.data_offset + c.offset /\ From(h, i + 1) = h.data_offset + d.offset
    BY DEF From
  <2> HIDE DEF c, d
  <2>6. /\ From(h, i) \in Nat /\ h.data_offset <= From(h, i) /\ From(h, i) + b <= to
        /\ i + 1 <= n => From(h, i) + b <= From(h, i + 1)
    BY <1>1, <2>1, <2>2, <2>3, <2>4, <2>5
  <2> QED  BY <2>2, <2>6 DEF b, c
<1>5. Len(s) <= h.data_offset
  BY DEF Roomy
<1> HIDE DEF n, to, s
<1> DEFINE S == {m \in Nat : m <= n => /\ Fine(deep, g[m]) /\ Laid(h, m, g[m])
                                       /\ Len(g[m]) <= to
                                       /\ m + 1 <= n => Len(g[m]) <= From(h, m + 1)}
<1>6. 0 \in S
  <2>1. Laid(h, 0, s)
    <3>1. StartsWith(s, Lead(h))
      BY <1>3 DEF StartsWith, s
    <3>2. \A p \in 1..Len(s) : p <= Len(Lead(h))
      BY <1>3 DEF s
    <3> QED  BY <3>1, <3>2 DEF Laid
  <2>2. Len(s) <= to
    BY <1>1, <1>3, <1>5 DEF to
  <2>3. 0 + 1 <= n => Len(s) <= From(h, 0 + 1)
    <3>1. 0 + 1 <= n => 0 + 1 \in 1..n
      BY <1>1
    <3> QED  BY <1>1, <1>3, <1>4, <1>5, <3>1
  <2> QED  BY <1>2, <1>3, <2>1, <2>2, <2>3
<1>7. ASSUME NEW m \in Nat, m \in S
      PROVE  m + 1 \in S
  <2> SUFFICES ASSUME m + 1 <= n
               PROVE  /\ Fine(deep, g[m + 1]) /\ Laid(h, m + 1, g[m + 1])
                      /\ Len(g[m + 1]) <= to
                      /\ (m + 1) + 1 <= n => Len(g[m + 1]) <= From(h, (m + 1) + 1)
    OBVIOUS
  <2>1. Fine(deep, g[m]) /\ Laid(h, m, g[m]) /\ Len(g[m]) <= From(h, m + 1)
    BY <1>1, <1>7
  <2>2. m + 1 \in 1..n /\ (m + 1) - 1 = m
    BY <1>1
  <2>3. g[m + 1] = Place(h, g[m], h.comps[m + 1])
    BY <1>2, <2>2
  <2> HIDE DEF S
  <2>4. /\ Fine(deep, g[m + 1]) /\ Laid(h, m + 1, g[m + 1])
        /\ Len(g[m + 1]) = From(h, m + 1) + Len(Body(h.comps[m + 1]))
    <3>1. m + 1 <= Len(h.comps)
      BY DEF n
    <3> HIDE DEF S
    <3>2. /\ Fine(deep, Place(h, g[m], h.comps[m + 1]))
          /\ Laid(h, m + 1, Place(h, g[m], h.comps[m + 1]))
          /\ Len(Place(h, g[m], h.comps[m + 1])) = From(h, m + 1) + Len(Body(h.comps[m + 1]))
      BY <2>1, <3>1, LaidOneMore
    <3> QED  BY <2>3, <3>2
  <2> QED  BY <1>4, <2>2, <2>4
<1>8. Fine(deep, g[n]) /\ Laid(h, n, g[n]) /\ Len(g[n]) <= to
  <2> HIDE DEF S
  <2>1. \A m \in Nat : m \in S
    BY <1>6, <1>7, SetInduction
  <2> QED  BY <1>1, <2>1 DEF S
<1>9. to \in Int
  BY <1>1
<1>10. Laid(h, n, FillTo(g[n], to))
  BY <1>4, <1>8, <1>9, LaidFilled
<1>11. Len(FillTo(g[n], to)) = to
  <2>1. Len(FillTo(g[n], to)) = IF to > Len(g[n]) THEN to ELSE Len(g[n])
    BY <1>8, <1>9, FillToShape
  <2>2. Len(g[n]) \in Nat
    BY <1>8, FineShape
  <2> QED  BY <1>1, <1>8, <2>1, <2>2
<1> QED  BY <1>2, <1>10, <1>11 DEF n, to

(* Two files agree where the same bodies lie.                              *)
InBody(h, i, p) == From(h, i) < p /\ p <= From(h, i) + Len(Body(h.comps[i]))
SameBodies(h, g, n, p) ==
  \A i \in 1..n :
    /\ From(h, i) \in Nat /\ Len(Body(h.comps[i])) \in Nat
    /\ From(g, i) \in Nat /\ Len(Body(g.comps[i])) \in Nat
    /\ InBody(h, i, p) \/ InBody(g, i, p) =>
         From(h, i) = From(g, i) /\ Body(h.comps[i]) = Body(g.comps[i])
BothLaid(h, g, n, f, e, p) ==
  /\ Laid(h, n, f) /\ Laid(g, n, e) /\ SameBodies(h, g, n, p)
  /\ p \in 1..Len(f) /\ p \in 1..Len(e)
  /\ ~(p <= Len(Lead(h))) /\ ~(p <= Len(Lead(g)))

(* At a place where no body lies in either file, or the same body in both,  *)
(* the files agree.                                                         *)
LEMMA LaidAgree ==
  ASSUME NEW h, NEW g, NEW n, NEW f, NEW e, NEW p, BothLaid(h, g, n, f, e, p)
  PROVE  f[p] = e[p]
<1> SUFFICES ASSUME Laid(h, n, f), Laid(g, n, e), SameBodies(h, g, n, p),
                    p \in 1..Len(f), p \in 1..Len(e),
                    ~(p <= Len(Lead(h))), ~(p <= Len(Lead(g)))
             PROVE  f[p] = e[p]
  BY DEF BothLaid
<1>0. \A i \in 1..n :
        /\ From(h, i) \in Nat /\ Len(Body(h.comps[i])) \in Nat
        /\ From(g, i) \in Nat /\ Len(Body(g.comps[i])) \in Nat
        /\ InBody(h, i, p) \/ InBody(g, i, p) =>
             From(h, i) = From(g, i) /\ Body(h.comps[i]) = Body(g.comps[i])
  BY DEF SameBodies
<1>1. CASE \E i \in 1..n : InBody(h, i, p) \/ InBody(g, i, p)
  <2>1. PICK i \in 1..n : InBody(h, i, p) \/ InBody(g, i, p)
    BY <1>1
  <2> DEFINE b == Body(h.comps[i])
             from == From(h, i)
  <2>2. From(g, i) = from /\ Body(g.comps[i]) = b
    BY <1>0, <2>1
  <2>3. /\ \A k \in 1..Len(b) : f[from + k] = b[k]
        /\ \A k \in 1..Len(b) : e[from + k] = b[k]
    BY <2>2, Zenon DEF Laid
  <2>4. from < p /\ p <= from + Len(b) /\ from \in Nat /\ Len(b) \in Nat
    BY <1>0, <2>1, <2>2 DEF InBody
  <2> HIDE DEF b, from
  <2>5. p - from \in 1..Len(b) /\ from + (p - from) = p
    BY <2>4
  <2> QED  BY <2>3, <2>5
<1>2. CASE ~ \E i \in 1..n : InBody(h, i, p) \/ InBody(g, i, p)
  <2>1. f[p] = FF
    BY <1>2 DEF Laid, InBody
  <2>2. e[p] = FF
    BY <1>2 DEF Laid, InBody
  <2> QED  BY <2>1, <2>2
<1> QED  BY <1>1, <1>2

-----------------------------------------------------------------------------
(* What CONTAINER_HDR reads: its walk over the entries has one outcome.    *)

EntryWalk(f, at) ==
  at = [i \in 1..(f[1][6] + 1) |->
          IF i = 1 THEN HdrSize ELSE at[i - 1] + EntrySize + f[at[i - 1] + 1][8]]

ReadComp(f, at, i) ==
  LET e     == f[at[i] + 1]
      start == e[3] + f[1][4]
      len   == LzSize + CompressedLen(Slice(f, start, start + LzSize))
      auth  == AlignUp(start + len, Pad)
  IN  [name |-> e[2], offset |-> e[3], size |-> e[4], reserved |-> e[5],
       alignment |-> e[6], auth |-> e[7],
       hash |-> Slice(f, at[i] + EntrySize, at[i] + EntrySize + e[8]),
       data |-> Slice(f, start, start + len),
       auth_data |-> Slice(f, auth, auth + AuthSize(e[7]))]

ReadAuth(f, at) ==
  LET auth == AlignUp(at[f[1][6] + 1], Pad)
  IN  Slice(f, auth, auth + AuthSize(f[1][2]))

(* CONTAINER_HDR: what its walk over the entries finds is one function, and *)
(* the header is read with it.                                              *)
LEMMA ParseUnfolds ==
  ASSUME NEW f, NEW walk, EntryWalk(f, walk)
  PROVE  \E at : /\ EntryWalk(f, at)
                 /\ Parse(f) = [auth |-> f[1][2], mono |-> f[1][3],
                                data_offset |-> f[1][4], data_size |-> f[1][5],
                                alignment |-> IF f[1][6] = 0 THEN DefaultAlignment
                                              ELSE f[at[1] + 1][6],
                                auth_data |-> ReadAuth(f, at),
                                comps |-> [i \in 1..f[1][6] |-> ReadComp(f, at, i)]]
<1> DEFINE A == CHOOSE at : at = [i \in 1..(f[1][6] + 1) |->
                  IF i = 1 THEN HdrSize ELSE at[i - 1] + EntrySize + f[at[i - 1] + 1][8]]
<1>1. EntryWalk(f, A)
  <2>1. \E at : at = [i \in 1..(f[1][6] + 1) |->
                  IF i = 1 THEN HdrSize ELSE at[i - 1] + EntrySize + f[at[i - 1] + 1][8]]
    BY DEF EntryWalk
  <2> QED  BY <2>1 DEF EntryWalk
<1>2. Parse(f) = [auth |-> f[1][2], mono |-> f[1][3],
                  data_offset |-> f[1][4], data_size |-> f[1][5],
                  alignment |-> IF f[1][6] = 0 THEN DefaultAlignment
                                ELSE f[A[1] + 1][6],
                  auth_data |-> ReadAuth(f, A),
                  comps |-> [i \in 1..f[1][6] |-> ReadComp(f, A, i)]]
  BY Zenon DEF Parse, ReadComp, ReadAuth
<1> HIDE DEF A
<1> QED  BY <1>1, <1>2

(* A file with the header of h at its begin: the walk finds the entries.   *)
LEMMA WalkFinds ==
  ASSUME NEW h, NEW f, NEW at, HeadAt(h, f, at), IsSeq(h.comps),
         \A i \in 1..Len(h.comps) : Len(h.comps[i].hash) \in Nat
  PROVE  /\ f[1][6] = Len(h.comps) /\ EntryWalk(f, at)
         /\ \A a : EntryWalk(f, a) => \A i \in 1..(Len(h.comps) + 1) : a[i] = at[i]
<1> DEFINE n == Len(h.comps)
<1>1. n \in Nat
  BY SeqShape
<1>2. f[1][6] = n
  BY DEF HeadAt, HeaderCell
<1>3. /\ at \in [1..(n + 1) -> Nat] /\ at[1] = HdrSize
      /\ \A i \in 1..n : /\ at[i + 1] = at[i] + EntrySize + Len(h.comps[i].hash)
                         /\ f[at[i] + 1] = EntryCell(h.comps[i])
  BY DEF HeadAt, EntriesAt
<1>4. ASSUME NEW i \in 1..n
      PROVE  f[at[i] + 1][8] = Len(h.comps[i].hash)
  <2>1. f[at[i] + 1] = EntryCell(h.comps[i])
    BY <1>3
  <2>2. EntryCell(h.comps[i])[8] = Len(h.comps[i].hash)
    BY DEF EntryCell
  <2> QED  BY <2>1, <2>2
<1> HIDE DEF n
<1>5. \A i \in 1..n : at[i + 1] = at[i] + EntrySize + f[at[i] + 1][8]
  BY <1>3, <1>4
<1>6. ASSUME NEW i \in 1..(n + 1), i # 1
      PROVE  at[i] = at[i - 1] + EntrySize + f[at[i - 1] + 1][8]
  <2>1. i - 1 \in 1..n /\ (i - 1) + 1 = i
    BY <1>1, <1>6
  <2> QED  BY <1>5, <2>1
<1>7. EntryWalk(f, at)
  <2>1. at = [i \in 1..(n + 1) |-> at[i]]
    BY <1>3
  <2>2. \A i \in 1..(n + 1) :
          at[i] = IF i = 1 THEN HdrSize ELSE at[i - 1] + EntrySize + f[at[i - 1] + 1][8]
    BY <1>3, <1>6
  <2>3. at = [i \in 1..(n + 1) |->
                IF i = 1 THEN HdrSize ELSE at[i - 1] + EntrySize + f[at[i - 1] + 1][8]]
    BY <2>1, <2>2
  <2> QED  BY <1>2, <2>3 DEF EntryWalk
<1>8. ASSUME NEW a, EntryWalk(f, a), NEW j \in 1..(n + 1)
      PROVE  a[j] = at[j]
  <2>1. \A i \in 1..(n + 1) :
          a[i] = IF i = 1 THEN HdrSize ELSE a[i - 1] + EntrySize + f[a[i - 1] + 1][8]
    BY <1>2, <1>8 DEF EntryWalk
  <2> DEFINE S == {m \in Nat : m + 1 <= n + 1 => a[m + 1] = at[m + 1]}
  <2>2. 0 \in S
    <3>1. 1 \in 1..(n + 1) /\ 0 + 1 = 1
      BY <1>1
    <3>2. a[1] = HdrSize
      BY <2>1, <3>1
    <3> QED  BY <1>3, <3>1, <3>2
  <2>3. ASSUME NEW m \in Nat, m \in S
        PROVE  m + 1 \in S
    <3> SUFFICES ASSUME (m + 1) + 1 <= n + 1
                 PROVE  a[(m + 1) + 1] = at[(m + 1) + 1]
      OBVIOUS
    <3>1. a[m + 1] = at[m + 1]
      BY <1>1, <2>3
    <3> DEFINE i == (m + 1) + 1
    <3>2. i \in 1..(n + 1) /\ i # 1 /\ i - 1 = m + 1
      BY <1>1
    <3> HIDE DEF i, S
    <3>3. a[i] = a[i - 1] + EntrySize + f[a[i - 1] + 1][8]
      BY <2>1, <3>2
    <3>4. at[i] = at[i - 1] + EntrySize + f[at[i - 1] + 1][8]
      BY <1>6, <3>2
    <3>5. a[i] = at[i]
      BY <3>1, <3>2, <3>3, <3>4
    <3> QED  BY <3>5 DEF i
  <2> HIDE DEF S
  <2>4. \A m \in Nat : m \in S
    BY <2>2, <2>3, SetInduction
  <2>5. j - 1 \in Nat /\ (j - 1) + 1 = j /\ j <= n + 1
    BY <1>1
  <2> QED  BY <2>4, <2>5 DEF S
<1> QED  BY <1>2, <1>7, <1>8 DEF n

(* The begin of the file read back: everything that is not in the regions. *)
HeadRead(h, p) ==
  /\ p.auth = h.auth /\ p.mono = h.mono /\ p.data_offset = h.data_offset
  /\ p.data_size = h.data_size /\ p.auth_data = h.auth_data
  /\ p.alignment = IF Len(h.comps) = 0 THEN DefaultAlignment ELSE h.comps[1].alignment
  /\ IsSeq(p.comps) /\ Len(p.comps) = Len(h.comps)
  /\ \A i \in 1..Len(h.comps) : SameEntry(p.comps[i], h.comps[i])

(* What it reads of a component.                                           *)
RegionRead(h, f, i, c) ==
  LET start == From(h, i)
      len   == LzSize + CompressedLen(Slice(f, start, start + LzSize))
      auth  == AlignUp(start + len, Pad)
  IN  /\ c.data = Slice(f, start, start + len)
      /\ c.auth_data = Slice(f, auth, auth + AuthSize(h.comps[i].auth))

(* An entry is read with all its fields, and what lies in its region as     *)
(* component.                                                               *)
LEMMA CompRead ==
  ASSUME NEW deep, NEW h, NEW f, NEW at, IsHeader(deep, h), Fine(deep, f), HeadAt(h, f, at),
         NEW i \in 1..Len(h.comps)
  PROVE  LET c == ReadComp(f, at, i)
         IN  /\ SameEntry(c, h.comps[i]) /\ RegionRead(h, f, i, c) /\ IsComp(deep, c)
<1> DEFINE d == h.comps[i]
           m == Len(d.hash)
           a == at[i]
           e == EntryCell(d)
           start == From(h, i)
           part == Slice(f, start, start + LzSize)
           len == LzSize + CompressedLen(part)
           auth == AlignUp(start + len, Pad)
           c == ReadComp(f, at, i)
<1>1. /\ IsComp(deep, d) /\ h.data_offset \in Nat
  BY DEF IsHeader, AreComps
<1>2. IsSeq(f) /\ Len(f) \in Nat
  BY FineShape
<1>3. IsSeq(d.hash) /\ m \in Nat /\ EntrySize \in Nat \ {0}
  BY <1>1, FineShape, Sizes DEF IsComp
<1>4. f[1][4] = h.data_offset
  BY DEF HeadAt, HeaderCell
<1>5. /\ f[a + 1] = e /\ at[i + 1] = a + EntrySize + m /\ at[i + 1] <= Len(f)
      /\ \A k \in 1..m : f[a + EntrySize + k] = d.hash[k]
  BY DEF HeadAt, EntriesAt
<1>6. a \in Nat
  <2>1. at \in [1..(Len(h.comps) + 1) -> Nat] /\ i \in 1..(Len(h.comps) + 1)
    <3>1. Len(h.comps) \in Nat
      BY SeqShape DEF IsHeader, AreComps
    <3> QED  BY <3>1 DEF HeadAt, EntriesAt
  <2> QED  BY <2>1
<1>7. Slice(f, a + EntrySize, a + EntrySize + m) = d.hash
  <2> DEFINE from == a + EntrySize
             t == d.hash
  <2>1. from \in Nat /\ from + Len(t) <= Len(f) /\ \A k \in 1..Len(t) : f[from + k] = t[k]
    BY <1>3, <1>5, <1>6
  <2> HIDE DEF from, t
  <2>2. Slice(f, from, from + Len(t)) = t
    BY <1>2, <1>3, <2>1, SliceIs DEF t
  <2> QED  BY <2>2 DEF from, t
<1>8. start = d.offset + h.data_offset /\ start \in Nat
  BY <1>1 DEF From, IsComp
<1>9. e[2] = d.name /\ e[3] = d.offset /\ e[4] = d.size /\ e[5] = d.reserved
      /\ e[6] = d.alignment /\ e[7] = d.auth /\ e[8] = m
  BY DEF EntryCell
<1>10. c = [name |-> d.name, offset |-> d.offset, size |-> d.size, reserved |-> d.reserved,
            alignment |-> d.alignment, auth |-> d.auth, hash |-> d.hash,
            data |-> Slice(f, start, start + len),
            auth_data |-> Slice(f, auth, auth + AuthSize(d.auth))]
  <2> HIDE DEF e, d, m, a
  <2>1. /\ f[at[i] + 1] = e /\ e[3] + f[1][4] = start
        /\ Slice(f, at[i] + EntrySize, at[i] + EntrySize + e[8]) = d.hash
    BY <1>4, <1>5, <1>7, <1>8, <1>9 DEF a, d
  <2> HIDE DEF start
  <2> QED  BY <1>9, <2>1 DEF ReadComp
<1>11. len \in Nat
  <2>1. Fine(deep, part)
    <3>1. start + LzSize \in Nat
      BY <1>8, Sizes
    <3> HIDE DEF start
    <3> QED  BY <1>8, <3>1, FineSlice
  <2> HIDE DEF part
  <2>2. IsLz(part) => 1 \in 1..Len(part)
    BY <2>1, Sizes, FineShape DEF IsLz
  <2>3. IsLz(part) => part[1][3] \in Nat
    <3>1. IsSeq(part)
      BY <2>1, FineShape
    <3>2. \A k \in 1..Len(part) : FineCell(deep, part[k])
      BY <2>1, <3>1, FineCells
    <3> QED  BY <2>2, <3>2 DEF IsLz, FineCell
  <2>4. CompressedLen(part) \in Nat
    BY <2>3 DEF CompressedLen
  <2> QED  BY <2>4, Sizes
<1> HIDE DEF start, len
<1>12. auth \in Nat /\ start + len \in Nat
  <2>1. start + len \in Nat
    BY <1>8, <1>11
  <2> QED  BY <2>1, Sizes, Aligned
<1> HIDE DEF auth
<1>13. Fine(deep, Slice(f, start, start + len)) /\ Fine(deep, Slice(f, auth, auth + AuthSize(d.auth)))
  <2>1. auth + AuthSize(d.auth) \in Nat
    BY <1>12, AuthSizes
  <2> HIDE DEF d
  <2> QED  BY <1>8, <1>12, <2>1, FineSlice
<1> HIDE DEF c
<1>14. SameEntry(c, d)
  BY <1>10 DEF SameEntry
<1>15. RegionRead(h, f, i, c)
  BY <1>10 DEF RegionRead, start, len, auth
<1>16. IsComp(deep, c)
  BY <1>1, <1>10, <1>13 DEF IsComp
<1> QED  BY <1>14, <1>15, <1>16 DEF c

(* Of every file that get_data makes, whatever fits, the header and the     *)
(* entries are read back.                                                   *)
LEMMA ReadBack ==
  ASSUME NEW deep, NEW h, IsHeader(deep, h)
  PROVE  LET f == GetData(h)
             p == Parse(f)
         IN  /\ HeadRead(h, p) /\ IsHeader(deep, p)
             /\ \A i \in 1..Len(h.comps) : RegionRead(h, f, i, p.comps[i])
<1> DEFINE n == Len(h.comps)
           f == GetData(h)
           p == Parse(f)
<1>1. /\ IsSeq(h.comps) /\ n \in Nat
      /\ h.auth \in AuthTypes /\ h.data_offset \in Nat /\ h.data_size \in Nat
      /\ Fine(deep, h.auth_data) /\ Len(h.auth_data) = AuthSize(h.auth)
      /\ \A i \in 1..n : IsComp(deep, h.comps[i])
  BY SeqShape DEF IsHeader, AreComps
<1>2. \A i \in 1..n : Len(h.comps[i].hash) \in Nat
  BY <1>1, FineShape DEF IsComp
<1>3. IsSeq(h.auth_data) /\ Len(h.auth_data) \in Nat
  BY <1>1, FineShape
<1>4. Fine(deep, f) /\ IsSeq(f) /\ StartsWith(f, Lead(h))
  BY FileStarts
<1>5. PICK at : /\ HeadAt(h, Lead(h), at)
                /\ at[n + 1] = HdrSize + Len(Entries(h.comps))
  BY LeadShape
<1>6. at \in [1..(n + 1) -> Nat] /\ at[1] = HdrSize
  BY <1>5 DEF HeadAt, EntriesAt
<1> DEFINE auth == AlignUp(at[n + 1], Pad)
<1>7. auth \in Nat
  <2>1. n + 1 \in 1..(n + 1)
    BY <1>1
  <2>2. at[n + 1] \in Nat
    BY <1>6, <2>1
  <2> QED  BY <2>2, Sizes, Aligned
<1> HIDE DEF f
<1>8. HeadAt(h, f, at)
  BY <1>2, <1>3, <1>4, <1>5, <1>7, HeadKept
<1>9. /\ f[1][6] = n /\ EntryWalk(f, at)
      /\ \A a : EntryWalk(f, a) => \A i \in 1..(n + 1) : a[i] = at[i]
  BY <1>1, <1>2, <1>8, WalkFinds
<1>10. PICK a : /\ EntryWalk(f, a)
                /\ p = [auth |-> f[1][2], mono |-> f[1][3],
                        data_offset |-> f[1][4], data_size |-> f[1][5],
                        alignment |-> IF f[1][6] = 0 THEN DefaultAlignment ELSE f[a[1] + 1][6],
                        auth_data |-> ReadAuth(f, a),
                        comps |-> [i \in 1..f[1][6] |-> ReadComp(f, a, i)]]
  BY <1>9, ParseUnfolds
<1>11. \A i \in 1..(n + 1) : a[i] = at[i]
  BY <1>9, <1>10
<1>12. /\ f[1][2] = h.auth /\ f[1][3] = h.mono /\ f[1][4] = h.data_offset
       /\ f[1][5] = h.data_size
  BY <1>8 DEF HeadAt, HeaderCell
<1>13. \A i \in 1..n : ReadComp(f, a, i) = ReadComp(f, at, i)
  <2>1. \A i \in 1..n : i \in 1..(n + 1)
    BY <1>1
  <2>2. \A i \in 1..n : a[i] = at[i]
    BY <1>11, <2>1
  <2> QED  BY <2>2, Zenon DEF ReadComp
<1>14. ReadAuth(f, a) = h.auth_data
  <2>1. a[n + 1] = at[n + 1]
    BY <1>1, <1>11
  <2>2. ReadAuth(f, a) = Slice(f, auth, auth + AuthSize(h.auth))
    BY <1>9, <1>12, <2>1, Zenon DEF ReadAuth
  <2> DEFINE t == h.auth_data
  <2>3. auth + Len(t) <= Len(f) /\ \A k \in 1..Len(t) : f[auth + k] = t[k]
    BY <1>8 DEF HeadAt
  <2> HIDE DEF auth, t
  <2>4. Slice(f, auth, auth + Len(t)) = t
    BY <1>3, <1>4, <1>7, <2>3, SliceIs DEF t
  <2> QED  BY <1>1, <2>2, <2>4 DEF t
<1>15. f[at[1] + 1][6] = h.comps[1].alignment \/ n = 0
  <2>1. n # 0 => 1 \in 1..n
    BY <1>1
  <2>2. n # 0 => f[at[1] + 1] = EntryCell(h.comps[1])
    BY <1>8, <2>1 DEF HeadAt, EntriesAt
  <2>3. EntryCell(h.comps[1])[6] = h.comps[1].alignment
    BY DEF EntryCell
  <2> QED  BY <2>2, <2>3
<1>16. a[1] = at[1]
  BY <1>1, <1>11
<1>17. /\ p.auth = h.auth /\ p.mono = h.mono /\ p.data_offset = h.data_offset
       /\ p.data_size = h.data_size /\ p.auth_data = h.auth_data
       /\ p.alignment = IF n = 0 THEN DefaultAlignment ELSE h.comps[1].alignment
       /\ p.comps = [i \in 1..n |-> ReadComp(f, a, i)]
  BY <1>9, <1>10, <1>12, <1>14, <1>15, <1>16
<1> HIDE DEF p, auth
<1>18. /\ p.comps = [i \in 1..n |-> p.comps[i]]
       /\ \A i \in 1..n : p.comps[i] = ReadComp(f, at, i)
  BY <1>13, <1>17
<1>19. IsSeq(p.comps) /\ Len(p.comps) = n
  BY <1>1, <1>18, ShapeSeq
<1>20. ASSUME NEW i \in 1..n
       PROVE  /\ SameEntry(p.comps[i], h.comps[i]) /\ RegionRead(h, f, i, p.comps[i])
              /\ IsComp(deep, p.comps[i])
  <2>1. /\ SameEntry(ReadComp(f, at, i), h.comps[i])
        /\ RegionRead(h, f, i, ReadComp(f, at, i)) /\ IsComp(deep, ReadComp(f, at, i))
    BY <1>4, <1>8, CompRead
  <2> QED  BY <1>18, <2>1
<1>21. HeadRead(h, p)
  BY <1>17, <1>19, <1>20 DEF HeadRead
<1>22. IsHeader(deep, p)
  BY <1>1, <1>17, <1>19, <1>20 DEF IsHeader, AreComps
<1> QED  BY <1>20, <1>21, <1>22 DEF f, p

(* What is in place and whole is read as it is.                            *)
LEMMA RegionIs ==
  ASSUME NEW deep, NEW h, IsHeader(deep, h), Tidy(h), NEW f, IsSeq(f),
         Laid(h, Len(h.comps), f), NEW i \in 1..Len(h.comps), NEW c,
         RegionRead(h, f, i, c)
  PROVE  c.data = h.comps[i].data /\ c.auth_data = h.comps[i].auth_data
<1> DEFINE d == h.comps[i]
           data == d.data
           m == Len(data)
           sig == d.auth_data
           s == Len(sig)
           b == Body(d)
           start == From(h, i)
           part == Slice(f, start, start + LzSize)
           len == LzSize + CompressedLen(part)
           auth == AlignUp(start + len, Pad)
           p == AlignUp(m, Pad)
<1>1. /\ IsComp(deep, d) /\ h.data_offset \in Nat
  BY DEF IsHeader, AreComps
<1>2. Fine(deep, data) /\ Fine(deep, sig) /\ d.offset \in Nat
  BY <1>1 DEF IsComp
<1>3. IsSeq(data) /\ IsSeq(sig) /\ m \in Nat /\ s \in Nat
  BY <1>2, FineShape
<1>4. /\ p \in Nat /\ m <= p /\ Len(b) = p + s
      /\ \A k \in 1..m : b[k] = data[k]
      /\ \A k \in 1..s : b[p + k] = sig[k]
  <2> HIDE DEF d
  <2> QED  BY <1>2, BodyShape
<1>5. /\ h.data_offset % Pad = 0 /\ d.offset % Pad = 0 /\ Whole(data)
      /\ s = AuthSize(d.auth)
  BY DEF Tidy
<1>6. start + Len(b) <= Len(f) /\ \A k \in 1..Len(b) : f[start + k] = b[k]
  BY DEF Laid
<1>7. start = h.data_offset + d.offset /\ start \in Nat
  BY <1>1, <1>2 DEF From
<1>8. start % Pad = 0
  <2>1. h.data_offset \in Int /\ d.offset \in Int
    BY <1>1, <1>2
  <2>2. Pad \in Nat \ {0}
    BY Sizes
  <2>3. (h.data_offset + d.offset) % Pad = 0
    BY <1>5, <2>1, <2>2, SumOfMultiples, Zenon
  <2> QED  BY <1>7, <2>3, Zenon
<1>9. /\ c.data = Slice(f, start, start + len)
      /\ c.auth_data = Slice(f, auth, auth + AuthSize(d.auth))
  BY DEF RegionRead
<1>10. Len(f) \in Nat
  BY SeqShape
<1> HIDE DEF data, sig, b, start, d, p, auth
<1>11. LzSize <= m /\ data[1][1] = "lz" /\ m = LzSize + data[1][3] /\ LzSize \in Nat \ {0}
  BY <1>5, Sizes DEF Whole, IsLz, CompressedLen
<1>12. start + LzSize <= Len(f) /\ start + LzSize \in Nat /\ 1 \in 1..Len(b) /\ 1 \in 1..m
  <2>1. Len(b) \in Nat /\ LzSize <= Len(b)
    BY <1>3, <1>4, <1>11
  <2>2. start + Len(b) <= Len(f)
    BY <1>6
  <2> HIDE DEF m, s
  <2>3. start + LzSize <= Len(f) /\ start + LzSize \in Nat
    BY <1>7, <1>10, <1>11, <2>1, <2>2
  <2>4. 1 \in 1..Len(b) /\ 1 \in 1..m
    BY <1>3, <1>11, <2>1
  <2> QED  BY <2>3, <2>4
<1>13. Len(part) = LzSize /\ part[1] = data[1]
  <2>1. Len(part) = LET end == IF start + LzSize <= Len(f) THEN start + LzSize ELSE Len(f)
                    IN  IF start < end THEN end - start ELSE 0
    BY <1>7, <1>12, SliceShape
  <2>2. \A k \in 1..Len(part) : part[k] = f[start + k]
    BY <1>7, <1>12, SliceShape
  <2> HIDE DEF part
  <2>3. Len(part) = LzSize
    BY <1>7, <1>11, <1>12, <2>1
  <2>4. 1 \in 1..Len(part)
    BY <1>11, <2>3
  <2>5. part[1] = f[start + 1] /\ f[start + 1] = b[1] /\ b[1] = data[1]
    BY <1>4, <1>6, <1>12, <2>2, <2>4
  <2> QED  BY <2>3, <2>5
<1> HIDE DEF part
<1>14. len = m
  BY <1>11, <1>13 DEF IsLz, CompressedLen
<1> HIDE DEF len
<1>15. Slice(f, start, start + m) = data
  <2>1. start + m <= Len(f) /\ \A k \in 1..m : k \in 1..Len(b)
    BY <1>3, <1>4, <1>6, <1>7, <1>10
  <2>2. \A k \in 1..m : f[start + k] = data[k]
    BY <1>4, <1>6, <2>1
  <2>3. start + Len(data) <= Len(f) /\ \A k \in 1..Len(data) : f[start + k] = data[k]
    BY <2>1, <2>2
  <2>4. Slice(f, start, start + Len(data)) = data
    BY <1>3, <1>7, <2>3, SliceIs
  <2> QED  BY <2>4
<1>16. auth = start + p
  <2>1. AlignUp(start + m, Pad) = start + AlignUp(m, Pad)
    BY <1>3, <1>7, <1>8, Sizes, AlignedBehind
  <2> QED  BY <1>14, <2>1 DEF auth, p
<1>17. Slice(f, auth, auth + s) = sig
  <2> HIDE DEF m
  <2>1. auth \in Nat /\ auth + s <= Len(f) /\ \A k \in 1..s : p + k \in 1..Len(b) /\ auth + k = start + (p + k)
    BY <1>3, <1>4, <1>6, <1>7, <1>10, <1>16
  <2>2. \A k \in 1..s : f[auth + k] = sig[k]
    BY <1>4, <1>6, <2>1
  <2>3. auth + Len(sig) <= Len(f) /\ \A k \in 1..Len(sig) : f[auth + k] = sig[k]
    BY <2>1, <2>2
  <2>4. Slice(f, auth, auth + Len(sig)) = sig
    BY <1>3, <2>1, <2>3, SliceIs
  <2> QED  BY <2>4
<1> QED  BY <1>5, <1>9, <1>14, <1>15, <1>17 DEF d, data, sig

(* Of a tidy container the components are read back too.                    *)
LEMMA ReadAll ==
  ASSUME NEW deep, NEW h, IsHeader(deep, h), Tidy(h)
  PROVE  Parse(GetData(h)).comps = h.comps
<1> DEFINE f == GetData(h)
           p == Parse(f)
           n == Len(h.comps)
<1>1. /\ HeadRead(h, p) /\ IsHeader(deep, p)
      /\ \A i \in 1..n : RegionRead(h, f, i, p.comps[i])
  BY ReadBack
<1>2. Laid(h, n, f) /\ IsSeq(f)
  BY FileLaid, FileStarts DEF Tidy
<1> HIDE DEF f, p
<1>3. /\ IsSeq(p.comps) /\ Len(p.comps) = n /\ IsSeq(h.comps)
      /\ \A i \in 1..n : IsComp(deep, p.comps[i]) /\ IsComp(deep, h.comps[i])
  BY <1>1 DEF HeadRead, IsHeader, AreComps
<1>4. ASSUME NEW i \in 1..n
      PROVE  p.comps[i] = h.comps[i]
  <2> DEFINE c == p.comps[i]
             d == h.comps[i]
  <2>1. c.data = d.data /\ c.auth_data = d.auth_data
    BY <1>1, <1>2, RegionIs
  <2>2. SameEntry(c, d)
    BY <1>1 DEF HeadRead
  <2>3. IsComp(deep, c) /\ IsComp(deep, d)
    BY <1>3
  <2> HIDE DEF c, d
  <2>4. c = d
    BY <2>1, <2>2, <2>3 DEF SameEntry, IsComp
  <2> QED  BY <2>4 DEF c, d
<1>5. p.comps = h.comps
  BY <1>3, <1>4, SeqSame
<1> QED  BY <1>5 DEF p, f

-----------------------------------------------------------------------------
(* Headers and their lengths.                                              *)

(* Where the entries end depends on the lengths of the hashes only.        *)
LEMMA EntriesEnd ==
  ASSUME NEW deep, NEW cs, NEW ds, IsSeq(cs), IsSeq(ds), Len(cs) <= Len(ds),
         \A i \in 1..Len(cs) : Fine(deep, cs[i].hash),
         \A i \in 1..Len(cs) : Len(ds[i].hash) = Len(cs[i].hash),
         NEW f, NEW at, EntriesAt(ds, f, 0, at)
  PROVE  at[Len(cs) + 1] = Len(Entries(cs))
<1> DEFINE n == Len(cs)
<1>1. n \in Nat /\ Len(ds) \in Nat
  BY SeqShape
<1>2. PICK a : EntriesAt(cs, Entries(cs), 0, a) /\ a[n + 1] = Len(Entries(cs))
  BY EntriesShape
<1>3. /\ a \in [1..(n + 1) -> Nat] /\ a[1] = 0
      /\ \A i \in 1..n : a[i + 1] = a[i] + EntrySize + Len(cs[i].hash)
  BY <1>2 DEF EntriesAt
<1>4. at[1] = 0 /\ \A i \in 1..n : at[i + 1] = at[i] + EntrySize + Len(cs[i].hash)
  <2>1. \A i \in 1..n : i \in 1..Len(ds)
    BY <1>1
  <2> QED  BY <2>1 DEF EntriesAt
<1> HIDE DEF n
<1> DEFINE S == {m \in Nat : m <= n => at[m + 1] = a[m + 1]}
<1>5. 0 \in S
  BY <1>3, <1>4
<1>6. ASSUME NEW m \in Nat, m \in S
      PROVE  m + 1 \in S
  <2> SUFFICES ASSUME m + 1 <= n
               PROVE  at[(m + 1) + 1] = a[(m + 1) + 1]
    OBVIOUS
  <2>1. m + 1 \in 1..n /\ at[m + 1] = a[m + 1]
    BY <1>1, <1>6
  <2> HIDE DEF S
  <2> QED  BY <1>3, <1>4, <2>1
<1> HIDE DEF S
<1>7. \A m \in Nat : m \in S
  BY <1>5, <1>6, SetInduction
<1>8. at[n + 1] = a[n + 1]
  BY <1>1, <1>7 DEF S
<1> QED  BY <1>2, <1>8 DEF n

(* Entries of equal hashes are equally long.                                *)
LEMMA EntriesLen ==
  ASSUME NEW deep, NEW cs, NEW ds, IsSeq(cs), IsSeq(ds), Len(cs) = Len(ds),
         \A i \in 1..Len(cs) : Fine(deep, cs[i].hash) /\ Fine(deep, ds[i].hash),
         \A i \in 1..Len(cs) : Len(ds[i].hash) = Len(cs[i].hash)
  PROVE  Len(Entries(ds)) = Len(Entries(cs))
<1>1. PICK at : EntriesAt(ds, Entries(ds), 0, at) /\ at[Len(ds) + 1] = Len(Entries(ds))
  BY EntriesShape
<1>2. Len(cs) <= Len(ds)
  BY SeqShape
<1>3. at[Len(cs) + 1] = Len(Entries(cs))
  BY <1>1, <1>2, EntriesEnd
<1> QED  BY <1>1, <1>3

(* One more entry is EntrySize and its hash longer, as header_size has it.  *)
LEMMA EntriesAppend ==
  ASSUME NEW deep, NEW cs, NEW c, AreComps(deep, cs), IsComp(deep, c)
  PROVE  Len(Entries(Append(cs, c))) = Len(Entries(cs)) + EntrySize + Len(c.hash)
<1> DEFINE ds == Append(cs, c)
           n == Len(cs)
<1>1. IsSeq(cs) /\ n \in Nat /\ \A i \in 1..n : IsComp(deep, cs[i])
  BY SeqShape DEF AreComps
<1>2. /\ IsSeq(ds) /\ Len(ds) = n + 1 /\ ds[n + 1] = c
      /\ \A i \in 1..n : ds[i] = cs[i]
  BY <1>1, AppendShape
<1> HIDE DEF ds
<1>3. \A i \in 1..n : Fine(deep, cs[i].hash)
  BY <1>1 DEF IsComp
<1>4. Fine(deep, c.hash)
  BY DEF IsComp
<1>5. ASSUME NEW i \in 1..Len(ds)
      PROVE  Fine(deep, ds[i].hash)
  <2>1. i \in 1..n \/ i = n + 1
    BY <1>1, <1>2
  <2> QED  BY <1>2, <1>3, <1>4, <2>1
<1>6. PICK at : EntriesAt(ds, Entries(ds), 0, at) /\ at[Len(ds) + 1] = Len(Entries(ds))
  BY <1>2, <1>5, EntriesShape
<1>7. n <= Len(ds) /\ \A i \in 1..n : Len(ds[i].hash) = Len(cs[i].hash)
  BY <1>1, <1>2
<1>8. at[n + 1] = Len(Entries(cs))
  BY <1>1, <1>2, <1>3, <1>6, <1>7, EntriesEnd
<1>9. at[(n + 1) + 1] = at[n + 1] + EntrySize + Len(ds[n + 1].hash)
  <2>1. n + 1 \in 1..Len(ds)
    BY <1>1, <1>2
  <2> QED  BY <1>6, <2>1 DEF EntriesAt
<1> QED  BY <1>2, <1>6, <1>8, <1>9 DEF ds

(* The cells of a header say nothing of the data of its components.        *)
LEMMA HeadSame ==
  ASSUME NEW g, NEW h, IsSeq(g.comps), IsSeq(h.comps), Len(g.comps) = Len(h.comps),
         g.auth = h.auth, g.mono = h.mono, g.data_offset = h.data_offset,
         g.data_size = h.data_size,
         \A i \in 1..Len(h.comps) : SameEntry(g.comps[i], h.comps[i])
  PROVE  HeaderCells(g) = HeaderCells(h) /\ Entries(g.comps) = Entries(h.comps)
<1>1. DOMAIN g.comps = 1..Len(h.comps) /\ DOMAIN h.comps = 1..Len(h.comps)
  BY SeqShape
<1>2. ASSUME NEW i \in 1..Len(h.comps)
      PROVE  EntryCells(g.comps[i]) = EntryCells(h.comps[i])
  BY DEF EntryCells, SameEntry
<1>3. [i \in DOMAIN g.comps |-> EntryCells(g.comps[i])]
        = [i \in DOMAIN h.comps |-> EntryCells(h.comps[i])]
  BY <1>1, <1>2
<1> DEFINE r == [i \in DOMAIN g.comps |-> EntryCells(g.comps[i])]
           s == [i \in DOMAIN h.comps |-> EntryCells(h.comps[i])]
<1>4. r = s
  BY <1>3
<1>5. /\ HeaderCells(g) = Struct(HeaderCell(g), HdrSize) \o FlattenSeq(r)
      /\ HeaderCells(h) = Struct(HeaderCell(h), HdrSize) \o FlattenSeq(s)
      /\ Entries(g.comps) = FlattenSeq(r) /\ Entries(h.comps) = FlattenSeq(s)
  BY Zenon DEF HeaderCells, HeaderCell, Entries
<1>6. HeaderCell(g) = HeaderCell(h)
  BY DEF HeaderCell
<1> HIDE DEF r, s
<1> QED  BY <1>4, <1>5, <1>6

-----------------------------------------------------------------------------
(* What create makes of rows and components.                               *)

(* What create makes of a row.                                              *)
LEMMA EntryShapes ==
  ASSUME NEW r, RowOk(r), alignment \in Nat \ {0}
  PROVE  /\ IsComp(Deep, Entry(r)) /\ Whole(Entry(r).data)
         /\ Entry(r).name = r.name /\ Entry(r).auth = r.auth
         /\ Entry(r).alignment = RowAlignment(r) /\ Entry(r).offset = 0
         /\ Entry(r).hash = HashData(Entry(r).data, r.auth, r.key)
         /\ Entry(r).auth_data = Signature(Entry(r).data, r.auth, r.key)
<1> DEFINE content == IF r.content = <<>> THEN <<>> ELSE r.content[1]
           reserved == r.name = Mono /\ r.content = <<>>
           alg == IF reserved THEN "Dummy" ELSE r.alg
           data == LzFile(alg, content)
           sig == Signature(data, r.auth, r.key)
           hash == HashData(data, r.auth, r.key)
           least == AlignUp(Len(data), Pad) + Len(sig)
           size == IF r.size # 0 THEN r.size
                   ELSE AlignUp(least, IF IsMono THEN alignment ELSE RowAlignment(r))
           c == Entry(r)
<1>1. Fine(Deep, content)
  <2>1. Fine(Deep, <<>>)
    BY EmptyIsSeq, FineCells
  <2>2. r.content # <<>> => Fine(Deep, r.content[1])
    BY DEF RowOk
  <2> QED  BY <2>1, <2>2
<1>2. c = [name |-> r.name, offset |-> 0, reserved |-> reserved, auth |-> r.auth,
           alignment |-> RowAlignment(r), size |-> size,
           data |-> data, hash |-> hash, auth_data |-> sig]
  BY DEF Entry
<1> HIDE DEF content, alg, reserved
<1>3. Fine(Deep, data) /\ Whole(data)
  BY <1>1, LzFileShape
<1>4. Len(data) \in Nat
  BY <1>3, FineShape
<1> HIDE DEF data
<1>5. Fine(Deep, sig) /\ IsSeq(sig) /\ Fine(Deep, hash) /\ Len(hash) = HashLen(r.auth)
  BY SignatureShape, HashDataShape
<1> HIDE DEF hash
<1>6. Len(sig) \in Nat
  BY <1>5, SeqShape
<1> HIDE DEF sig
<1>7. RowAlignment(r) \in Nat \ {0}
  BY DEF RowAlignment, RowOk
<1>8. size \in Nat
  <2>1. least \in Nat
    BY <1>4, <1>6, Sizes, Aligned
  <2> HIDE DEF least
  <2>2. AlignUp(least, alignment) \in Nat /\ AlignUp(least, RowAlignment(r)) \in Nat
    BY <1>7, <2>1, Aligned
  <2> QED  BY <2>2 DEF RowOk
<1> HIDE DEF size, c
<1>9. r.auth \in AuthTypes
  BY DEF RowOk
<1>10. IsComp(Deep, c)
  BY <1>2, <1>3, <1>5, <1>7, <1>8, <1>9 DEF IsComp
<1> QED  BY <1>2, <1>3, <1>10 DEF c, hash, sig

(* A key gives the header its type, and both agree on whether it signs.    *)
LEMMA HeaderSignature ==
  ASSUME LayoutOk
  PROVE  /\ HeaderAuth \in AuthTypes
         /\ ~HeaderFails => SignatureLen(HeaderAuth, layout.header.key) = AuthSize(HeaderAuth)
<1>1. layout.header.auth \in AuthTypes
  BY DEF LayoutOk
<1>2. CASE layout.header.key = NoKey
  <2>1. HeaderAuth = layout.header.auth
    BY <1>2 DEF HeaderAuth
  <2>2. ~HeaderFails => ~IsRsa(layout.header.auth)
    BY <1>2, Zenon DEF HeaderFails
  <2>3. ~IsRsa(layout.header.auth) => AuthSize(layout.header.auth) = 0
    BY DEF IsRsa, AuthSize
  <2> QED  BY <1>1, <2>1, <2>2, <2>3 DEF SignatureLen
<1>3. CASE layout.header.key # NoKey
  <2>1. HeaderAuth = KeyType(layout.header.key)
    BY <1>3 DEF HeaderAuth
  <2>2. KeyType(layout.header.key) \in AuthTypes /\ IsRsa(KeyType(layout.header.key))
    BY DEF KeyType, AuthTypes, IsRsa
  <2> QED  BY <2>1, <2>2 DEF SignatureLen
<1> QED  BY <1>2, <1>3

(* What adjust_header makes of entries.                                     *)
LEMMA AdjustedShape ==
  ASSUME NEW cs, AreComps(Deep, cs), LayoutOk, alignment \in Nat \ {0}, header_size \in Nat
  PROVE  LET h == Adjusted(cs)
         IN  /\ h.comps = cs /\ h.auth = HeaderAuth /\ h.mono = IsMono
             /\ h.data_offset = AlignUp(header_size, alignment) % OffsetLimit
             /\ h.data_offset \in 0..(OffsetLimit - 1)
             /\ h.data_size = IF cs = <<>> THEN 0
                              ELSE AlignUp(cs[Len(cs)].offset + cs[Len(cs)].size, alignment)
             /\ h.auth_data = Signature(HeaderCells(h), HeaderAuth, layout.header.key)
             /\ ~HeaderFails => IsHeader(Deep, h)
<1> DEFINE n == Len(cs)
           end == cs[n].offset + cs[n].size
           size == IF cs = <<>> THEN 0 ELSE AlignUp(end, alignment)
           off == AlignUp(header_size, alignment) % OffsetLimit
           bare == [auth |-> HeaderAuth, mono |-> IsMono, comps |-> cs,
                    data_offset |-> off, data_size |-> size]
           sig == Signature(HeaderCells(bare), HeaderAuth, layout.header.key)
           h == Adjusted(cs)
<1>1. h = [auth |-> HeaderAuth, mono |-> IsMono, comps |-> cs,
           data_offset |-> off, data_size |-> size, auth_data |-> sig]
  BY DEF Adjusted
<1>2. off \in 0..(OffsetLimit - 1)
  <2>1. AlignUp(header_size, alignment) \in Nat /\ OffsetLimit \in Nat \ {0}
    BY Sizes, Aligned
  <2> QED  BY <2>1
<1>3. size \in Nat
  <2>1. IsSeq(cs) /\ n \in Nat /\ (cs # <<>> => n # 0)
    BY SeqShape DEF AreComps, IsSeq
  <2>2. cs # <<>> => n \in 1..n
    BY <2>1
  <2>3. cs # <<>> => end \in Nat
    <3>1. cs # <<>> => IsComp(Deep, cs[n])
      BY <2>2 DEF AreComps
    <3>2. IsComp(Deep, cs[n]) => end \in Nat
      BY DEF IsComp
    <3> QED  BY <3>1, <3>2
  <2> HIDE DEF end
  <2> QED  BY <2>3, Aligned
<1> HIDE DEF off, size
<1>4. h.comps = cs /\ IsSeq(cs)
  BY <1>1 DEF AreComps
<1>5. HeaderCells(h) = HeaderCells(bare)
  <2>1. \A i \in 1..n : SameEntry(cs[i], cs[i])
    BY DEF SameEntry
  <2>2. /\ h.comps = cs /\ h.auth = HeaderAuth /\ h.mono = IsMono
        /\ h.data_offset = off /\ h.data_size = size
    BY <1>1
  <2>3. /\ bare.comps = cs /\ bare.auth = HeaderAuth /\ bare.mono = IsMono
        /\ bare.data_offset = off /\ bare.data_size = size
    OBVIOUS
  <2> HIDE DEF h, bare
  <2> QED  BY <1>4, <2>1, <2>2, <2>3, HeadSame
<1> HIDE DEF bare
<1>6. Fine(Deep, sig) /\ Len(sig) = SignatureLen(HeaderAuth, layout.header.key)
  BY SignatureShape
<1>7. ~HeaderFails => IsHeader(Deep, h)
  <2>1. HeaderAuth \in AuthTypes /\ (~HeaderFails => Len(sig) = AuthSize(HeaderAuth))
    BY <1>6, HeaderSignature
  <2> HIDE DEF sig, h
  <2>2. off \in Nat
    BY <1>2, Sizes
  <2> QED  BY <1>1, <1>3, <1>6, <2>1, <2>2 DEF IsHeader
<1> HIDE DEF h
<1>8. h.auth_data = Signature(HeaderCells(h), HeaderAuth, layout.header.key)
  BY <1>1, <1>5 DEF sig
<1>9. /\ h.auth = HeaderAuth /\ h.mono = IsMono /\ h.data_offset = off /\ h.data_size = size
  BY <1>1
<1> QED  BY <1>2, <1>4, <1>7, <1>8, <1>9 DEF h, off, size

-----------------------------------------------------------------------------
(* The steps of create.                                                    *)

(* What follows from the layout and the header only.                       *)
LEMMA SameLayout ==
  ASSUME layout' = layout, alignment' = alignment, origin' = origin
  PROVE  /\ Rows' = Rows /\ IsMono' = IsMono /\ HeaderAuth' = HeaderAuth
         /\ HeaderFails' = HeaderFails /\ LayoutOk' = LayoutOk /\ Deep' = Deep
         /\ \A i : RowFails(i)' = RowFails(i)
         /\ \A c, r : Made(c, r)' = Made(c, r) /\ SignedAlone(c, r)' = SignedAlone(c, r)
<1>1. Rows' = Rows
  BY DEF Rows
<1>2. IsMono' = IsMono
  BY <1>1 DEF IsMono
<1>3. HeaderAuth' = HeaderAuth /\ HeaderFails' = HeaderFails
  BY DEF HeaderAuth, HeaderFails
<1>4. Deep' = Deep
  BY DEF Deep
<1>5. LayoutOk' = LayoutOk
  BY <1>1, <1>4, Zenon DEF LayoutOk, RowOk
<1>6. \A i : RowFails(i)' = RowFails(i)
  BY <1>1, Zenon DEF RowFails
<1>7. ASSUME NEW r
      PROVE  Entry(r)' = Entry(r)
  BY <1>2, Zenon DEF Entry, RowAlignment
<1>8. \A c, r : Made(c, r)' = Made(c, r) /\ SignedAlone(c, r)' = SignedAlone(c, r)
  BY <1>7, Zenon DEF Made, SignedAlone
<1> QED  BY <1>1, <1>2, <1>3, <1>4, <1>5, <1>6, <1>8

(* No entries take no room.                                                 *)
LEMMA NoEntries == Len(Entries(<<>>)) = 0
<1>1. IsSeq(<<>>) /\ Len(<<>>) = 0
  BY EmptyIsSeq
<1>2. \A i \in 1..Len(<<>>) : Fine(FALSE, <<>>[i].hash)
  BY <1>1
<1>3. PICK at : EntriesAt(<<>>, Entries(<<>>), 0, at) /\ at[Len(<<>>) + 1] = Len(Entries(<<>>))
  BY <1>1, <1>2, EntriesShape
<1> QED  BY <1>1, <1>3 DEF EntriesAt

(* A create that starts.                                                   *)
Fresh ==
  /\ LayoutOk
  /\ alignment = IF layout.header.alignment = 0 THEN DefaultAlignment
                 ELSE layout.header.alignment
  /\ header_size = HdrSize + AuthSize(HeaderAuth)
  /\ pc = "build" /\ index = 1 /\ comps = <<>>
  /\ offset = 0 /\ base_offset = -1 /\ header = <<>> /\ file = <<>>

(* A create that starts satisfies the invariant.                            *)
LEMMA FreshInv == Fresh => IInv
<1> SUFFICES ASSUME Fresh
             PROVE  IInv
  OBVIOUS
<1>3. alignment \in Nat \ {0} /\ LayoutOk
  BY Sizes DEF Fresh, LayoutOk
<1>4. header_size \in Nat
  BY Sizes, AuthSizes DEF Fresh
<1>5. IsSeq(comps) /\ Len(comps) = 0 /\ Len(Rows) \in Nat
  BY EmptyIsSeq, SeqShape DEF Fresh, LayoutOk
<1>6. TypeInv
  BY <1>3, <1>4, <1>5 DEF Fresh, TypeInv, AreComps
<1>7. BuiltInv
  <2>1. header_size = HdrSize + AuthSize(HeaderAuth) + Len(Entries(comps))
    BY Sizes, AuthSizes, NoEntries DEF Fresh
  <2> QED  BY <1>5, <2>1 DEF Fresh, BuiltInv
<1>8. PlacedInv /\ SignedInv /\ WrittenInv
  BY DEF Fresh, PlacedInv, SignedInv, WrittenInv
<1> QED  BY <1>6, <1>7, <1>8 DEF IInv

(* The same after a step.                                                   *)
LEMMA FreshInvNext == Fresh' => IInv'
<1>1. Fresh => IInv
  BY FreshInv
<1> QED  BY <1>1, PTL

(* The first create does.                                                   *)
LEMMA IInvInit == Init => IInv
<1> SUFFICES ASSUME Init
             PROVE  IInv
  OBVIOUS
<1>1. IsLayout(layout) /\ Deep
  BY ContainerAssumption DEF Init, Deep
<1>2. LayoutOk
  <2>1. ASSUME NEW i \in 1..Len(Rows)
        PROVE  RowOk(Rows[i])
    <3>1. IsRow(Rows[i])
      <4>1. i \in DOMAIN layout.rows
        BY <1>1, SeqShape DEF IsLayout, Rows, IsSeq
      <4> QED  BY <1>1, <4>1 DEF IsLayout, Rows
    <3>2. Rows[i].content # <<>> => Fine(Deep, Rows[i].content[1])
      BY <3>1, Zenon DEF IsRow, IsFile, Fine
    <3> QED  BY <3>1, <3>2 DEF IsRow, RowOk
  <2> QED  BY <1>1, <2>1 DEF IsLayout, LayoutOk, IsSeq, Rows
<1>3. Fresh
  BY <1>2 DEF Init, Fresh
<1> QED  BY <1>3, FreshInv

(* A create that fails leaves the invariant.                                *)
LEMMA FailStep ==
  ASSUME IInv, Fail, pc # "written"
  PROVE  IInv'
<1> USE DEF Fail
<1>1. /\ Rows' = Rows /\ LayoutOk' = LayoutOk /\ Deep' = Deep
  BY SameLayout
<1>2. TypeInv'
  BY <1>1 DEF IInv, TypeInv, AreComps
<1>3. BuiltInv' /\ PlacedInv' /\ SignedInv' /\ WrittenInv'
  BY DEF BuiltInv, PlacedInv, SignedInv, WrittenInv
<1> QED  BY <1>2, <1>3 DEF IInv

(* One more entry: header_size grows by what the entry takes.               *)
LEMMA BuildStep ==
  ASSUME IInv, BuildComponent
  PROVE  IInv'
<1> DEFINE r == Rows[index]
           c == Entry(r)
           n == Len(comps)
<1>1. /\ pc = "build" /\ pc' = "build" /\ ~RowFails(index) /\ index <= Len(Rows)
      /\ comps' = Append(comps, c) /\ header_size' = header_size + EntrySize + Len(c.hash)
      /\ index' = index + 1
      /\ layout' = layout /\ alignment' = alignment /\ origin' = origin
      /\ offset' = offset /\ base_offset' = base_offset /\ header' = header /\ file' = file
  BY DEF BuildComponent
<1>2. /\ TypeInv /\ BuiltInv
  BY DEF IInv
<1>3. /\ Rows' = Rows /\ IsMono' = IsMono /\ HeaderAuth' = HeaderAuth
      /\ LayoutOk' = LayoutOk /\ Deep' = Deep
      /\ \A i : RowFails(i)' = RowFails(i)
      /\ \A d, s : Made(d, s)' = Made(d, s) /\ SignedAlone(d, s)' = SignedAlone(d, s)
  BY <1>1, SameLayout
<1>4. /\ LayoutOk /\ alignment \in Nat \ {0} /\ header_size \in Nat /\ AreComps(Deep, comps)
      /\ index \in 1..(Len(Rows) + 1) /\ n <= Len(Rows)
  BY <1>2 DEF TypeInv
<1>5. index = n + 1 /\ header_size = HdrSize + AuthSize(HeaderAuth) + Len(Entries(comps))
      /\ \A i \in 1..n : /\ ~RowFails(i) /\ Made(comps[i], Rows[i])
                         /\ SignedAlone(comps[i], Rows[i])
  BY <1>1, <1>2 DEF BuiltInv
<1>6. IsSeq(comps) /\ n \in Nat /\ Len(Rows) \in Nat /\ \A i \in 1..n : IsComp(Deep, comps[i])
  BY <1>4, SeqShape DEF AreComps, LayoutOk
<1>7. RowOk(r)
  <2>1. index \in 1..Len(Rows)
    BY <1>1, <1>4, <1>6
  <2> QED  BY <1>4, <2>1 DEF LayoutOk
<1>8. IsComp(Deep, c)
  BY <1>4, <1>7, EntryShapes
<1>9. Len(c.hash) \in Nat
  BY <1>8, FineShape DEF IsComp
<1> HIDE DEF c
<1>10. /\ IsSeq(comps') /\ Len(comps') = n + 1 /\ comps'[n + 1] = c
       /\ \A i \in 1..n : comps'[i] = comps[i]
  BY <1>1, <1>6, AppendShape
<1>11. AreComps(Deep, comps')
  <2>1. \A i \in 1..(n + 1) : i \in 1..n \/ i = n + 1
    BY <1>6
  <2> QED  BY <1>6, <1>8, <1>10, <2>1 DEF AreComps
<1>12. TypeInv'
  <2>1. index' \in 1..(Len(Rows) + 1) /\ Len(comps') <= Len(Rows)
    BY <1>1, <1>4, <1>5, <1>6, <1>10
  <2>2. header_size' \in Nat
    <3>1. EntrySize \in Nat /\ header_size \in Nat /\ Len(c.hash) \in Nat
      BY <1>4, <1>9, Sizes
    <3>2. \A a, b, d \in Nat : a + b + d \in Nat
      OBVIOUS
    <3>3. header_size + EntrySize + Len(c.hash) \in Nat
      BY <3>1, <3>2, Zenon
    <3> QED  BY <1>1, <3>3
  <2>3. /\ offset \in Nat /\ base_offset \in Nat \cup {-1}
        /\ header # <<>> => header.data_offset \in 0..(OffsetLimit - 1)
        /\ file # <<>> <=> pc = "written"
    BY <1>2 DEF TypeInv
  <2> HIDE DEF n, r
  <2> QED  BY <1>1, <1>3, <1>4, <1>11, <2>1, <2>2, <2>3 DEF TypeInv
<1>13. BuiltInv'
  <2>1. header_size' = HdrSize + AuthSize(HeaderAuth) + Len(Entries(comps'))
    <3>1. Len(Entries(comps')) = Len(Entries(comps)) + EntrySize + Len(c.hash)
      BY <1>1, <1>4, <1>8, EntriesAppend
    <3>2. Len(Entries(comps)) \in Nat
      BY <1>6, EntriesShape, SeqShape DEF IsComp
    <3>3. HdrSize \in Nat /\ EntrySize \in Nat /\ AuthSize(HeaderAuth) \in Nat
      BY Sizes, AuthSizes
    <3> DEFINE a == AuthSize(HeaderAuth)
               e == Len(Entries(comps))
               l == Len(c.hash)
    <3>4. (HdrSize + a + e) + EntrySize + l = HdrSize + a + (e + EntrySize + l)
      <4>1. a \in Nat /\ e \in Nat /\ l \in Nat
        BY <1>9, <3>2, <3>3
      <4> HIDE DEF a, e, l
      <4> QED  BY <3>3, <4>1
    <3> HIDE DEF n, r
    <3>5. header_size' = (HdrSize + AuthSize(HeaderAuth) + Len(Entries(comps))) + EntrySize + Len(c.hash)
      BY <1>1, <1>5
    <3> QED  BY <3>1, <3>4, <3>5, Zenon
  <2>2. Made(c, r) /\ SignedAlone(c, r)
    BY DEF Made, SignedAlone, c
  <2>3. ASSUME NEW i \in 1..(n + 1)
        PROVE  ~RowFails(i) /\ Made(comps'[i], Rows[i]) /\ SignedAlone(comps'[i], Rows[i])
    <3>1. i \in 1..n \/ i = n + 1
      BY <1>6
    <3>2. CASE i \in 1..n
      BY <1>5, <1>10, <3>2
    <3>3. CASE i = n + 1
      BY <1>1, <1>5, <1>10, <2>2, <3>3
    <3> QED  BY <3>1, <3>2, <3>3
  <2>4. index' = Len(comps') + 1
    BY <1>1, <1>5, <1>10
  <2> HIDE DEF n, r
  <2>5. base_offset' = -1
    BY <1>1, <1>2 DEF BuiltInv
  <2> QED  BY <1>1, <1>3, <1>10, <2>1, <2>3, <2>4, <2>5 DEF BuiltInv
<1>14. PlacedInv' /\ SignedInv' /\ WrittenInv'
  BY <1>1 DEF PlacedInv, SignedInv, WrittenInv
<1> QED  BY <1>12, <1>13, <1>14 DEF IInv

(* All entries are built: the first place is behind the header.             *)
LEMMA BuiltStep ==
  ASSUME IInv, Built
  PROVE  IInv'
<1>1. /\ pc = "build" /\ pc' = "place" /\ index > Len(Rows) /\ ~HeaderFails
      /\ comps' = comps /\ header_size' = header_size /\ index' = 1 /\ offset' = header_size
      /\ layout' = layout /\ alignment' = alignment /\ origin' = origin
      /\ base_offset' = base_offset /\ header' = header /\ file' = file
  BY DEF Built
<1>2. /\ TypeInv /\ BuiltInv
  BY DEF IInv
<1>3. /\ Rows' = Rows /\ IsMono' = IsMono /\ HeaderAuth' = HeaderAuth
      /\ HeaderFails' = HeaderFails /\ LayoutOk' = LayoutOk /\ Deep' = Deep
      /\ \A i : RowFails(i)' = RowFails(i)
      /\ \A d, s : Made(d, s)' = Made(d, s) /\ SignedAlone(d, s)' = SignedAlone(d, s)
  BY <1>1, SameLayout
<1>4. Len(comps) \in Nat /\ Len(Rows) \in Nat /\ Len(comps) <= Len(Rows)
  BY <1>2, SeqShape DEF TypeInv, LayoutOk, AreComps
<1>5. index = Len(comps) + 1 /\ Len(comps) = Len(Rows)
  BY <1>1, <1>2, <1>4 DEF BuiltInv
<1>6. TypeInv'
  BY <1>1, <1>2, <1>3, <1>4 DEF TypeInv
<1>7. BuiltInv'
  BY <1>1, <1>2, <1>3, <1>5 DEF BuiltInv
<1>8. base_offset = -1
  BY <1>1, <1>2 DEF BuiltInv
<1>9. PlacedInv'
  BY <1>1, <1>8 DEF PlacedInv
<1>10. SignedInv' /\ WrittenInv'
  BY <1>1 DEF SignedInv, WrittenInv
<1> QED  BY <1>6, <1>7, <1>9, <1>10 DEF IInv

(* A component at another place is a component.                             *)
LEMMA CompExcept ==
  ASSUME NEW deep, NEW c, IsComp(deep, c), NEW x \in Nat
  PROVE  LET d == [c EXCEPT !.offset = x]
         IN  IsComp(deep, d) /\ d.offset = x /\ SameEntry(d, [c EXCEPT !.offset = x])
             /\ d.name = c.name /\ d.size = c.size /\ d.reserved = c.reserved
             /\ d.alignment = c.alignment /\ d.auth = c.auth /\ d.hash = c.hash
             /\ d.data = c.data /\ d.auth_data = c.auth_data
<1> DEFINE d == [name |-> c.name, offset |-> x, size |-> c.size,
                 reserved |-> c.reserved, alignment |-> c.alignment, auth |-> c.auth,
                 hash |-> c.hash, data |-> c.data, auth_data |-> c.auth_data]
<1>1. [c EXCEPT !.offset = x] = d
  BY DEF IsComp
<1>2. /\ d.offset = x /\ d.name = c.name /\ d.size = c.size /\ d.reserved = c.reserved
      /\ d.alignment = c.alignment /\ d.auth = c.auth /\ d.hash = c.hash
      /\ d.data = c.data /\ d.auth_data = c.auth_data
  OBVIOUS
<1>3. d = [name |-> d.name, offset |-> d.offset, size |-> d.size,
           reserved |-> d.reserved, alignment |-> d.alignment, auth |-> d.auth,
           hash |-> d.hash, data |-> d.data, auth_data |-> d.auth_data]
  OBVIOUS
<1> HIDE DEF d
<1>4. IsComp(deep, d)
  BY <1>2, <1>3 DEF IsComp
<1> QED  BY <1>1, <1>2, <1>4 DEF SameEntry

(* The place is behind the last component, and aligned.                    *)
LEMMA PlaceAtShape ==
  ASSUME NEW c, c.alignment \in Nat \ {0}, offset \in Nat
  PROVE  /\ PlaceAt(c) \in Nat /\ offset <= PlaceAt(c)
         /\ PlaceAt(c) % c.alignment = 0 \/ (PlaceAt(c) + LzSize) % c.alignment = 0
         /\ c.alignment % Pad = 0 => PlaceAt(c) % Pad = 0
<1> DEFINE next == AlignUp(offset, c.alignment)
<1>1. next \in Nat /\ next % c.alignment = 0 /\ offset <= next
  BY Aligned
<1>2. LzSize \in Nat /\ Pad \in Nat \ {0} /\ LzSize % Pad = 0
  BY Sizes, ContainerAssumption
<1>3. ASSUME c.alignment % Pad = 0
      PROVE  next % Pad = 0 /\ (next - LzSize) % Pad = 0
  <2>1. next \in Int /\ LzSize \in Int
    BY <1>1, <1>2
  <2>2. next % Pad = 0
    BY <1>1, <1>2, <1>3, <2>1, MultipleOfMultiple, Zenon
  <2> QED  BY <1>2, <2>1, <2>2, SumOfMultiples
<1>4. PlaceAt(c) = IF IsMono /\ next - offset >= LzSize THEN next - LzSize ELSE next
  BY DEF PlaceAt
<1> HIDE DEF next
<1>5. CASE IsMono /\ next - offset >= LzSize
  <2>1. PlaceAt(c) = next - LzSize
    BY <1>4, <1>5
  <2>2. next - LzSize \in Nat /\ offset <= next - LzSize /\ (next - LzSize) + LzSize = next
    BY <1>1, <1>2, <1>5
  <2> QED  BY <1>1, <1>3, <2>1, <2>2
<1>6. CASE ~(IsMono /\ next - offset >= LzSize)
  <2>1. PlaceAt(c) = next
    BY <1>4, <1>6
  <2> QED  BY <1>1, <1>3, <2>1
<1> QED  BY <1>5, <1>6

(* One more place: behind the places before, aligned, and padded if all is. *)
LEMMA PlaceStep ==
  ASSUME IInv, PlaceComponent
  PROVE  IInv'
<1> DEFINE n == index - 1
           c == comps[index]
           at == PlaceAt(c)
           base == IF base_offset = -1 THEN at ELSE base_offset
           d == [c EXCEPT !.offset = at - base]
<1>1. /\ pc = "place" /\ pc' = "place" /\ index <= Len(comps)
      /\ comps' = [comps EXCEPT ![index] = d] /\ header_size' = header_size
      /\ index' = index + 1 /\ offset' = at + c.size /\ base_offset' = base
      /\ layout' = layout /\ alignment' = alignment /\ origin' = origin
      /\ header' = header /\ file' = file
  BY DEF PlaceComponent
<1>2. TypeInv /\ BuiltInv /\ PlacedInv
  BY DEF IInv
<1>3. /\ Rows' = Rows /\ IsMono' = IsMono /\ HeaderAuth' = HeaderAuth
      /\ HeaderFails' = HeaderFails /\ LayoutOk' = LayoutOk /\ Deep' = Deep
      /\ \A i : RowFails(i)' = RowFails(i)
      /\ \A e, s : Made(e, s)' = Made(e, s) /\ SignedAlone(e, s)' = SignedAlone(e, s)
  BY <1>1, SameLayout
<1>4. /\ LayoutOk /\ alignment \in Nat \ {0} /\ header_size \in Nat /\ AreComps(Deep, comps)
      /\ index \in 1..(Len(Rows) + 1) /\ Len(comps) <= Len(Rows) /\ offset \in Nat
  BY <1>2 DEF TypeInv
<1>5. IsSeq(comps) /\ Len(comps) \in Nat /\ DOMAIN comps = 1..Len(comps) /\ Len(Rows) \in Nat
      /\ \A i \in 1..Len(comps) : IsComp(Deep, comps[i])
  BY <1>4, SeqShape DEF AreComps, LayoutOk
<1>6. index \in 1..Len(comps) /\ n \in Nat /\ 1 \in 1..Len(comps)
  BY <1>1, <1>4, <1>5
<1>7. IsComp(Deep, c) /\ c.alignment \in Nat \ {0} /\ c.size \in Nat
  BY <1>5, <1>6 DEF IsComp
<1>8. /\ n = 0 => offset = header_size /\ base_offset = -1
      /\ n > 0 => /\ base_offset \in Nat /\ base_offset <= offset
                  /\ base_offset = FirstPlace(AlignUp(header_size, comps[1].alignment))
                  /\ Padded => base_offset % Pad = 0
      /\ \A i, j \in 1..n : i < j => comps[i].offset + comps[i].size <= comps[j].offset
      /\ \A i \in 1..n :
           /\ comps[i].offset + comps[i].size <= offset - base_offset
           /\ Padded => comps[i].offset % Pad = 0
           /\ \/ (base_offset + comps[i].offset) % comps[i].alignment = 0
              \/ (base_offset + comps[i].offset + LzSize) % comps[i].alignment = 0
  BY <1>1, <1>2 DEF PlacedInv
<1>9. /\ at \in Nat /\ offset <= at
      /\ at % c.alignment = 0 \/ (at + LzSize) % c.alignment = 0
      /\ c.alignment % Pad = 0 => at % Pad = 0
  BY <1>4, <1>7, PlaceAtShape
<1>10. /\ base \in Nat /\ base <= at /\ at - base \in Nat
       /\ n > 0 => base = base_offset
       /\ n = 0 => base = at
  <2>1. CASE n = 0
    BY <1>8, <1>9, <2>1
  <2>2. CASE n > 0
    BY <1>4, <1>8, <1>9, <2>2
  <2> QED  BY <1>6, <2>1, <2>2
<1>11. /\ IsComp(Deep, d) /\ d.offset = at - base /\ d.name = c.name /\ d.size = c.size
       /\ d.reserved = c.reserved /\ d.alignment = c.alignment /\ d.auth = c.auth
       /\ d.hash = c.hash /\ d.data = c.data /\ d.auth_data = c.auth_data
  BY <1>7, <1>10, CompExcept
<1>12. n = 0 => base = FirstPlace(AlignUp(header_size, c.alignment))
  BY <1>8, <1>10 DEF PlaceAt, FirstPlace
<1> HIDE DEF at, base, d
<1>13. /\ IsSeq(comps') /\ Len(comps') = Len(comps)
       /\ \A i \in 1..Len(comps) : comps'[i] = IF i = index THEN d ELSE comps[i]
  BY <1>1, <1>5, <1>6, ExceptShape
<1>14. \A i \in 1..Len(comps) :
         /\ comps'[i].size = comps[i].size /\ comps'[i].alignment = comps[i].alignment
         /\ comps'[i].hash = comps[i].hash /\ IsComp(Deep, comps'[i])
         /\ \A s : /\ Made(comps[i], s) => Made(comps'[i], s)
                   /\ SignedAlone(comps[i], s) => SignedAlone(comps'[i], s)
  <2>1. \A s : /\ Made(c, s) => Made(d, s)
               /\ SignedAlone(c, s) => SignedAlone(d, s)
    BY <1>11, Zenon DEF Made, SignedAlone
  <2> QED  BY <1>5, <1>11, <1>13, <2>1
<1>15. DOMAIN comps' = 1..Len(comps) /\ Padded' = Padded
  BY <1>1, <1>5, <1>13, <1>14, SeqShape, Zenon DEF Padded
<1>16. TypeInv'
  <2>1. AreComps(Deep, comps')
    BY <1>13, <1>14 DEF AreComps
  <2>2. index' \in 1..(Len(Rows) + 1) /\ Len(comps') <= Len(Rows)
    BY <1>1, <1>4, <1>5, <1>6, <1>13
  <2>3. offset' \in Nat /\ base_offset' \in Nat
    BY <1>1, <1>7, <1>9, <1>10
  <2>4. /\ header # <<>> => header.data_offset \in 0..(OffsetLimit - 1)
        /\ file # <<>> <=> pc = "written"
    BY <1>2 DEF TypeInv
  <2> HIDE DEF c, n
  <2> QED  BY <1>1, <1>3, <1>4, <2>1, <2>2, <2>3, <2>4 DEF TypeInv
<1>17. BuiltInv'
  <2>1. /\ Len(comps) = Len(Rows) /\ ~HeaderFails
        /\ header_size = HdrSize + AuthSize(HeaderAuth) + Len(Entries(comps))
        /\ \A i \in 1..Len(comps) : /\ ~RowFails(i) /\ Made(comps[i], Rows[i])
                                    /\ SignedAlone(comps[i], Rows[i])
    BY <1>1, <1>2 DEF BuiltInv
  <2>2. Len(Entries(comps')) = Len(Entries(comps))
    <3>1. \A i \in 1..Len(comps) : Fine(Deep, comps[i].hash) /\ Fine(Deep, comps'[i].hash)
      BY <1>5, <1>14 DEF IsComp
    <3> QED  BY <1>5, <1>13, <1>14, <3>1, EntriesLen
  <2> HIDE DEF c, n
  <2> QED  BY <1>1, <1>3, <1>13, <1>14, <2>1, <2>2 DEF BuiltInv
<1>18. PlacedInv'
  <2> DEFINE m == index' - 1
  <2>1. m = n + 1 /\ m = index /\ m > 0 /\ m \in 1..Len(comps)
    BY <1>1, <1>6
  <2>2. base_offset' \in Nat /\ base_offset' <= offset'
    BY <1>1, <1>7, <1>9, <1>10
  <2>3. base_offset' = FirstPlace(AlignUp(header_size, comps'[1].alignment))
    <3>1. comps'[1].alignment = comps[1].alignment
      BY <1>6, <1>14
    <3>2. CASE n = 0
      BY <1>1, <1>12, <3>1, <3>2
    <3>3. CASE n > 0
      BY <1>1, <1>8, <1>10, <3>1, <3>3
    <3> QED  BY <1>6, <3>2, <3>3
  <2>4. FirstPlace(AlignUp(header_size, comps'[1].alignment))
          = FirstPlace(AlignUp(header_size, comps[1].alignment))'
    BY <1>1, <1>3 DEF FirstPlace
  <2>5. ASSUME Padded
        PROVE  base % Pad = 0 /\ (at - base) % Pad = 0
    <3>1. at % Pad = 0
      BY <1>5, <1>6, <1>9, <2>5 DEF Padded
    <3>2. CASE n = 0
      <4>1. at - base = 0 /\ base = at
        BY <1>9, <1>10, <3>2
      <4>2. 0 % Pad = 0
        BY Sizes
      <4> QED  BY <3>1, <4>1, <4>2
    <3>3. CASE n > 0
      <4>1. base % Pad = 0
        BY <1>8, <1>10, <2>5, <3>3
      <4>2. at \in Int /\ base \in Int /\ Pad \in Nat \ {0}
        BY <1>9, <1>10, Sizes
      <4> QED  BY <3>1, <4>1, <4>2, SumOfMultiples
    <3> QED  BY <1>6, <3>2, <3>3
  <2>6. ASSUME NEW i \in 1..m, NEW j \in 1..m, i < j
        PROVE  comps'[i].offset + comps'[i].size <= comps'[j].offset
    <3>1. i \in 1..n /\ i # index /\ i \in 1..Len(comps) /\ j \in 1..Len(comps)
      BY <1>6, <2>1, <2>6
    <3>2. comps'[i] = comps[i]
      BY <1>13, <3>1
    <3>3. CASE j = index
      <4>1. comps'[j].offset = at - base
        BY <1>11, <1>13, <3>1, <3>3
      <4>2. comps[i].offset + comps[i].size <= offset - base
        BY <1>6, <1>8, <1>10, <3>1
      <4>3. comps[i].offset \in Nat /\ comps[i].size \in Nat
        BY <1>5, <3>1 DEF IsComp
      <4> QED  BY <1>4, <1>9, <1>10, <3>2, <4>1, <4>2, <4>3
    <3>4. CASE j # index
      <4>1. j \in 1..n
        BY <1>6, <2>1, <3>1, <3>4
      <4> QED  BY <1>8, <1>13, <2>6, <3>1, <3>2, <3>4, <4>1
    <3> QED  BY <3>3, <3>4
  <2>7. ASSUME NEW i \in 1..m
        PROVE  /\ comps'[i].offset + comps'[i].size <= offset' - base_offset'
               /\ Padded => comps'[i].offset % Pad = 0
               /\ \/ (base_offset' + comps'[i].offset) % comps'[i].alignment = 0
                  \/ (base_offset' + comps'[i].offset + LzSize) % comps'[i].alignment = 0
    <3>1. i \in 1..Len(comps)
      BY <1>6, <2>1
    <3>2. CASE i = index
      <4>1. comps'[i] = d
        BY <1>13, <3>1, <3>2
      <4>2. base + (at - base) = at /\ (at - base) + c.size <= (at + c.size) - base
        BY <1>7, <1>9, <1>10
      <4> QED  BY <1>1, <1>9, <1>11, <2>5, <4>1, <4>2
    <3>3. CASE i # index
      <4>1. i \in 1..n /\ comps'[i] = comps[i] /\ n > 0
        BY <1>6, <1>13, <2>1, <3>1, <3>3
      <4>2. base_offset' = base_offset
        BY <1>1, <1>10, <4>1
      <4>3. offset - base_offset <= offset' - base_offset'
        BY <1>1, <1>4, <1>7, <1>8, <1>9, <4>1, <4>2
      <4>4. comps[i].offset + comps[i].size <= offset' - base_offset'
        <5>1. comps[i].offset \in Nat /\ comps[i].size \in Nat
          BY <1>5, <3>1 DEF IsComp
        <5>2. comps[i].offset + comps[i].size <= offset - base_offset
          BY <1>8, <4>1
        <5>3. offset' \in Nat /\ base_offset \in Nat
          BY <1>1, <1>7, <1>8, <1>9, <4>1
        <5>4. offset - base_offset <= offset' - base_offset
          BY <4>2, <4>3
        <5>5. comps[i].offset + comps[i].size <= offset' - base_offset
          <6>1. comps[i].offset + comps[i].size \in Int
            BY <5>1
          <6>2. offset - base_offset \in Int /\ offset' - base_offset \in Int
            BY <1>4, <5>3
          <6> QED  BY <5>2, <5>4, <6>1, <6>2, AtMost
        <5> QED  BY <4>2, <5>5
      <4> QED  BY <1>8, <4>1, <4>2, <4>4
    <3> QED  BY <3>2, <3>3
  <2> HIDE DEF c, n
  <2> QED  BY <1>1, <1>15, <2>1, <2>2, <2>3, <2>4, <2>5, <2>6, <2>7 DEF PlacedInv
<1>19. SignedInv' /\ WrittenInv'
  BY <1>1 DEF SignedInv, WrittenInv
<1> QED  BY <1>16, <1>17, <1>18, <1>19 DEF IInv

(* All places are given.                                                    *)
LEMMA PlacedStep ==
  ASSUME IInv, Placed
  PROVE  IInv'
<1>1. /\ pc = "place" /\ pc' = IF IsMono THEN "sign" ELSE "write"
      /\ index > Len(comps)
      /\ comps' = comps /\ header_size' = header_size /\ index' = index /\ offset' = offset
      /\ layout' = layout /\ alignment' = alignment /\ origin' = origin
      /\ base_offset' = base_offset /\ header' = header /\ file' = file
  BY DEF Placed
<1>2. TypeInv /\ BuiltInv /\ PlacedInv
  BY DEF IInv
<1>3. /\ Rows' = Rows /\ IsMono' = IsMono /\ HeaderAuth' = HeaderAuth
      /\ HeaderFails' = HeaderFails /\ LayoutOk' = LayoutOk /\ Deep' = Deep
      /\ \A i : RowFails(i)' = RowFails(i)
      /\ \A e, s : Made(e, s)' = Made(e, s) /\ SignedAlone(e, s)' = SignedAlone(e, s)
  BY <1>1, SameLayout
<1>4. Len(comps) = Len(Rows) /\ Len(Rows) \in Nat /\ index \in 1..(Len(Rows) + 1)
  BY <1>1, <1>2, SeqShape DEF BuiltInv, TypeInv, LayoutOk
<1>5. TypeInv'
  BY <1>1, <1>2, <1>3, <1>4 DEF TypeInv
<1>6. BuiltInv'
  <2>1. index = Len(comps) + 1
    BY <1>1, <1>4
  <2> QED  BY <1>1, <1>2, <1>3, <1>4, <2>1 DEF BuiltInv
<1>7. PlacedInv'
  <2>1. Padded' = Padded
    BY <1>1 DEF Padded
  <2>2. \A next : FirstPlace(next)' = FirstPlace(next)
    BY <1>1, <1>3 DEF FirstPlace
  <2> QED  BY <1>1, <1>2, <2>1, <2>2, Zenon DEF PlacedInv
<1>8. SignedInv'
  BY <1>1, <1>3 DEF SignedInv
<1>9. WrittenInv'
  BY <1>1 DEF WrittenInv
<1> QED  BY <1>5, <1>6, <1>7, <1>8, <1>9 DEF IInv

(* adjust_header depends on the layout and the size of the header.          *)
LEMMA SameAdjusted ==
  ASSUME layout' = layout, alignment' = alignment, header_size' = header_size
  PROVE  \A cs : Adjusted(cs)' = Adjusted(cs)
<1>1. Rows' = Rows
  BY DEF Rows
<1>2. IsMono' = IsMono
  BY <1>1 DEF IsMono
<1>3. HeaderAuth' = HeaderAuth
  BY DEF HeaderAuth
<1> QED  BY <1>2, <1>3, Zenon DEF Adjusted

SignedBy(c, f, auth, key) ==
  [c EXCEPT !.hash = HashData(f, auth, key), !.auth_data = Signature(f, auth, key)]

(* A component with another hash and signature of its type is a component.  *)
LEMMA CompSigned ==
  ASSUME NEW deep, NEW c, IsComp(deep, c), NEW f, NEW key
  PROVE  LET d == SignedBy(c, f, c.auth, key)
         IN  IsComp(deep, d)
             /\ d.hash = HashData(f, c.auth, key) /\ d.auth_data = Signature(f, c.auth, key)
             /\ Len(d.hash) = Len(c.hash)
             /\ d.name = c.name /\ d.size = c.size /\ d.reserved = c.reserved
             /\ d.offset = c.offset
             /\ d.alignment = c.alignment /\ d.auth = c.auth /\ d.data = c.data
<1> DEFINE a == HashData(f, c.auth, key)
           b == Signature(f, c.auth, key)
           e == [name |-> c.name, offset |-> c.offset, size |-> c.size,
                 reserved |-> c.reserved, alignment |-> c.alignment, auth |-> c.auth,
                 hash |-> a, data |-> c.data, auth_data |-> c.auth_data]
           d == [name |-> c.name, offset |-> c.offset, size |-> c.size,
                 reserved |-> c.reserved, alignment |-> c.alignment, auth |-> c.auth,
                 hash |-> a, data |-> c.data, auth_data |-> b]
<1>0. Fine(deep, a) /\ Fine(deep, b) /\ Len(a) = HashLen(c.auth)
  BY HashDataShape, SignatureShape
<1> HIDE DEF a, b
<1>1. [c EXCEPT !.hash = a, !.auth_data = b] = d
  <2>1. [c EXCEPT !.hash = a] = e
    BY DEF IsComp
  <2>2. [e EXCEPT !.auth_data = b] = d
    OBVIOUS
  <2> HIDE DEF e, d
  <2> QED  BY <2>1, <2>2
<1>2. /\ d.offset = c.offset /\ d.name = c.name /\ d.size = c.size /\ d.reserved = c.reserved
      /\ d.alignment = c.alignment /\ d.auth = c.auth /\ d.hash = a
      /\ d.data = c.data /\ d.auth_data = b
  OBVIOUS
<1>3. d = [name |-> d.name, offset |-> d.offset, size |-> d.size,
           reserved |-> d.reserved, alignment |-> d.alignment, auth |-> d.auth,
           hash |-> d.hash, data |-> d.data, auth_data |-> d.auth_data]
  OBVIOUS
<1> HIDE DEF d
<1>4. IsComp(deep, d)
  BY <1>0, <1>2, <1>3 DEF IsComp
<1>5. Len(c.hash) = Len(a)
  BY <1>0 DEF IsComp
<1> QED  BY <1>1, <1>2, <1>4, <1>5 DEF a, b, SignedBy

(* The places stay when offsets, sizes and alignments do.                   *)
LEMMA PlacedKept ==
  ASSUME PlacedInv, pc \notin {"build", "failed"}, layout' = layout, alignment' = alignment,
         header_size' = header_size, index' = index, offset' = offset,
         base_offset' = base_offset, IsSeq(comps), IsSeq(comps'), Len(comps') = Len(comps),
         index - 1 \in 0..Len(comps),
         \A i \in 1..Len(comps) : /\ comps'[i].offset = comps[i].offset
                                  /\ comps'[i].size = comps[i].size
                                  /\ comps'[i].alignment = comps[i].alignment
  PROVE  PlacedInv'
<1> DEFINE n == index - 1
<1>1. Rows' = Rows
  BY DEF Rows
<1>2. IsMono' = IsMono
  BY <1>1 DEF IsMono
<1>3. \A next : FirstPlace(next)' = FirstPlace(next)
  BY <1>2 DEF FirstPlace
<1>4. Padded' = Padded
  BY SeqShape, Zenon DEF Padded
<1>5. Len(comps) \in Nat /\ n \in Nat /\ \A i \in 1..n : i \in 1..Len(comps)
  BY SeqShape
<1>6. n > 0 => 1 \in 1..Len(comps)
  BY <1>5
<1>7. /\ n = 0 => offset = header_size /\ base_offset = -1
      /\ n > 0 => /\ base_offset \in Nat /\ base_offset <= offset
                  /\ base_offset = FirstPlace(AlignUp(header_size, comps[1].alignment))
                  /\ Padded => base_offset % Pad = 0
      /\ \A i, j \in 1..n : i < j => comps[i].offset + comps[i].size <= comps[j].offset
      /\ \A i \in 1..n :
           /\ comps[i].offset + comps[i].size <= offset - base_offset
           /\ Padded => comps[i].offset % Pad = 0
           /\ \/ (base_offset + comps[i].offset) % comps[i].alignment = 0
              \/ (base_offset + comps[i].offset + LzSize) % comps[i].alignment = 0
  BY DEF PlacedInv
<1>8. /\ \A i, j \in 1..n : i < j => comps'[i].offset + comps'[i].size <= comps'[j].offset
      /\ \A i \in 1..n :
           /\ comps'[i].offset + comps'[i].size <= offset' - base_offset'
           /\ Padded' => comps'[i].offset % Pad = 0
           /\ \/ (base_offset' + comps'[i].offset) % comps'[i].alignment = 0
              \/ (base_offset' + comps'[i].offset + LzSize) % comps'[i].alignment = 0
  BY <1>4, <1>5, <1>7, Zenon
<1>9. index' - 1 = n
  OBVIOUS
<1> HIDE DEF n
<1> QED  BY <1>3, <1>4, <1>6, <1>7, <1>8, <1>9, Zenon DEF PlacedInv

(* The last entry signs what lies in front of it: only its hash and         *)
(* signature change, not the length of the entries.                         *)
LEMMA SignStep ==
  ASSUME IInv, SignAll
  PROVE  IInv'
<1> DEFINE h == Adjusted(comps)
           n == Len(comps)
           c == comps[n]
           r == Rows[n]
           data == Slice(GetData(h), h.data_offset, h.data_offset + c.offset)
           a == HashData(data, r.auth, r.key)
           b == Signature(data, r.auth, r.key)
           d == SignedBy(c, data, r.auth, r.key)
<1>1. /\ pc = "sign" /\ pc' = "write" /\ FitsRegions(h)
      /\ comps' = [comps EXCEPT ![n].hash = a, ![n].auth_data = b]
      /\ header' = h
      /\ header_size' = header_size /\ index' = index /\ offset' = offset
      /\ layout' = layout /\ alignment' = alignment /\ origin' = origin
      /\ base_offset' = base_offset /\ file' = file
  BY DEF SignAll
<1>2. TypeInv /\ BuiltInv /\ PlacedInv
  BY DEF IInv
<1>3. /\ Rows' = Rows /\ IsMono' = IsMono /\ HeaderAuth' = HeaderAuth
      /\ HeaderFails' = HeaderFails /\ LayoutOk' = LayoutOk /\ Deep' = Deep
      /\ \A i : RowFails(i)' = RowFails(i)
      /\ \A e, s : Made(e, s)' = Made(e, s) /\ SignedAlone(e, s)' = SignedAlone(e, s)
  BY <1>1, SameLayout
<1>4. /\ LayoutOk /\ alignment \in Nat \ {0} /\ header_size \in Nat /\ AreComps(Deep, comps)
      /\ index \in 1..(Len(Rows) + 1) /\ Len(comps) <= Len(Rows) /\ offset \in Nat
      /\ base_offset \in Nat \cup {-1}
  BY <1>2 DEF TypeInv
<1>5. IsSeq(comps) /\ n \in Nat /\ Len(Rows) \in Nat /\ IsSeq(Rows)
      /\ \A i \in 1..n : IsComp(Deep, comps[i])
  BY <1>4, SeqShape DEF AreComps, LayoutOk
<1>6. /\ index = n + 1 /\ IsMono /\ n = Len(Rows) /\ ~HeaderFails
      /\ header_size = HdrSize + AuthSize(HeaderAuth) + Len(Entries(comps))
      /\ \A i \in 1..n : /\ ~RowFails(i) /\ Made(comps[i], Rows[i])
                         /\ SignedAlone(comps[i], Rows[i])
  BY <1>1, <1>2 DEF BuiltInv
<1>7. n \in 1..n
  <2>1. Rows # <<>>
    BY <1>6 DEF IsMono
  <2>2. Len(Rows) # 0
    BY <1>5, <2>1, EmptyIsSeq, SeqSame
  <2> QED  BY <1>5, <1>6, <2>2
<1>8. IsComp(Deep, c) /\ Made(c, r) /\ SignedAlone(c, r) /\ c.auth = r.auth
  <2>1. RowOk(r)
    BY <1>4, <1>6, <1>7 DEF LayoutOk
  <2>2. Entry(r).auth = r.auth
    BY <1>4, <2>1, EntryShapes
  <2> QED  BY <1>5, <1>6, <1>7, <2>2 DEF Made
<1>9. /\ h.comps = comps /\ h.data_offset \in 0..(OffsetLimit - 1) /\ IsHeader(Deep, h)
      /\ h.mono = IsMono
  BY <1>4, <1>6, AdjustedShape
<1> HIDE DEF data, h, r, c
<1>10. /\ IsComp(Deep, d) /\ d.hash = a /\ d.auth_data = b /\ Len(d.hash) = Len(c.hash)
       /\ d.name = c.name /\ d.size = c.size /\ d.reserved = c.reserved
       /\ d.offset = c.offset
       /\ d.alignment = c.alignment /\ d.auth = c.auth /\ d.data = c.data
  <2> DEFINE e == SignedBy(c, data, c.auth, r.key)
  <2>1. IsComp(Deep, c) /\ r.auth = c.auth
    BY <1>8
  <2>2. /\ IsComp(Deep, e)
        /\ e.hash = HashData(data, c.auth, r.key) /\ e.auth_data = Signature(data, c.auth, r.key)
        /\ Len(e.hash) = Len(c.hash)
        /\ e.name = c.name /\ e.size = c.size /\ e.reserved = c.reserved
        /\ e.offset = c.offset
        /\ e.alignment = c.alignment /\ e.auth = c.auth /\ e.data = c.data
    BY <2>1, CompSigned
  <2>3. e = d /\ HashData(data, c.auth, r.key) = a /\ Signature(data, c.auth, r.key) = b
    BY <2>1
  <2> HIDE DEF e, d, a, b
  <2> QED  BY <2>2, <2>3
<1>11. comps' = [comps EXCEPT ![n] = d]
  <2>1. n \in DOMAIN comps
    BY <1>5, <1>7, SeqShape
  <2>2. d = [c EXCEPT !.hash = a, !.auth_data = b]
    BY DEF SignedBy
  <2> HIDE DEF n, a, b, d
  <2> QED  BY <1>1, <2>1, <2>2 DEF c
<1> HIDE DEF a, b, d
<1>12. /\ IsSeq(comps') /\ Len(comps') = n
       /\ \A i \in 1..n : comps'[i] = IF i = n THEN d ELSE comps[i]
  <2> DEFINE s == [comps EXCEPT ![n] = d]
  <2>1. /\ IsSeq(s) /\ Len(s) = n
        /\ \A i \in 1..n : s[i] = IF i = n THEN d ELSE comps[i]
    BY <1>5, <1>7, ExceptShape
  <2> HIDE DEF s
  <2> QED  BY <1>11, <2>1 DEF s
<1>13. \A i \in 1..n :
         /\ comps'[i].size = comps[i].size /\ comps'[i].alignment = comps[i].alignment
         /\ comps'[i].offset = comps[i].offset
         /\ Len(comps'[i].hash) = Len(comps[i].hash) /\ IsComp(Deep, comps'[i])
         /\ Made(comps'[i], Rows[i])
  <2>1. Made(d, r)
    BY <1>8, <1>10 DEF Made
  <2> HIDE DEF n
  <2> QED  BY <1>5, <1>6, <1>10, <1>12, <2>1 DEF c, r
<1>14. TypeInv'
  <2>1. AreComps(Deep, comps')
    BY <1>12, <1>13 DEF AreComps
  <2>2. header'.data_offset \in 0..(OffsetLimit - 1)
    BY <1>1, <1>9
  <2>3. file # <<>> <=> pc = "written"
    BY <1>2 DEF TypeInv
  <2> HIDE DEF n
  <2> QED  BY <1>1, <1>3, <1>4, <1>6, <1>12, <2>1, <2>2, <2>3 DEF TypeInv, n
<1>15. BuiltInv'
  <2>1. Len(Entries(comps')) = Len(Entries(comps))
    <3>1. \A i \in 1..Len(comps) : Fine(Deep, comps[i].hash) /\ Fine(Deep, comps'[i].hash)
      BY <1>5, <1>13 DEF IsComp
    <3> QED  BY <1>5, <1>12, <1>13, <3>1, EntriesLen
  <2>2. ASSUME NEW i \in 1..n
        PROVE  \/ i = n
               \/ SignedAlone(comps'[i], Rows[i])
    BY <1>6, <1>12
  <2> HIDE DEF n
  <2> QED  BY <1>1, <1>3, <1>6, <1>12, <1>13, <2>1, <2>2 DEF BuiltInv
<1>16. PlacedInv'
  <2>1. index - 1 \in 0..Len(comps)
    BY <1>5, <1>6
  <2> QED  BY <1>1, <1>2, <1>5, <1>12, <1>13, <2>1, PlacedKept
<1>17. SignedInv'
  <2>1. h.comps[n] = c
    BY <1>9 DEF c
  <2>2. [comps' EXCEPT ![n] = c] = comps
    <3> DEFINE s == [comps' EXCEPT ![n] = c]
    <3>1. /\ IsSeq(s) /\ Len(s) = n
          /\ \A i \in 1..n : s[i] = IF i = n THEN c ELSE comps'[i]
      BY <1>7, <1>12, ExceptShape
    <3> HIDE DEF s
    <3>2. \A i \in 1..n : s[i] = comps[i]
      BY <1>12, <3>1 DEF c
    <3>3. s = comps
      BY <1>5, <3>1, <3>2, SeqSame
    <3> QED  BY <3>3 DEF s
  <2>3. header' = Adjusted([comps' EXCEPT ![n] = c])
    BY <1>1, <2>2 DEF h
  <2>4. comps'[n] = d /\ comps'[n].offset = c.offset
    BY <1>7, <1>10, <1>12
  <2>5. \A cs : Adjusted(cs)' = Adjusted(cs)
    BY <1>1, SameAdjusted
  <2>6. /\ IsComp(Deep', c) /\ SignedAlone(c, r) /\ Made(c, r)
        /\ c.offset = comps'[n].offset
    BY <1>3, <1>8, <2>4
  <2>7. header'.comps[n] = c /\ Rows'[n] = r
    BY <1>1, <1>3, <2>1 DEF r
  <2>8. /\ comps'[n].hash = HashData(data, r.auth, r.key)
        /\ comps'[n].auth_data = Signature(data, r.auth, r.key)
    BY <1>10, <2>4 DEF a, b
  <2>9. data = Slice(GetData(header'), header'.data_offset, header'.data_offset + comps'[n].offset)
    BY <1>1, <2>4 DEF data
  <2>10. FitsRegions(header')
    BY <1>1
  <2> HIDE DEF n
  <2> QED  BY <1>3, <1>12, <2>3, <2>5, <2>6, <2>7, <2>8, <2>9, <2>10, Zenon
           DEF SignedInv, BeforeSigning
<1>18. WrittenInv'
  BY <1>1 DEF WrittenInv
<1> QED  BY <1>14, <1>15, <1>16, <1>17, <1>18 DEF IInv

(* A component's signature is as long as its type says, if its key is of   *)
(* the type.                                                               *)
LEMMA SignatureLenMatches ==
  ASSUME NEW i \in 1..Len(Rows), IsSeq(Rows), KeysMatch(Rows)
  PROVE  SignatureLen(Rows[i].auth, Rows[i].key) = AuthSize(Rows[i].auth)
<1>1. i \in DOMAIN Rows
  BY SeqShape
<1>2. CASE IsRsa(Rows[i].auth)
  BY <1>1, <1>2, Zenon DEF KeysMatch, SignatureLen
<1>3. CASE ~IsRsa(Rows[i].auth)
  <2>1. SignatureLen(Rows[i].auth, Rows[i].key) = 0
    BY <1>3 DEF SignatureLen
  <2>2. AuthSize(Rows[i].auth) = 0
    BY <1>3 DEF AuthSize, IsRsa
  <2> QED  BY <2>1, <2>2
<1> QED  BY <1>2, <1>3

(* Places and lengths are numbers.                                          *)
LEMMA BodyNat ==
  ASSUME NEW deep, NEW h, IsHeader(deep, h), NEW i \in 1..Len(h.comps)
  PROVE  From(h, i) \in Nat /\ Len(Body(h.comps[i])) \in Nat /\ h.comps[i].offset \in Nat
         /\ h.comps[i].size \in Nat /\ From(h, i) = h.data_offset + h.comps[i].offset
<1>1. IsComp(deep, h.comps[i]) /\ h.data_offset \in Nat
  BY DEF IsHeader, AreComps
<1>2. IsSeq(Body(h.comps[i]))
  BY <1>1, BodyShape DEF IsComp
<1> QED  BY <1>1, <1>2, SeqShape DEF IsComp, From

(* Regions that are apart all end before data_size.                         *)
LEMMA EndsInside ==
  ASSUME NEW cs, AreComps(Deep, cs), Apart(cs), alignment \in Nat \ {0},
         NEW i \in 1..Len(cs)
  PROVE  LET last == cs[Len(cs)].offset + cs[Len(cs)].size
         IN  cs # <<>> /\ cs[i].offset + cs[i].size <= AlignUp(last, alignment)
<1> DEFINE n == Len(cs)
           last == cs[n].offset + cs[n].size
<1>1. IsSeq(cs) /\ n \in Nat /\ \A k \in 1..n : IsComp(Deep, cs[k])
  BY SeqShape DEF AreComps
<1>2. n \in 1..n /\ cs # <<>>
  BY <1>1, EmptyIsSeq
<1>3. /\ cs[i].offset \in Nat /\ cs[i].size \in Nat
      /\ cs[n].offset \in Nat /\ cs[n].size \in Nat
  BY <1>1, <1>2 DEF IsComp
<1>4. last \in Nat
  BY <1>3
<1>5. last <= AlignUp(last, alignment) /\ AlignUp(last, alignment) \in Nat
  <2> HIDE DEF last
  <2> QED  BY <1>4, Aligned
<1>6. cs[i].offset + cs[i].size <= last
  <2>1. CASE i = n
    BY <1>3, <2>1
  <2>2. CASE i # n
    <3>1. i < n
      BY <1>1, <2>2
    <3>2. cs[i].offset + cs[i].size <= cs[n].offset
      BY <1>2, <3>1 DEF Apart
    <3> QED  BY <1>3, <3>2
  <2> QED  BY <2>1, <2>2
<1>7. cs[i].offset + cs[i].size \in Nat
  BY <1>3
<1> HIDE DEF last
<1>8. cs[i].offset + cs[i].size <= AlignUp(last, alignment)
  BY <1>4, <1>5, <1>6, <1>7, AtMost
<1> QED  BY <1>2, <1>8 DEF last

(* Without the wrap-around of data_offset the header ends before the        *)
(* components begin: header_size is what the entries take, and the padding  *)
(* between them and the signature is no longer than the alignment.          *)
LEMMA RoomyAdjusted ==
  ASSUME NEW cs, AreComps(Deep, cs), LayoutOk, ~HeaderFails, alignment \in Nat \ {0},
         header_size \in Nat,
         header_size = HdrSize + AuthSize(HeaderAuth) + Len(Entries(cs)),
         Sane, alignment % Pad = 0, Apart(cs), FitsRegions(Adjusted(cs))
  PROVE  /\ Roomy(Adjusted(cs)) /\ Adjusted(cs).data_offset % Pad = 0
         /\ IsHeader(Deep, Adjusted(cs))
<1> DEFINE h == Adjusted(cs)
           n == Len(cs)
           up == AlignUp(header_size, alignment)
           last == cs[n].offset + cs[n].size
<1>1. /\ h.comps = cs /\ h.auth = HeaderAuth /\ IsHeader(Deep, h)
      /\ h.data_offset = up % OffsetLimit
      /\ h.data_size = IF cs = <<>> THEN 0 ELSE AlignUp(last, alignment)
  BY AdjustedShape
<1>2. up \in Nat /\ up % alignment = 0 /\ header_size <= up /\ up < OffsetLimit
  BY Aligned DEF Sane
<1>3. h.data_offset = up
  <2>1. \A m \in Nat, b \in Nat \ {0} : m < b => m % b = m
    OBVIOUS
  <2> HIDE DEF up, h
  <2> QED  BY <1>1, <1>2, <2>1, Sizes
<1>4. up % Pad = 0
  BY <1>2, Sizes, MultipleOfMultiple
<1>5. IsSeq(cs) /\ n \in Nat /\ \A i \in 1..n : IsComp(Deep, cs[i])
  BY SeqShape DEF AreComps
<1>6. Len(Lead(h)) <= up
  <2> DEFINE a == AuthSize(HeaderAuth)
             e == HdrSize + Len(Entries(cs))
  <2>1. Len(Lead(h)) = AlignUp(e, Pad) + a
    BY <1>1, LeadShape
  <2>2. Len(Entries(cs)) \in Nat
    BY <1>5, EntriesShape, SeqShape DEF IsComp
  <2>3. HdrSize \in Nat /\ a \in Nat /\ a % Pad = 0 /\ Pad \in Nat \ {0}
    BY Sizes, AuthSizes
  <2> HIDE DEF a
  <2>4. e \in Nat /\ header_size = a + e
    BY <2>2, <2>3 DEF a
  <2> HIDE DEF e, up
  <2>5. AlignUp(a + e, Pad) = a + AlignUp(e, Pad)
    BY <2>3, <2>4, AlignedBehind
  <2>6. AlignUp(a + e, Pad) <= up
    BY <1>2, <1>4, <2>3, <2>4, AlignedLeast
  <2>7. AlignUp(e, Pad) \in Nat
    BY <2>3, <2>4, Aligned
  <2> HIDE DEF h
  <2> QED  BY <1>2, <2>1, <2>3, <2>5, <2>6, <2>7
<1>7. \A i \in 1..n : cs[i].offset + cs[i].size <= h.data_size
  BY <1>1, EndsInside
<1> HIDE DEF h, up
<1> QED  BY <1>1, <1>3, <1>4, <1>6, <1>7 DEF Roomy, h

(* What lies in front of the last component does not depend on it.         *)
LEMMA SliceSame ==
  ASSUME NEW deep, NEW g, NEW h, IsHeader(deep, g), IsHeader(deep, h), Roomy(g), Roomy(h),
         g.data_offset = h.data_offset, NEW n \in Nat \ {0},
         Len(g.comps) = n, Len(h.comps) = n,
         \A i \in 1..n : i # n => g.comps[i] = h.comps[i],
         g.comps[n].offset = h.comps[n].offset
  PROVE  Slice(GetData(g), h.data_offset, h.data_offset + h.comps[n].offset)
           = Slice(GetData(h), h.data_offset, h.data_offset + h.comps[n].offset)
<1> DEFINE d == h.data_offset
           o == h.comps[n].offset
           f == GetData(g)
           e == GetData(h)
           s == Slice(f, d, d + o)
           t == Slice(e, d, d + o)
<1>1. /\ IsSeq(f) /\ IsSeq(e)
  BY FileStarts
<1>2. /\ Laid(g, n, f) /\ Len(f) = g.data_offset + g.data_size
      /\ Laid(h, n, e) /\ Len(e) = h.data_offset + h.data_size
  BY FileLaid
<1>3. n \in 1..n /\ n \in 1..Len(g.comps) /\ n \in 1..Len(h.comps)
  OBVIOUS
<1>4. /\ d \in Nat /\ o \in Nat /\ g.comps[n].size \in Nat /\ h.comps[n].size \in Nat
      /\ g.data_size \in Nat /\ h.data_size \in Nat
  BY <1>3, BodyNat DEF IsHeader
<1>5. /\ o + g.comps[n].size <= g.data_size /\ o + h.comps[n].size <= h.data_size
      /\ Len(Lead(g)) <= d /\ Len(Lead(h)) <= d
  BY <1>3 DEF Roomy
<1>6. d + o <= Len(f) /\ d + o <= Len(e) /\ d + o \in Nat
  <2>1. Len(f) = d + g.data_size /\ Len(e) = d + h.data_size
    BY <1>2
  <2> HIDE DEF d, o, f, e
  <2>2. /\ d + o <= d + g.data_size /\ d + o \in Nat
        /\ d + o <= d + h.data_size
    BY <1>4, <1>5, Inside, Zenon
  <2> QED  BY <2>1, <2>2, Zenon
<1>7. /\ IsSeq(s) /\ IsSeq(t) /\ Len(s) = o /\ Len(t) = o
      /\ \A k \in 1..Len(s) : d + k \in 1..Len(f) /\ s[k] = f[d + k]
      /\ \A k \in 1..Len(t) : d + k \in 1..Len(e) /\ t[k] = e[d + k]
  <2> HIDE DEF f, e, d, o
  <2>1. /\ IsSeq(s) /\ IsSeq(t)
        /\ Len(s) = (LET end == IF d + o <= Len(f) THEN d + o ELSE Len(f)
                    IN  IF d < end THEN end - d ELSE 0)
        /\ Len(t) = (LET end == IF d + o <= Len(e) THEN d + o ELSE Len(e)
                    IN  IF d < end THEN end - d ELSE 0)
        /\ \A k \in 1..Len(s) : d + k \in 1..Len(f) /\ s[k] = f[d + k]
        /\ \A k \in 1..Len(t) : d + k \in 1..Len(e) /\ t[k] = e[d + k]
    BY <1>1, <1>4, <1>6, SliceShape
  <2> HIDE DEF s, t
  <2>2. (IF d < d + o THEN (d + o) - d ELSE 0) = o
    BY <1>4
  <2> QED  BY <1>6, <2>1, <2>2
<1>8. ASSUME NEW k \in 1..o
      PROVE  s[k] = t[k]
  <2> DEFINE p == d + k
  <2>1. p \in 1..Len(f) /\ p \in 1..Len(e) /\ s[k] = f[p] /\ t[k] = e[p]
    BY <1>7
  <2>2. Len(Lead(g)) \in Nat /\ Len(Lead(h)) \in Nat
    BY LeadShape
  <2>3. ~(p <= Len(Lead(g))) /\ ~(p <= Len(Lead(h)))
    <3> HIDE DEF d, o
    <3> QED  BY <1>4, <1>5, <2>2
  <2>4. \A i \in 1..n : /\ From(g, i) \in Nat /\ Len(Body(g.comps[i])) \in Nat
                        /\ From(h, i) \in Nat /\ Len(Body(h.comps[i])) \in Nat
    BY BodyNat
  <2>5. ASSUME NEW i \in 1..n, InBody(g, i, p) \/ InBody(h, i, p)
        PROVE  From(g, i) = From(h, i) /\ Body(g.comps[i]) = Body(h.comps[i])
    <3>1. CASE i = n
      <4>1. From(g, n) = d + o /\ From(h, n) = d + o
        BY DEF From
      <4>2. ~(d + o < p)
        <5> HIDE DEF d, o
        <5> QED  BY <1>4
      <4> QED  BY <2>5, <3>1, <4>1, <4>2 DEF InBody
    <3>2. CASE i # n
      BY <3>2 DEF From
    <3> QED  BY <3>1, <3>2
  <2>7. SameBodies(g, h, n, p)
    BY <2>4, <2>5 DEF SameBodies
  <2> HIDE DEF p, f, e, s, t
  <2>6. f[p] = e[p]
    <3>1. Laid(g, n, f) /\ Laid(h, n, e) /\ p \in 1..Len(f) /\ p \in 1..Len(e)
      BY <1>2, <2>1
    <3>2. BothLaid(g, h, n, f, e, p)
      BY <2>3, <2>7, <3>1 DEF BothLaid
    <3> QED  BY <3>2, LaidAgree
  <2> QED  BY <2>1, <2>6
<1> HIDE DEF s, t, o
<1>9. s = t
  BY <1>7, <1>8, SeqSame
<1> QED  BY <1>9 DEF s, t, o

(* Before the file is written each entry carries what its row asks for.    *)
LEMMA EntriesMade ==
  ASSUME IInv, pc = "write"
  PROVE  /\ IsSeq(comps) /\ AreComps(Deep, comps) /\ Len(comps) = Len(Rows)
         /\ LayoutOk /\ ~HeaderFails
         /\ IsSeq(Rows) /\ Len(comps) \in Nat /\ alignment \in Nat \ {0} /\ header_size \in Nat
         /\ header_size = HdrSize + AuthSize(HeaderAuth) + Len(Entries(comps))
         /\ Apart(comps)
         /\ \A i \in 1..Len(comps) :
              /\ IsComp(Deep, comps[i]) /\ Made(comps[i], Rows[i])
              /\ Whole(comps[i].data) /\ comps[i].auth = Rows[i].auth
              /\ Padded => comps[i].offset % Pad = 0
              /\ ~(IsMono /\ i = Len(comps)) =>
                   /\ comps[i].hash = HashData(comps[i].data, Rows[i].auth, Rows[i].key)
                   /\ comps[i].auth_data = Signature(comps[i].data, Rows[i].auth, Rows[i].key)
<1>1. TypeInv /\ BuiltInv /\ PlacedInv
  BY DEF IInv
<1>2. /\ LayoutOk /\ alignment \in Nat \ {0} /\ header_size \in Nat /\ AreComps(Deep, comps)
  BY <1>1 DEF TypeInv
<1>3. /\ index = Len(comps) + 1 /\ Len(comps) = Len(Rows) /\ ~HeaderFails
      /\ header_size = HdrSize + AuthSize(HeaderAuth) + Len(Entries(comps))
      /\ \A i \in 1..Len(comps) :
           /\ Made(comps[i], Rows[i])
           /\ (IsMono /\ i = Len(comps)) \/ SignedAlone(comps[i], Rows[i])
  BY <1>1 DEF BuiltInv
<1>4. /\ IsSeq(comps) /\ Len(comps) \in Nat /\ IsSeq(Rows)
      /\ \A i \in 1..Len(comps) : IsComp(Deep, comps[i])
      /\ \A i \in 1..Len(comps) : RowOk(Rows[i])
  BY <1>2, <1>3, SeqShape DEF AreComps, LayoutOk
<1>5. index - 1 = Len(comps)
  BY <1>3, <1>4
<1>6. /\ \A i, j \in 1..Len(comps) : i < j => comps[i].offset + comps[i].size <= comps[j].offset
      /\ \A i \in 1..Len(comps) : Padded => comps[i].offset % Pad = 0
  BY <1>1, <1>5 DEF PlacedInv
<1>7. ASSUME NEW i \in 1..Len(comps)
      PROVE  /\ Whole(comps[i].data) /\ comps[i].auth = Rows[i].auth
             /\ ~(IsMono /\ i = Len(comps)) =>
                   /\ comps[i].hash = HashData(comps[i].data, Rows[i].auth, Rows[i].key)
                   /\ comps[i].auth_data = Signature(comps[i].data, Rows[i].auth, Rows[i].key)
  <2> DEFINE r == Rows[i]
             c == comps[i]
  <2>1. /\ Whole(Entry(r).data) /\ Entry(r).auth = r.auth
        /\ Entry(r).hash = HashData(Entry(r).data, r.auth, r.key)
        /\ Entry(r).auth_data = Signature(Entry(r).data, r.auth, r.key)
    BY <1>2, <1>4, EntryShapes
  <2>2. Made(c, r) /\ ((IsMono /\ i = Len(comps)) \/ SignedAlone(c, r))
    BY <1>3
  <2> HIDE DEF r, c
  <2>3. /\ Whole(c.data) /\ c.auth = r.auth
        /\ ~(IsMono /\ i = Len(comps)) =>
             c.hash = HashData(c.data, r.auth, r.key) /\ c.auth_data = Signature(c.data, r.auth, r.key)
    BY <2>1, <2>2, Zenon DEF Made, SignedAlone
  <2> QED  BY <2>3 DEF r, c
<1> QED  BY <1>2, <1>3, <1>4, <1>6, <1>7 DEF Apart

(* What create is about to write is tidy, and every hash is of what it      *)
(* should be: the last one of a monolithic container is of the cells in     *)
(* front of it, which are the same now as when it was made.                 *)
LEMMA TidyWritten ==
  ASSUME IInv, pc = "write", FitsRegions(Adjusted(comps)), Premises
  PROVE  Tidy(Adjusted(comps)) /\ Covers(Adjusted(comps), GetData(Adjusted(comps)))
<1> DEFINE h == Adjusted(comps)
           n == Len(comps)
<1>1. /\ IsSeq(comps) /\ AreComps(Deep, comps) /\ n = Len(Rows)
      /\ LayoutOk /\ ~HeaderFails
      /\ IsSeq(Rows) /\ n \in Nat /\ alignment \in Nat \ {0} /\ header_size \in Nat
      /\ header_size = HdrSize + AuthSize(HeaderAuth) + Len(Entries(comps))
      /\ Apart(comps)
  BY EntriesMade
<1>2. \A i \in 1..n :
        /\ IsComp(Deep, comps[i]) /\ Made(comps[i], Rows[i])
        /\ Whole(comps[i].data) /\ comps[i].auth = Rows[i].auth
        /\ Padded => comps[i].offset % Pad = 0
        /\ ~(IsMono /\ i = n) =>
             /\ comps[i].hash = HashData(comps[i].data, Rows[i].auth, Rows[i].key)
             /\ comps[i].auth_data = Signature(comps[i].data, Rows[i].auth, Rows[i].key)
  BY EntriesMade
<1>3. Sane /\ KeysMatch(Rows) /\ Padded /\ alignment % Pad = 0
  BY DEF Premises, Padded
<1>4. /\ h.comps = comps /\ h.mono = IsMono
      /\ h.data_offset = AlignUp(header_size, alignment) % OffsetLimit
  BY <1>1, AdjustedShape
<1>5. Roomy(h) /\ h.data_offset % Pad = 0 /\ IsHeader(Deep, h)
  BY <1>1, <1>3, RoomyAdjusted
<1> DEFINE data == Slice(GetData(header), header.data_offset,
                         header.data_offset + comps[n].offset)
<1>6. IsMono => /\ BeforeSigning(header.comps[n])
                /\ FitsRegions(header)
                /\ comps[n].hash = HashData(data, Rows[n].auth, Rows[n].key)
                /\ comps[n].auth_data = Signature(data, Rows[n].auth, Rows[n].key)
  BY DEF IInv, SignedInv
<1> HIDE DEF data, h
<1>7. ASSUME NEW i \in 1..n
      PROVE  Len(comps[i].auth_data) = AuthSize(comps[i].auth)
  <2>1. i \in 1..Len(Rows) /\ comps[i].auth = Rows[i].auth
    BY <1>1, <1>2
  <2>2. SignatureLen(Rows[i].auth, Rows[i].key) = AuthSize(Rows[i].auth)
    BY <1>1, <1>3, <2>1, SignatureLenMatches
  <2>3. PICK f : comps[i].auth_data = Signature(f, Rows[i].auth, Rows[i].key)
    <3>1. CASE IsMono /\ i = n
      BY <1>6, <3>1
    <3>2. CASE ~(IsMono /\ i = n)
      BY <1>2, <3>2
    <3> QED  BY <3>1, <3>2
  <2>4. Len(Signature(f, Rows[i].auth, Rows[i].key)) = SignatureLen(Rows[i].auth, Rows[i].key)
    BY SignatureShape
  <2> QED  BY <2>1, <2>2, <2>3, <2>4
<1>8. Tidy(h)
  BY <1>2, <1>3, <1>4, <1>5, <1>7 DEF Tidy
<1>9. ASSUME NEW i \in 1..n, IsMono, i = n
      PROVE  data = Slice(GetData(h), h.data_offset, h.data_offset + comps[n].offset)
  <2>1. /\ BeforeSigning(header.comps[n]) /\ FitsRegions(header) /\ n \in 1..n
    BY <1>6, <1>9
  <2> DEFINE x == header.comps[n]
             cs == [comps EXCEPT ![n] = x]
  <2>2. /\ IsComp(Deep, x) /\ x.offset = comps[n].offset /\ Made(x, Rows[n])
        /\ header = Adjusted(cs)
    BY <2>1 DEF BeforeSigning
  <2>3. /\ IsSeq(cs) /\ Len(cs) = n
        /\ \A k \in 1..n : cs[k] = IF k = n THEN x ELSE comps[k]
    <3>1. IsSeq(comps) /\ n \in 1..Len(comps) /\ Len(comps) = n
      BY <1>1, <2>1
    <3> HIDE DEF x, n
    <3> DEFINE s == comps
    <3>2. /\ IsSeq([s EXCEPT ![n] = x]) /\ Len([s EXCEPT ![n] = x]) = Len(s)
          /\ \A k \in 1..Len(s) : [s EXCEPT ![n] = x][k] = IF k = n THEN x ELSE s[k]
      <4>1. IsSeq(s) /\ n \in 1..Len(s)
        BY <3>1
      <4> HIDE DEF s
      <4> QED  BY <4>1, ExceptShape
    <3> QED  BY <3>1, <3>2
  <2> HIDE DEF x, cs
  <2>4. x.size = comps[n].size /\ x.auth = comps[n].auth
    BY <1>2, <2>1, <2>2 DEF Made
  <2>5. AreComps(Deep, cs)
    BY <1>2, <2>2, <2>3 DEF AreComps
  <2>6. Apart(cs)
    <3>1. \A k \in 1..n : cs[k].offset = comps[k].offset /\ cs[k].size = comps[k].size
      BY <2>2, <2>3, <2>4
    <3> QED  BY <1>1, <2>3, <3>1, Zenon DEF Apart
  <2>7. Len(Entries(cs)) = Len(Entries(comps))
    <3>1. \A k \in 1..n : Fine(Deep, comps[k].hash) /\ Fine(Deep, cs[k].hash)
                          /\ Len(cs[k].hash) = Len(comps[k].hash)
      BY <1>2, <2>2, <2>3, <2>4 DEF IsComp
    <3> QED  BY <1>1, <2>3, <3>1, EntriesLen
  <2>8. Roomy(header) /\ IsHeader(Deep, header)
    BY <1>1, <1>3, <2>1, <2>2, <2>5, <2>6, <2>7, RoomyAdjusted
  <2>9. header.comps = cs /\ header.data_offset = h.data_offset
    BY <1>1, <1>4, <2>2, <2>5, AdjustedShape
  <2>10. Slice(GetData(header), h.data_offset, h.data_offset + h.comps[n].offset)
           = Slice(GetData(h), h.data_offset, h.data_offset + h.comps[n].offset)
    <3>1. n \in Nat \ {0} /\ Len(header.comps) = n /\ Len(h.comps) = n
      BY <1>1, <1>4, <2>1, <2>3, <2>9
    <3>2. \A k \in 1..n : k # n => header.comps[k] = h.comps[k]
      BY <1>4, <2>3, <2>9
    <3>3. header.comps[n].offset = h.comps[n].offset
      BY <1>4, <2>1, <2>2, <2>3, <2>9
    <3> HIDE DEF n
    <3> QED  BY <1>5, <2>8, <2>9, <3>1, <3>2, <3>3, SliceSame
  <2> QED  BY <1>4, <2>9, <2>10 DEF data
<1>10. ASSUME NEW i \in 1..n
       PROVE  LET f == CoveredOf(h, GetData(h), i)
              IN  /\ comps[i].hash = HashData(f, Rows[i].auth, Rows[i].key)
                  /\ comps[i].auth_data = Signature(f, Rows[i].auth, Rows[i].key)
  <2>1. CASE IsMono /\ i = n
    <3>1. CoveredOf(h, GetData(h), i) = data
      BY <1>4, <1>9, <2>1 DEF CoveredOf
    <3> QED  BY <1>6, <2>1, <3>1
  <2>2. CASE ~(IsMono /\ i = n)
    <3>1. CoveredOf(h, GetData(h), i) = comps[i].data
      BY <1>4, <2>2 DEF CoveredOf
    <3> QED  BY <1>2, <2>2, <3>1
  <2> QED  BY <2>1, <2>2
<1>11. Covers(h, GetData(h))
  BY <1>4, <1>10, Zenon DEF Covers
<1> QED  BY <1>8, <1>11 DEF h

(* The file is written.                                                     *)
LEMMA WriteStep ==
  ASSUME IInv, WriteContainer
  PROVE  IInv'
<1> DEFINE h == Adjusted(comps)
<1>1. /\ pc = "write" /\ pc' = "written" /\ FitsRegions(h)
      /\ header' = h /\ file' = GetData(h)
      /\ comps' = comps /\ header_size' = header_size /\ index' = index /\ offset' = offset
      /\ layout' = layout /\ alignment' = alignment /\ origin' = origin
      /\ base_offset' = base_offset
  BY DEF WriteContainer
<1>2. TypeInv /\ BuiltInv /\ PlacedInv
  BY DEF IInv
<1>3. /\ Rows' = Rows /\ IsMono' = IsMono /\ HeaderAuth' = HeaderAuth
      /\ HeaderFails' = HeaderFails /\ LayoutOk' = LayoutOk /\ Deep' = Deep
      /\ \A i : RowFails(i)' = RowFails(i)
      /\ \A e, s : Made(e, s)' = Made(e, s) /\ SignedAlone(e, s)' = SignedAlone(e, s)
  BY <1>1, SameLayout
<1>4. /\ IsSeq(comps) /\ AreComps(Deep, comps) /\ Len(comps) = Len(Rows)
      /\ LayoutOk /\ ~HeaderFails
      /\ IsSeq(Rows) /\ Len(comps) \in Nat /\ alignment \in Nat \ {0} /\ header_size \in Nat
      /\ index = Len(comps) + 1
  BY <1>1, <1>2, EntriesMade DEF BuiltInv
<1>5. /\ h.comps = comps /\ h.data_offset \in 0..(OffsetLimit - 1) /\ IsHeader(Deep, h)
  BY <1>4, AdjustedShape
<1>6. GetData(h) # <<>>
  <2>1. Len(Lead(h)) > 0 /\ Len(Lead(h)) <= Len(GetData(h))
    <3>1. StartsWith(GetData(h), Lead(h)) /\ IsSeq(Lead(h))
      BY <1>5, FileStarts DEF StartsWith
    <3>2. PICK at : HeadAt(h, Lead(h), at)
      BY <1>5, LeadShape
    <3> QED  BY <3>1, <3>2 DEF HeadAt, StartsWith
  <2>2. IsSeq(GetData(h)) /\ Len(GetData(h)) \in Nat
    BY <1>5, FileStarts, SeqShape
  <2>3. Len(Lead(h)) \in Nat
    BY <1>5, LeadShape
  <2> HIDE DEF h
  <2>4. Len(GetData(h)) # 0
    BY <2>1, <2>2, <2>3
  <2> QED  BY <2>4, EmptyIsSeq
<1>7. TypeInv'
  <2>1. header'.data_offset \in 0..(OffsetLimit - 1) /\ file' # <<>>
    BY <1>1, <1>5, <1>6
  <2> QED  BY <1>1, <1>2, <1>3, <2>1 DEF TypeInv
<1>8. BuiltInv'
  BY <1>1, <1>2, <1>3, <1>4 DEF BuiltInv
<1>9. PlacedInv'
  <2>1. index - 1 \in 0..Len(comps)
    BY <1>4
  <2> QED  BY <1>1, <1>2, <1>4, <2>1, PlacedKept
<1>10. SignedInv'
  BY <1>1 DEF SignedInv
<1>11. WrittenInv'
  <2>1. Premises' = Premises
    BY <1>1, <1>3 DEF Premises, Sane, Padded
  <2>3. Premises => Tidy(h) /\ Covers(h, GetData(h))
    BY <1>1, TidyWritten
  <2>4. Adjusted(comps)' = h
    BY <1>1, SameAdjusted
  <2>5. \A x, y : Covers(x, y)' = Covers(x, y)
    BY <1>3, Zenon DEF Covers
  <2>6. \A i \in 1..Len(comps) : SameEntry(h.comps[i], comps[i])
    BY <1>5, Zenon DEF SameEntry
  <2> HIDE DEF h
  <2> QED  BY <1>1, <1>3, <1>5, <2>1, <2>3, <2>4, <2>5, <2>6 DEF WrittenInv
<1> QED  BY <1>7, <1>8, <1>9, <1>10, <1>11 DEF IInv

-----------------------------------------------------------------------------
(* extract, and the create that follows; replace.                          *)

(* What no external tool refuses is read.                                  *)
LEMMA DecompressedFine ==
  ASSUME NEW f, Fine(TRUE, f), IsLz(f), Decompressible(f)
  PROVE  Fine(FALSE, Decompress(f))
<1>1. IsSeq(f) /\ CompressedLen(f) \in Nat /\ LzSize \in Nat
  <2>1. IsSeq(f) /\ Len(f) \in Nat /\ DOMAIN f = 1..Len(f)
    BY FineShape
  <2>2. 1 \in DOMAIN f
    BY <2>1, Sizes DEF IsLz
  <2>3. f[1][3] \in Nat
    BY <2>2 DEF Fine, LzCells, IsLz
  <2> QED  BY <2>1, <2>3, Sizes DEF CompressedLen
<1> DEFINE p == Payload(f)
<1>2. Fine(TRUE, p)
  <2>1. LzSize + CompressedLen(f) \in Nat
    BY <1>1
  <2> QED  BY <1>1, <2>1, FineSlice DEF Payload
<1>3. Fine(FALSE, p)
  BY <1>2 DEF Fine
<1>4. Decompress(f) = IF f[1][2] = "Dummy" \/ p = <<>> THEN p ELSE p[1][2]
  BY DEF Decompress
<1>5. f[1][2] # "Dummy" /\ p # <<>> => p[1][1] = "squeezed"
  BY DEF Decompressible
<1> HIDE DEF p
<1>6. CASE f[1][2] = "Dummy" \/ p = <<>>
  BY <1>3, <1>4, <1>6
<1>7. CASE ~(f[1][2] = "Dummy" \/ p = <<>>)
  <2>1. IsSeq(p) /\ Len(p) \in Nat /\ DOMAIN p = 1..Len(p)
    BY <1>2, FineShape
  <2>2. Len(p) # 0
    BY <1>7, <2>1, EmptyIsSeq, SeqSame
  <2>3. 1 \in DOMAIN p
    BY <2>1, <2>2
  <2>4. LzCells(p[1][2])
    BY <1>2, <1>5, <1>7, <2>3 DEF Fine
  <2> QED  BY <1>4, <1>7, <2>4 DEF Fine
<1> QED  BY <1>6, <1>7

(* A container is never empty.                                              *)
LEMMA FileNotEmpty ==
  ASSUME NEW deep, NEW h, IsHeader(deep, h)
  PROVE  GetData(h) # <<>>
<1>1. StartsWith(GetData(h), Lead(h)) /\ IsSeq(GetData(h))
  BY FileStarts
<1>2. PICK at : HeadAt(h, Lead(h), at)
  BY LeadShape
<1>3. Len(Lead(h)) > 0 /\ Len(Lead(h)) <= Len(GetData(h)) /\ Len(Lead(h)) \in Nat
  BY <1>1, <1>2, LeadShape DEF HeadAt, StartsWith
<1>4. Len(GetData(h)) \in Nat
  BY <1>1, SeqShape
<1>5. Len(GetData(h)) # 0
  BY <1>3, <1>4
<1> QED  BY <1>5, EmptyIsSeq

(* extract writes a row for every component that create can read.           *)
LEMMA ExtractedOk ==
  ASSUME NEW c, IsComp(TRUE, c), IsLz(c.data), ~c.reserved => Decompressible(c.data)
  PROVE  LET r == ExtractedRow(c)
         IN  /\ r.auth \in AuthTypes /\ r.key \in Keys \cup {NoKey}
             /\ r.alignment \in Nat /\ r.size \in Nat
             /\ r.content # <<>> => r.content = <<r.content[1]>> /\ Fine(FALSE, r.content[1])
<1> DEFINE r == ExtractedRow(c)
<1>1. /\ r.auth = c.auth /\ r.key = KeyFor(c.auth) /\ r.alignment = c.alignment
      /\ r.size = c.size
      /\ r.content = IF c.reserved THEN <<>> ELSE <<Decompress(c.data)>>
  BY DEF ExtractedRow
<1>2. /\ c.auth \in AuthTypes /\ c.alignment \in Nat /\ c.size \in Nat /\ Fine(TRUE, c.data)
  BY DEF IsComp
<1>3. KeyFor(c.auth) \in Keys \cup {NoKey}
  BY DEF KeyFor, Keys, NoKey
<1> HIDE DEF r
<1>4. ASSUME r.content # <<>>
      PROVE  r.content = <<r.content[1]>> /\ Fine(FALSE, r.content[1])
  <2>1. r.content = <<Decompress(c.data)>> /\ ~c.reserved
    BY <1>1, <1>4
  <2>2. Fine(FALSE, Decompress(c.data))
    BY <1>2, <2>1, DecompressedFine
  <2>3. r.content[1] = Decompress(c.data)
    BY <2>1
  <2> QED  BY <2>1, <2>2, <2>3
<1> QED  BY <1>1, <1>2, <1>3, <1>4 DEF r

(* extract, and a create from its layout.                                   *)
LEMMA ExtractStep ==
  ASSUME IInv, ExtractAndCreate
  PROVE  IInv'
<1> DEFINE h == Parse(file)
           l == ExtractedLayout(h)
<1>1. /\ pc = "written" /\ origin = <<>> /\ origin' = <<layout, file>>
      /\ header' = <<>> /\ file' = <<>> /\ StartCreate(l)
      /\ \A i \in DOMAIN h.comps :
           IsLz(h.comps[i].data) /\ (~h.comps[i].reserved => Decompressible(h.comps[i].data))
  BY DEF ExtractAndCreate
<1>2. /\ layout' = l
      /\ alignment' = IF l.header.alignment = 0 THEN DefaultAlignment ELSE l.header.alignment
      /\ header_size' = HdrSize + AuthSize(HeaderAuth')
      /\ pc' = "build" /\ index' = 1 /\ comps' = <<>> /\ offset' = 0 /\ base_offset' = -1
  BY <1>1 DEF StartCreate
<1>3. Deep = TRUE /\ Deep' = FALSE
  <2>1. <<layout, file>> # <<>>
    OBVIOUS
  <2> QED  BY <1>1, <2>1 DEF Deep
<1>4. IsHeader(TRUE, header) /\ file = GetData(header)
  BY <1>1, <1>3 DEF IInv, WrittenInv
<1>5. IsHeader(TRUE, h) /\ HeadRead(header, h)
  BY <1>4, ReadBack
<1>6. /\ IsSeq(h.comps) /\ DOMAIN h.comps = 1..Len(h.comps) /\ Len(h.comps) \in Nat
      /\ h.auth \in AuthTypes
      /\ \A i \in 1..Len(h.comps) : IsComp(TRUE, h.comps[i])
  BY <1>5, SeqShape DEF IsHeader, AreComps
<1>7. h.alignment \in Nat
  <2>1. h.alignment = IF Len(header.comps) = 0 THEN DefaultAlignment
                      ELSE header.comps[1].alignment
    BY <1>5 DEF HeadRead
  <2>2. Len(header.comps) \in Nat
    BY <1>4, SeqShape DEF IsHeader, AreComps
  <2>3. Len(header.comps) # 0 => header.comps[1].alignment \in Nat
    <3>1. Len(header.comps) # 0 => 1 \in 1..Len(header.comps)
      BY <2>2
    <3> QED  BY <1>4, <3>1 DEF IsHeader, AreComps, IsComp
  <2> HIDE DEF h
  <2> QED  BY <2>1, <2>3, Sizes
<1>8. /\ l.header.auth = h.auth /\ l.header.key = KeyFor(h.auth)
      /\ l.header.alignment = h.alignment
      /\ l.rows = [i \in 1..Len(h.comps) |-> ExtractedRow(h.comps[i])]
  BY <1>6 DEF ExtractedLayout
<1> HIDE DEF h, l
<1>9. IsSeq(l.rows) /\ Len(l.rows) = Len(h.comps)
  <2>1. l.rows = [i \in 1..Len(h.comps) |-> l.rows[i]]
    BY <1>8
  <2> QED  BY <1>6, <2>1, ShapeSeq
<1>10. ASSUME NEW i \in 1..Len(h.comps)
       PROVE  LET r == l.rows[i]
              IN  /\ r.auth \in AuthTypes /\ r.key \in Keys \cup {NoKey}
                  /\ r.alignment \in Nat /\ r.size \in Nat
                  /\ r.content # <<>> => r.content = <<r.content[1]>> /\ Fine(FALSE, r.content[1])
  <2>1. l.rows[i] = ExtractedRow(h.comps[i])
    BY <1>8
  <2>2. /\ IsComp(TRUE, h.comps[i]) /\ IsLz(h.comps[i].data)
        /\ ~h.comps[i].reserved => Decompressible(h.comps[i].data)
    BY <1>1, <1>6 DEF h
  <2> QED  BY <2>1, <2>2, ExtractedOk
<1>11. KeyFor(h.auth) \in Keys \cup {NoKey}
  BY DEF KeyFor, Keys, NoKey
<1>12. LayoutOk'
  <2>1. Rows' = l.rows
    BY <1>2 DEF Rows
  <2>2. (\A i \in 1..Len(Rows) : RowOk(Rows[i]))'
    BY <1>3, <1>9, <1>10, <2>1 DEF RowOk
  <2>3. IsSeq(Rows')
    BY <1>9, <2>1
  <2>4. /\ layout'.header.auth \in AuthTypes /\ layout'.header.key \in Keys \cup {NoKey}
        /\ layout'.header.alignment \in Nat
    BY <1>2, <1>6, <1>7, <1>8, <1>11
  <2> QED  BY <2>2, <2>3, <2>4, Zenon DEF LayoutOk
<1>13. Fresh'
  BY <1>1, <1>2, <1>12 DEF Fresh
<1> QED  BY <1>13, FreshInvNext

PutIn(c, data, auth_data) == [c EXCEPT !.data = data, !.auth_data = auth_data]

(* A component with other data is a component.                              *)
LEMMA CompPutIn ==
  ASSUME NEW deep, NEW c, IsComp(deep, c), NEW data, NEW sig, Fine(deep, data), Fine(deep, sig)
  PROVE  LET d == PutIn(c, data, sig)
         IN  /\ IsComp(deep, d) /\ d.data = data /\ d.auth_data = sig
             /\ SameEntry(d, c)
<1> DEFINE e == [name |-> c.name, offset |-> c.offset, size |-> c.size,
                 reserved |-> c.reserved, alignment |-> c.alignment, auth |-> c.auth,
                 hash |-> c.hash, data |-> data, auth_data |-> c.auth_data]
           d == [name |-> c.name, offset |-> c.offset, size |-> c.size,
                 reserved |-> c.reserved, alignment |-> c.alignment, auth |-> c.auth,
                 hash |-> c.hash, data |-> data, auth_data |-> sig]
<1>1. PutIn(c, data, sig) = d
  <2>1. [c EXCEPT !.data = data] = e
    BY DEF IsComp
  <2>2. [e EXCEPT !.auth_data = sig] = d
    OBVIOUS
  <2> HIDE DEF e, d
  <2> QED  BY <2>1, <2>2 DEF PutIn
<1>2. /\ d.offset = c.offset /\ d.name = c.name /\ d.size = c.size /\ d.reserved = c.reserved
      /\ d.alignment = c.alignment /\ d.auth = c.auth /\ d.hash = c.hash
      /\ d.data = data /\ d.auth_data = sig
  OBVIOUS
<1>3. d = [name |-> d.name, offset |-> d.offset, size |-> d.size,
           reserved |-> d.reserved, alignment |-> d.alignment, auth |-> d.auth,
           hash |-> d.hash, data |-> d.data, auth_data |-> d.auth_data]
  OBVIOUS
<1> HIDE DEF d
<1>4. IsComp(deep, d)
  BY <1>2, <1>3 DEF IsComp
<1> QED  BY <1>1, <1>2, <1>4 DEF SameEntry

(* A prepared file is a component.                                         *)
LEMMA PreparedShape ==
  ASSUME NEW deep, NEW f, Fine(deep, f), NEW auth, Prepared(f, auth)
  PROVE  LET d == Slice(f, 0, LzSize + CompressedLen(f))
         IN  Fine(deep, d) /\ Whole(d)
<1> DEFINE m == CompressedLen(f)
           d == Slice(f, 0, LzSize + m)
<1>1. /\ IsLz(f) /\ Len(f) = LzSize + AlignUp(m, Pad) + AuthSize(auth)
  BY DEF Prepared
<1>2. IsSeq(f) /\ Len(f) \in Nat /\ DOMAIN f = 1..Len(f) /\ LzSize \in Nat \ {0}
  BY FineShape, Sizes
<1>3. m = f[1][3] /\ m \in Nat /\ f[1][1] = "lz"
  <2>1. 1 \in DOMAIN f
    BY <1>1, <1>2 DEF IsLz
  <2> QED  BY <1>1, <2>1 DEF CompressedLen, IsLz, Fine, LzCells
<1> HIDE DEF m
<1>4. LzSize + m <= Len(f) /\ LzSize + m \in Nat
  <2>1. AlignUp(m, Pad) \in Nat /\ m <= AlignUp(m, Pad)
    BY <1>3, Sizes, Aligned
  <2>2. AuthSize(auth) \in Nat
    BY AuthSizes
  <2> QED  BY <1>1, <1>2, <1>3, <2>1, <2>2
<1>5. Fine(deep, d)
  BY <1>4, FineSlice
<1>6. /\ IsSeq(d)
      /\ Len(d) = (LET end == IF LzSize + m <= Len(f) THEN LzSize + m ELSE Len(f)
                  IN  IF 0 < end THEN end - 0 ELSE 0)
      /\ \A k \in 1..Len(d) : 0 + k \in 1..Len(f) /\ d[k] = f[0 + k]
  BY <1>2, <1>4, SliceShape
<1> HIDE DEF d
<1>7. Len(d) = LzSize + m
  BY <1>2, <1>3, <1>4, <1>6
<1>8. d[1] = f[1]
  <2>1. 1 \in 1..Len(d) /\ 0 + 1 = 1
    BY <1>2, <1>3, <1>7
  <2> QED  BY <1>6, <2>1
<1>9. IsLz(d)
  BY <1>2, <1>3, <1>7, <1>8 DEF IsLz
<1>10. CompressedLen(d) = m
  BY <1>3, <1>8, <1>9 DEF CompressedLen
<1>11. Whole(d)
  BY <1>7, <1>9, <1>10 DEF Whole
<1> QED  BY <1>5, <1>11 DEF d, m

(* The hash of a signed component names its key.                           *)
LEMMA HashNamesKey ==
  ASSUME NEW f, NEW g, NEW auth, NEW k, NEW l, HashData(f, auth, k) = HashData(g, auth, l),
         IsRsa(auth)
  PROVE  k = l
<1>1. /\ HashData(f, auth, k) = Struct(<<"keyhash", k>>, HashSize)
      /\ HashData(g, auth, l) = Struct(<<"keyhash", l>>, HashSize)
  BY DEF HashData, IsRsa
<1>2. HashSize \in Nat \ {0}
  BY Sizes
<1>3. Struct(<<"keyhash", k>>, HashSize)[1] = <<"keyhash", k>>
      /\ Struct(<<"keyhash", l>>, HashSize)[1] = <<"keyhash", l>>
  BY <1>2, StructShape
<1>4. <<"keyhash", k>> = <<"keyhash", l>>
  BY <1>1, <1>3
<1>5. <<"keyhash", k>>[2] = k /\ <<"keyhash", l>>[2] = l
  OBVIOUS
<1> QED  BY <1>4, <1>5

(* What CONTAINER_HDR reads is a record with these fields.                  *)
LEMMA ParseRecord ==
  ASSUME NEW f
  PROVE  LET p == Parse(f)
         IN  p = [auth |-> p.auth, mono |-> p.mono, data_offset |-> p.data_offset,
                  data_size |-> p.data_size, alignment |-> p.alignment,
                  auth_data |-> p.auth_data, comps |-> p.comps]
BY DEF Parse

PutComp(h, i, c) == [h EXCEPT !.comps[i] = c]

(* Another component in what was read.                                      *)
LEMMA PutCompShape ==
  ASSUME NEW f, NEW i, NEW c
  PROVE  LET h == Parse(f)
             g == PutComp(h, i, c)
         IN  /\ g.auth = h.auth /\ g.mono = h.mono /\ g.data_offset = h.data_offset
             /\ g.data_size = h.data_size /\ g.auth_data = h.auth_data
             /\ g.comps = [h.comps EXCEPT ![i] = c]
<1> DEFINE h == Parse(f)
<1>1. h = [auth |-> h.auth, mono |-> h.mono, data_offset |-> h.data_offset,
           data_size |-> h.data_size, alignment |-> h.alignment,
           auth_data |-> h.auth_data, comps |-> h.comps]
  BY ParseRecord
<1> HIDE DEF h
<1>2. PutComp(h, i, c) =
        [auth |-> h.auth, mono |-> h.mono, data_offset |-> h.data_offset,
         data_size |-> h.data_size, alignment |-> h.alignment,
         auth_data |-> h.auth_data, comps |-> [h.comps EXCEPT ![i] = c]]
  BY <1>1 DEF PutComp
<1> QED  BY <1>2 DEF h

(* A component that may take the place of another: its data is a component *)
(* with its signature, and the entry stays.                                *)
LEMMA NewComponent ==
  ASSUME NEW deep, NEW c, IsComp(deep, c), NEW f, Fine(deep, f), NEW alg, NEW key,
         NEW d \in NewComponents(c, f, alg, key)
  PROVE  /\ IsComp(deep, d) /\ SameEntry(d, c) /\ Whole(d.data)
         /\ d.hash = HashData(d.data, c.auth, key)
         /\ d.auth_data = Signature(d.data, c.auth, key)
<1> DEFINE data == IF Prepared(f, c.auth) THEN Slice(f, 0, LzSize + CompressedLen(f))
                   ELSE LzFile(alg, f)
           sig == Signature(data, c.auth, key)
<1>1. d = PutIn(c, data, sig) /\ HashData(data, c.auth, key) = c.hash
  BY DEF NewComponents, PutIn
<1>2. Fine(deep, data) /\ Whole(data)
  <2>1. CASE Prepared(f, c.auth)
    BY <2>1, PreparedShape
  <2>2. CASE ~Prepared(f, c.auth)
    BY <2>2, LzFileShape
  <2> QED  BY <2>1, <2>2
<1> HIDE DEF data
<1>3. Fine(deep, sig)
  BY SignatureShape
<1> HIDE DEF sig
<1>4. IsComp(deep, d) /\ d.data = data /\ d.auth_data = sig /\ SameEntry(d, c)
  BY <1>1, <1>2, <1>3, CompPutIn
<1>5. d.hash = c.hash
  BY <1>4 DEF SameEntry
<1> QED  BY <1>1, <1>2, <1>4, <1>5 DEF sig

(* What replace makes of a header.                                         *)
ReplacedAt(h, g, i, key) ==
  /\ FitsRegions(g) /\ ~h.mono
  /\ g.auth = h.auth /\ g.mono = h.mono /\ g.data_offset = h.data_offset
  /\ g.data_size = h.data_size /\ g.auth_data = h.auth_data
  /\ i \in 1..Len(h.comps) /\ Len(g.comps) = Len(h.comps)
  /\ \A k \in 1..Len(h.comps) : SameEntry(g.comps[k], h.comps[k])
  /\ LET c == g.comps[i]
     IN  /\ Whole(c.data) /\ c.hash = HashData(c.data, c.auth, key)
         /\ c.auth_data = Signature(c.data, c.auth, key)
  /\ Tidy(h) => \A k \in 1..Len(h.comps) : k # i => g.comps[k] = h.comps[k]

(* replace: the header and all entries stay, and so do the other components *)
(* if a reader can tell them.                                               *)
LEMMA ReplacedShape ==
  ASSUME NEW deep, NEW h, IsHeader(deep, h), NEW f, Fine(deep, f), NEW alg, NEW key,
         NEW i \in DOMAIN Parse(GetData(h)).comps, ~Parse(GetData(h)).mono,
         NEW c \in NewComponents(Parse(GetData(h)).comps[i], f, alg, key),
         FitsRegions(PutComp(Parse(GetData(h)), i, c))
  PROVE  LET g == PutComp(Parse(GetData(h)), i, c)
         IN  IsHeader(deep, g) /\ ReplacedAt(h, g, i, key)
<1> DEFINE p == Parse(GetData(h))
           g == PutComp(p, i, c)
           n == Len(h.comps)
<1>1. HeadRead(h, p) /\ IsHeader(deep, p)
  BY ReadBack
<1>2. /\ g.auth = p.auth /\ g.mono = p.mono /\ g.data_offset = p.data_offset
      /\ g.data_size = p.data_size /\ g.auth_data = p.auth_data
      /\ g.comps = [p.comps EXCEPT ![i] = c]
  BY PutCompShape
<1>3. Tidy(h) => p.comps = h.comps
  BY ReadAll
<1>4. c \in NewComponents(p.comps[i], f, alg, key) /\ i \in DOMAIN p.comps /\ ~p.mono
      /\ FitsRegions(g)
  OBVIOUS
<1> HIDE DEF p, g
<1>5. /\ p.auth = h.auth /\ p.mono = h.mono /\ p.data_offset = h.data_offset
      /\ p.data_size = h.data_size /\ p.auth_data = h.auth_data
      /\ IsSeq(p.comps) /\ Len(p.comps) = n
      /\ \A k \in 1..n : SameEntry(p.comps[k], h.comps[k])
  BY <1>1 DEF HeadRead
<1>6. i \in 1..n
  BY <1>4, <1>5, SeqShape
<1>7. \A k \in 1..n : IsComp(deep, p.comps[k])
  BY <1>1, <1>5 DEF IsHeader, AreComps
<1>8. /\ IsComp(deep, c) /\ SameEntry(c, p.comps[i]) /\ Whole(c.data)
      /\ c.hash = HashData(c.data, p.comps[i].auth, key)
      /\ c.auth_data = Signature(c.data, p.comps[i].auth, key)
  BY <1>4, <1>6, <1>7, NewComponent
<1>9. /\ IsSeq(g.comps) /\ Len(g.comps) = n
      /\ \A k \in 1..n : g.comps[k] = IF k = i THEN c ELSE p.comps[k]
  <2> DEFINE s == p.comps
  <2>1. IsSeq(s) /\ i \in 1..Len(s) /\ Len(s) = n /\ g.comps = [s EXCEPT ![i] = c]
    BY <1>2, <1>5, <1>6
  <2> HIDE DEF s, n
  <2>2. /\ IsSeq([s EXCEPT ![i] = c]) /\ Len([s EXCEPT ![i] = c]) = Len(s)
        /\ \A k \in 1..Len(s) : [s EXCEPT ![i] = c][k] = IF k = i THEN c ELSE s[k]
    <3>1. IsSeq(s) /\ i \in 1..Len(s)
      BY <2>1
    <3> QED  BY <3>1, ExceptShape
  <2> QED  BY <2>1, <2>2 DEF s
<1>10. c.auth = p.comps[i].auth
  BY <1>8 DEF SameEntry
<1>11. AreComps(deep, g.comps)
  BY <1>7, <1>8, <1>9 DEF AreComps
<1>12. IsHeader(deep, g)
  BY <1>1, <1>2, <1>11 DEF IsHeader
<1>13. \A k \in 1..n : SameEntry(g.comps[k], h.comps[k])
  <2>1. SameEntry(c, h.comps[i])
    BY <1>5, <1>6, <1>8 DEF SameEntry
  <2> QED  BY <1>5, <1>9, <2>1
<1>14. Tidy(h) => \A k \in 1..n : k # i => g.comps[k] = h.comps[k]
  BY <1>3, <1>9
<1>15. g.comps[i] = c
  BY <1>6, <1>9
<1>16. ReplacedAt(h, g, i, key)
  BY <1>2, <1>4, <1>5, <1>6, <1>8, <1>9, <1>10, <1>13, <1>14, <1>15 DEF ReplacedAt
<1> QED  BY <1>12, <1>16 DEF g, p

(* The header of the file stays cell by cell.                               *)
LEMMA HeadsSame ==
  ASSUME NEW deep, NEW h, NEW g, NEW i, NEW key, IsHeader(deep, h), IsHeader(deep, g),
         ReplacedAt(h, g, i, key)
  PROVE  HeaderCells(g) = HeaderCells(h) /\ Lead(g) = Lead(h)
<1>1. HeaderCells(g) = HeaderCells(h)
  BY HeadSame DEF ReplacedAt, IsHeader, AreComps
<1> QED  BY <1>1 DEF Lead, ReplacedAt

(* With the key of the row, what is replaced is tidy again.                *)
LEMMA TidyReplaced ==
  ASSUME NEW deep, NEW h, NEW g, NEW i, NEW key, IsHeader(deep, h), IsHeader(deep, g),
         ReplacedAt(h, g, i, key), Tidy(h), IsSeq(Rows), Len(Rows) = Len(h.comps),
         KeysMatch(Rows), \A k \in 1..Len(h.comps) : h.comps[k].auth = Rows[k].auth,
         NEW f, Covers(h, f), NEW e
  PROVE  Tidy(g) /\ Covers(g, e)
<1> DEFINE n == Len(h.comps)
           c == g.comps[i]
<1>1. /\ i \in 1..n /\ Len(g.comps) = n /\ FitsRegions(g) /\ ~h.mono /\ g.mono = h.mono
      /\ \A k \in 1..n : SameEntry(g.comps[k], h.comps[k])
      /\ Whole(c.data) /\ c.hash = HashData(c.data, c.auth, key)
      /\ c.auth_data = Signature(c.data, c.auth, key)
      /\ \A k \in 1..n : k # i => g.comps[k] = h.comps[k]
      /\ g.data_offset = h.data_offset /\ g.data_size = h.data_size
  BY DEF ReplacedAt
<1>2. Lead(g) = Lead(h)
  BY HeadsSame
<1>3. \A k \in 1..n : /\ g.comps[k].offset = h.comps[k].offset
                      /\ g.comps[k].size = h.comps[k].size
                      /\ g.comps[k].auth = h.comps[k].auth
                      /\ g.comps[k].hash = h.comps[k].hash
  BY <1>1 DEF SameEntry
<1>4. Roomy(h) /\ h.data_offset % Pad = 0
      /\ \A k \in 1..n :
           /\ h.comps[k].offset % Pad = 0
           /\ Whole(h.comps[k].data)
           /\ Len(h.comps[k].auth_data) = AuthSize(h.comps[k].auth)
  BY DEF Tidy
<1>5. Roomy(g)
  <2>1. Apart(g.comps)
    <3> SUFFICES ASSUME NEW k \in 1..n, NEW l \in 1..n, k < l
                 PROVE  g.comps[k].offset + g.comps[k].size <= g.comps[l].offset
      BY <1>1 DEF Apart
    <3>1. h.comps[k].offset + h.comps[k].size <= h.comps[l].offset
      BY <1>4 DEF Roomy, Apart
    <3>2. /\ g.comps[k].offset = h.comps[k].offset /\ g.comps[k].size = h.comps[k].size
          /\ g.comps[l].offset = h.comps[l].offset
      BY <1>3
    <3> QED  BY <3>1, <3>2
  <2> QED  BY <1>1, <1>2, <1>3, <1>4, <2>1, Zenon DEF Roomy
<1>6. \A k \in 1..n :
        /\ h.comps[k].hash = HashData(h.comps[k].data, Rows[k].auth, Rows[k].key)
        /\ h.comps[k].auth_data = Signature(h.comps[k].data, Rows[k].auth, Rows[k].key)
  BY <1>1 DEF Covers, CoveredOf
<1>7. /\ c.hash = HashData(c.data, Rows[i].auth, Rows[i].key)
      /\ c.auth_data = Signature(c.data, Rows[i].auth, Rows[i].key)
  <2>1. c.auth = Rows[i].auth /\ c.hash = h.comps[i].hash
    BY <1>1, <1>3
  <2>2. CASE IsRsa(Rows[i].auth)
    <3>1. HashData(c.data, Rows[i].auth, key) = HashData(h.comps[i].data, Rows[i].auth, Rows[i].key)
      BY <1>1, <1>6, <2>1
    <3>2. key = Rows[i].key
      BY <2>2, <3>1, HashNamesKey
    <3> QED  BY <1>1, <2>1, <3>2
  <2>3. CASE ~IsRsa(Rows[i].auth)
    BY <1>1, <2>1, <2>3 DEF HashData, Signature
  <2> QED  BY <2>2, <2>3
<1>8. Len(c.auth_data) = AuthSize(c.auth)
  <2>1. i \in 1..Len(Rows)
    BY <1>1
  <2>2. SignatureLen(Rows[i].auth, Rows[i].key) = AuthSize(Rows[i].auth)
    BY <2>1, SignatureLenMatches
  <2>4. c.auth = Rows[i].auth
    BY <1>1, <1>3
  <2> HIDE DEF c
  <2>3. Len(Signature(c.data, Rows[i].auth, Rows[i].key)) = SignatureLen(Rows[i].auth, Rows[i].key)
    BY SignatureShape, Zenon
  <2> QED  BY <1>7, <2>2, <2>3, <2>4
<1>9. Tidy(g)
  <2>1. \A k \in 1..n :
          /\ g.comps[k].offset % Pad = 0
          /\ Whole(g.comps[k].data)
          /\ Len(g.comps[k].auth_data) = AuthSize(g.comps[k].auth)
    <3> SUFFICES ASSUME NEW k \in 1..n
                 PROVE  /\ g.comps[k].offset % Pad = 0
                        /\ Whole(g.comps[k].data)
                        /\ Len(g.comps[k].auth_data) = AuthSize(g.comps[k].auth)
      OBVIOUS
    <3>1. CASE k = i
      BY <1>1, <1>3, <1>4, <1>8, <3>1
    <3>2. CASE k # i
      BY <1>1, <1>4, <3>2
    <3> QED  BY <3>1, <3>2
  <2> QED  BY <1>1, <1>4, <1>5, <2>1 DEF Tidy
<1>10. Covers(g, e)
  <2> SUFFICES ASSUME NEW k \in 1..n
               PROVE  /\ g.comps[k].hash = HashData(g.comps[k].data, Rows[k].auth, Rows[k].key)
                      /\ g.comps[k].auth_data = Signature(g.comps[k].data, Rows[k].auth, Rows[k].key)
    BY <1>1 DEF Covers, CoveredOf
  <2>1. CASE k = i
    BY <1>7, <2>1
  <2>2. CASE k # i
    BY <1>1, <1>6, <2>2
  <2> QED  BY <2>1, <2>2
<1> QED  BY <1>9, <1>10

-----------------------------------------------------------------------------
(* Every step.                                                             *)

(* A step of replace is one of ReplacedAt.                                  *)
LEMMA ReplacePicks ==
  ASSUME IInv, NEW name, NEW f \in Contents, NEW alg, NEW key, Replace(name, f, alg, key)
  PROVE  /\ IsHeader(Deep, header) /\ file = GetData(header)
         /\ IsHeader(Deep, header') /\ file' = GetData(header')
         /\ \E i : ReplacedAt(header, header', i, key)
<1> DEFINE h == Parse(file)
<1>1. pc = "written" /\ ~h.mono
  BY DEF Replace
<1>2. PICK i \in DOMAIN h.comps :
        \E c \in NewComponents(h.comps[i], f, alg, key) :
          /\ FitsRegions(PutComp(h, i, c))
          /\ header' = PutComp(h, i, c) /\ file' = GetData(PutComp(h, i, c))
  BY DEF Replace, PutComp
<1>3. PICK c \in NewComponents(h.comps[i], f, alg, key) :
        /\ FitsRegions(PutComp(h, i, c))
        /\ header' = PutComp(h, i, c) /\ file' = GetData(PutComp(h, i, c))
  BY <1>2
<1>4. IsHeader(Deep, header) /\ file = GetData(header)
  BY <1>1 DEF IInv, WrittenInv
<1>5. Fine(Deep, f)
  BY ContainerAssumption DEF IsFile, Fine
<1>6. IsHeader(Deep, PutComp(h, i, c)) /\ ReplacedAt(header, PutComp(h, i, c), i, key)
  BY <1>1, <1>3, <1>4, <1>5, ReplacedShape
<1> QED  BY <1>3, <1>4, <1>6

(* What the written header has of the rows.                                *)
LEMMA WrittenEntries ==
  ASSUME IInv, pc = "written"
  PROVE  /\ IsSeq(comps) /\ AreComps(Deep, comps) /\ Len(comps) \in Nat /\ IsSeq(Rows)
         /\ index = Len(comps) + 1 /\ alignment \in Nat \ {0} /\ header_size \in Nat
         /\ Len(comps) = Len(Rows) /\ Len(header.comps) = Len(comps)
         /\ header.data_offset \in 0..(OffsetLimit - 1)
         /\ IsHeader(Deep, header) /\ file = GetData(header)
         /\ \A i \in 1..Len(comps) : /\ SameEntry(header.comps[i], comps[i])
                                     /\ header.comps[i].auth = Rows[i].auth
<1>1. TypeInv /\ BuiltInv /\ WrittenInv
  BY DEF IInv
<1>2. /\ LayoutOk /\ AreComps(Deep, comps) /\ alignment \in Nat \ {0} /\ header_size \in Nat
  BY <1>1 DEF TypeInv
<1>3. /\ index = Len(comps) + 1 /\ Len(comps) = Len(Rows)
      /\ \A i \in 1..Len(comps) : Made(comps[i], Rows[i])
  BY <1>1 DEF BuiltInv
<1>4. /\ IsHeader(Deep, header) /\ file = GetData(header) /\ Len(header.comps) = Len(comps)
      /\ header.data_offset = Adjusted(comps).data_offset
      /\ \A i \in 1..Len(comps) : SameEntry(header.comps[i], comps[i])
  BY <1>1 DEF WrittenInv
<1>5. header.data_offset \in 0..(OffsetLimit - 1)
  BY <1>2, <1>4, AdjustedShape
<1>6. ASSUME NEW i \in 1..Len(comps)
      PROVE  header.comps[i].auth = Rows[i].auth
  <2>1. RowOk(Rows[i])
    BY <1>2, <1>3 DEF LayoutOk
  <2>2. Entry(Rows[i]).auth = Rows[i].auth
    BY <1>2, <2>1, EntryShapes
  <2> QED  BY <1>3, <1>4, <2>2 DEF Made, SameEntry
<1> QED  BY <1>2, <1>3, <1>4, <1>5, <1>6, SeqShape DEF AreComps, LayoutOk

(* A component is replaced.                                                 *)
LEMMA ReplaceStep ==
  ASSUME IInv, NEW name, NEW f \in Contents, NEW alg, NEW key, Replace(name, f, alg, key)
  PROVE  IInv'
<1>1. /\ pc = "written" /\ pc' = "written"
      /\ comps' = comps /\ header_size' = header_size /\ index' = index /\ offset' = offset
      /\ layout' = layout /\ alignment' = alignment /\ origin' = origin
      /\ base_offset' = base_offset
  BY DEF Replace
<1>2. TypeInv /\ BuiltInv /\ PlacedInv /\ WrittenInv
  BY DEF IInv
<1>3. /\ Rows' = Rows /\ IsMono' = IsMono /\ HeaderAuth' = HeaderAuth
      /\ HeaderFails' = HeaderFails /\ LayoutOk' = LayoutOk /\ Deep' = Deep
      /\ \A i : RowFails(i)' = RowFails(i)
      /\ \A e, s : Made(e, s)' = Made(e, s) /\ SignedAlone(e, s)' = SignedAlone(e, s)
  BY <1>1, SameLayout
<1>4. /\ IsSeq(comps) /\ Len(comps) \in Nat /\ IsSeq(Rows) /\ index = Len(comps) + 1
      /\ Len(comps) = Len(Rows) /\ Len(header.comps) = Len(comps)
      /\ header.data_offset \in 0..(OffsetLimit - 1)
      /\ \A i \in 1..Len(comps) : /\ SameEntry(header.comps[i], comps[i])
                                  /\ header.comps[i].auth = Rows[i].auth
  BY <1>1, WrittenEntries
<1>5. /\ IsHeader(Deep, header) /\ IsHeader(Deep, header') /\ file' = GetData(header')
  BY ReplacePicks
<1>6. PICK i : ReplacedAt(header, header', i, key)
  BY ReplacePicks
<1>7. /\ header'.auth = header.auth /\ header'.mono = header.mono
      /\ header'.data_offset = header.data_offset /\ header'.data_size = header.data_size
      /\ header'.auth_data = header.auth_data /\ FitsRegions(header')
      /\ Len(header'.comps) = Len(comps)
      /\ \A k \in 1..Len(comps) : SameEntry(header'.comps[k], header.comps[k])
  BY <1>4, <1>6 DEF ReplacedAt
<1>8. TypeInv'
  <2>1. header'.data_offset \in 0..(OffsetLimit - 1) /\ file' # <<>>
    BY <1>4, <1>5, <1>7, FileNotEmpty
  <2> QED  BY <1>1, <1>2, <1>3, <2>1 DEF TypeInv
<1>9. BuiltInv'
  BY <1>1, <1>2, <1>3 DEF BuiltInv
<1>10. PlacedInv'
  <2>1. index - 1 \in 0..Len(comps)
    BY <1>4
  <2> QED  BY <1>1, <1>2, <1>4, <2>1, PlacedKept
<1>11. SignedInv'
  BY <1>1 DEF SignedInv
<1>12. WrittenInv'
  <2>1. Premises' = Premises
    BY <1>1, <1>3 DEF Premises, Sane, Padded
  <2>2. Premises => Tidy(header') /\ Covers(header', file')
    <3> SUFFICES ASSUME Premises
                 PROVE  Tidy(header') /\ Covers(header', file')
      OBVIOUS
    <3>1. Tidy(header) /\ Covers(header, file) /\ KeysMatch(Rows)
      BY <1>1, <1>2 DEF WrittenInv, Premises
    <3>2. \A k \in 1..Len(header.comps) : header.comps[k].auth = Rows[k].auth
      BY <1>4
    <3>3. Len(Rows) = Len(header.comps)
      BY <1>4
    <3> QED  BY <1>4, <1>5, <1>6, <3>1, <3>2, <3>3, TidyReplaced
  <2>3. LET a == Adjusted(comps)
        IN  /\ header'.auth = a.auth /\ header'.mono = a.mono
            /\ header'.data_offset = a.data_offset /\ header'.data_size = a.data_size
            /\ header'.auth_data = a.auth_data
    BY <1>1, <1>2, <1>7 DEF WrittenInv
  <2>4. Adjusted(comps)' = Adjusted(comps)
    BY <1>1, SameAdjusted
  <2>5. \A x, y : Covers(x, y)' = Covers(x, y)
    BY <1>3, Zenon DEF Covers
  <2>6. \A k \in 1..Len(comps) : SameEntry(header'.comps[k], comps[k])
    BY <1>4, <1>7, Zenon DEF SameEntry
  <2> QED  BY <1>1, <1>3, <1>5, <1>7, <2>1, <2>2, <2>3, <2>4, <2>5, <2>6 DEF WrittenInv
<1> QED  BY <1>8, <1>9, <1>10, <1>11, <1>12 DEF IInv

(* Every step keeps the invariant.                                          *)
LEMMA IInvNext == IInv /\ [Next]_containerVars => IInv'
<1> SUFFICES ASSUME IInv, [Next]_containerVars
             PROVE  IInv'
  OBVIOUS
<1>1. CASE BuildComponent
  BY <1>1, BuildStep
<1>2. CASE BuildFails
  BY <1>2, FailStep DEF BuildFails
<1>3. CASE Built
  BY <1>3, BuiltStep
<1>4. CASE PlaceComponent
  BY <1>4, PlaceStep
<1>5. CASE Placed
  BY <1>5, PlacedStep
<1>6. CASE SignAll
  BY <1>6, SignStep
<1>7. CASE WriteContainer
  BY <1>7, WriteStep
<1>8. CASE DoesNotFit
  BY <1>8, FailStep DEF DoesNotFit
<1>9. CASE \E name \in {Rows[i].name : i \in DOMAIN Rows}, f \in Contents,
              alg \in Algorithms, key \in Keys \cup {NoKey} : Replace(name, f, alg, key)
  <2>1. PICK name \in {Rows[i].name : i \in DOMAIN Rows}, f \in Contents,
             alg \in Algorithms, key \in Keys \cup {NoKey} : Replace(name, f, alg, key)
    BY <1>9
  <2> QED  BY <2>1, ReplaceStep
<1>10. CASE ExtractAndCreate
  BY <1>10, ExtractStep
<1>11. CASE UNCHANGED containerVars
  <2>1. /\ pc' = pc /\ layout' = layout /\ alignment' = alignment /\ comps' = comps
        /\ header_size' = header_size /\ index' = index /\ offset' = offset
        /\ base_offset' = base_offset /\ header' = header /\ file' = file /\ origin' = origin
    BY <1>11 DEF containerVars
  <2>2. /\ Rows' = Rows /\ IsMono' = IsMono /\ HeaderAuth' = HeaderAuth
        /\ HeaderFails' = HeaderFails /\ LayoutOk' = LayoutOk /\ Deep' = Deep
        /\ \A i : RowFails(i)' = RowFails(i)
        /\ \A e, s : Made(e, s)' = Made(e, s) /\ SignedAlone(e, s)' = SignedAlone(e, s)
    BY <2>1, SameLayout
  <2>3. /\ Padded' = Padded /\ Sane' = Sane /\ Premises' = Premises
        /\ \A next : FirstPlace(next)' = FirstPlace(next)
        /\ \A x, y : Covers(x, y)' = Covers(x, y)
    BY <2>1, <2>2, Zenon DEF Padded, Sane, Premises, FirstPlace, Covers
  <2>4. \A cs : Adjusted(cs)' = Adjusted(cs)
    BY <2>1, SameAdjusted
  <2>5. TypeInv' /\ BuiltInv'
    BY <2>1, <2>2 DEF IInv, TypeInv, BuiltInv
  <2>6. PlacedInv'
    BY <2>1, <2>2, <2>3, Zenon DEF IInv, PlacedInv
  <2>7. SignedInv'
    BY <2>1, <2>2, <2>4, Zenon DEF IInv, SignedInv, BeforeSigning
  <2>8. WrittenInv'
    BY <2>1, <2>2, <2>3, <2>4, Zenon DEF IInv, WrittenInv
  <2> QED  BY <2>5, <2>6, <2>7, <2>8 DEF IInv
<1> QED  BY <1>1, <1>2, <1>3, <1>4, <1>5, <1>6, <1>7, <1>8, <1>9, <1>10, <1>11 DEF Next

(* The invariant holds in every state that create, replace and extract      *)
(* reach.                                                                   *)
THEOREM ContainerInvariant == Spec => []IInv
<1>1. Init => IInv
  BY IInvInit
<1>2. IInv /\ [Next]_containerVars => IInv'
  BY IInvNext
<1> QED  BY <1>1, <1>2, PTL DEF Spec

-----------------------------------------------------------------------------
(* The properties.                                                         *)

(* The types follow.                                                        *)
LEMMA TypesOk == IInv => ContTypeOK
<1> SUFFICES ASSUME IInv
             PROVE  ContTypeOK
  OBVIOUS
<1>1. TypeInv
  BY DEF IInv
<1>2. ASSUME NEW i \in DOMAIN comps
      PROVE  /\ comps[i].offset \in Nat /\ comps[i].size \in Nat
             /\ comps[i].alignment \in Nat \ {0} /\ comps[i].auth \in AuthTypes
  <2>1. i \in 1..Len(comps)
    BY <1>1, SeqShape DEF TypeInv, AreComps
  <2> QED  BY <1>1, <2>1 DEF TypeInv, AreComps, IsComp
<1> QED  BY <1>1, <1>2 DEF TypeInv, ContTypeOK

(* ContTypeOK: the cursors of create stay in the lists, sizes and places are*)
(* numbers, and data_offset has sixteen bits.                               *)
THEOREM ContainerTypes == Spec => []ContTypeOK
BY ContainerInvariant, TypesOk, PTL

(* In a written container all regions are apart.                            *)
LEMMA WrittenApart ==
  ASSUME IInv, pc = "written"
  PROVE  Apart(comps)
<1>1. index - 1 = Len(comps)
  BY WrittenEntries
<1> QED  BY <1>1 DEF IInv, PlacedInv, Apart

(* The regions are apart from the moment they have a place.                 *)
LEMMA Disjoint == IInv => RegionsDisjoint
<1> SUFFICES ASSUME IInv
             PROVE  RegionsDisjoint
  OBVIOUS
<1>1. TypeInv /\ PlacedInv
  BY DEF IInv
<1>2. IsSeq(comps) /\ Len(comps) \in Nat /\ DOMAIN comps = 1..Len(comps)
  BY <1>1, SeqShape DEF TypeInv, AreComps
<1>3. ASSUME pc \notin {"build", "failed"}, NEW i \in DOMAIN comps, NEW j \in DOMAIN comps,
             i < j, j < index
      PROVE  comps[i].offset + comps[i].size <= comps[j].offset
  <2>1. i \in 1..(index - 1) /\ j \in 1..(index - 1)
    BY <1>1, <1>2, <1>3 DEF TypeInv
  <2> QED  BY <1>1, <1>3, <2>1 DEF PlacedInv
<1>4. ASSUME pc = "written", NEW i \in DOMAIN comps
      PROVE  comps[i].offset + comps[i].size <= header.data_size
  <2>1. /\ AreComps(Deep, comps) /\ alignment \in Nat \ {0} /\ LayoutOk /\ header_size \in Nat
    BY <1>1 DEF TypeInv
  <2>2. header.data_size = Adjusted(comps).data_size
    BY <1>4 DEF IInv, WrittenInv
  <2>3. Adjusted(comps).data_size =
          IF comps = <<>> THEN 0
          ELSE AlignUp(comps[Len(comps)].offset + comps[Len(comps)].size, alignment)
    BY <2>1, AdjustedShape
  <2>4. Apart(comps)
    BY <1>4, WrittenApart
  <2>5. comps # <<>> /\ comps[i].offset + comps[i].size
          <= AlignUp(comps[Len(comps)].offset + comps[Len(comps)].size, alignment)
    BY <1>2, <2>1, <2>4, EndsInside
  <2> QED  BY <2>2, <2>3, <2>5
<1> QED  BY <1>3, <1>4 DEF RegionsDisjoint

(* RegionsDisjoint: no region of a component reaches into another one, or   *)
(* past the payload, whatever sizes and alignments the layout gives.        *)
THEOREM ContainerRegions == Spec => []RegionsDisjoint
BY ContainerInvariant, Disjoint, PTL

(* Under the premises of the properties the container is tidy.              *)
LEMMA ReadableTidy ==
  ASSUME IInv, Readable
  PROVE  /\ IsHeader(Deep, header) /\ file = GetData(header)
         /\ Tidy(header) /\ Covers(header, file)
         /\ HeadRead(header, Parse(file)) /\ Parse(file).comps = header.comps
         /\ IsHeader(Deep, Parse(file))
<1>1. pc = "written" /\ Premises
  BY DEF Readable, Premises
<1>2. /\ IsHeader(Deep, header) /\ file = GetData(header)
      /\ Tidy(header) /\ Covers(header, file)
  BY <1>1 DEF IInv, WrittenInv
<1> QED  BY <1>2, ReadBack, ReadAll

(* CONTAINER_HDR undoes get_data.                                           *)
LEMMA ReadsWhatIsWritten == IInv => ParseInverts
<1> SUFFICES ASSUME IInv, Readable
             PROVE  LET h == Parse(file)
                    IN  /\ h.auth_data = header.auth_data
                        /\ h.data_offset = header.data_offset /\ h.data_size = header.data_size
                        /\ h.comps = header.comps
  BY DEF ParseInverts
<1>1. HeadRead(header, Parse(file)) /\ Parse(file).comps = header.comps
  BY ReadableTidy
<1> QED  BY <1>1 DEF HeadRead

(* ParseInverts: a reader of the file finds the header, the entries and the *)
(* components that create or replace has put into it.                       *)
THEOREM ContainerParses == Spec => []ParseInverts
BY ContainerInvariant, ReadsWhatIsWritten, PTL

(* Every hash and signature is of what it should be.                        *)
LEMMA AllSigned == IInv => SignaturesCover
<1> SUFFICES ASSUME IInv, Readable
             PROVE  SignaturesCover
  BY DEF SignaturesCover
<1> DEFINE h == Parse(file)
           n == Len(Rows)
           a == Adjusted(comps)
           covered(i) == IF h.mono /\ i = n
                         THEN Slice(file, h.data_offset, h.data_offset + h.comps[n].offset)
                         ELSE h.comps[i].data
<1>1. /\ IsHeader(Deep, header) /\ Covers(header, file) /\ HeadRead(header, h)
      /\ h.comps = header.comps /\ IsHeader(Deep, h)
  BY ReadableTidy
<1>2. pc = "written"
  BY DEF Readable
<1>3. /\ Len(comps) = n /\ Len(header.comps) = n /\ IsSeq(comps) /\ AreComps(Deep, comps)
      /\ alignment \in Nat \ {0} /\ header_size \in Nat
      /\ \A i \in 1..n : SameEntry(header.comps[i], comps[i])
  BY <1>2, WrittenEntries
<1>4. LayoutOk
  BY DEF IInv, TypeInv
<1>5. /\ header.auth = a.auth /\ header.mono = a.mono
      /\ header.data_offset = a.data_offset /\ header.data_size = a.data_size
      /\ header.auth_data = a.auth_data
  BY <1>2 DEF IInv, WrittenInv
<1>6. /\ a.comps = comps /\ a.auth = HeaderAuth
      /\ a.auth_data = Signature(HeaderCells(a), HeaderAuth, layout.header.key)
  BY <1>3, <1>4, AdjustedShape
<1>7. /\ h.auth = header.auth /\ h.mono = header.mono /\ h.data_offset = header.data_offset
      /\ h.data_size = header.data_size /\ h.auth_data = header.auth_data
      /\ \A i \in 1..n : SameEntry(h.comps[i], header.comps[i])
  BY <1>1, <1>3 DEF HeadRead
<1> HIDE DEF h, a
<1>8. /\ IsSeq(header.comps) /\ IsSeq(h.comps) /\ Len(h.comps) = n
  BY <1>1, <1>3 DEF IsHeader, AreComps
<1>9. HeaderCells(h) = HeaderCells(header)
  BY <1>3, <1>7, <1>8, HeadSame
<1>10. HeaderCells(header) = HeaderCells(a)
  BY <1>3, <1>5, <1>6, <1>8, HeadSame
<1>11. h.auth_data = Signature(HeaderCells(h), h.auth, layout.header.key)
  BY <1>5, <1>6, <1>7, <1>9, <1>10
<1>12. ASSUME NEW i \in 1..n
       PROVE  /\ h.comps[i].hash = HashData(covered(i), Rows[i].auth, Rows[i].key)
              /\ h.comps[i].auth_data = Signature(covered(i), Rows[i].auth, Rows[i].key)
  <2>1. covered(i) = CoveredOf(header, file, i)
    BY <1>1, <1>3, <1>7 DEF CoveredOf
  <2>2. /\ header.comps[i].hash = HashData(CoveredOf(header, file, i), Rows[i].auth, Rows[i].key)
        /\ header.comps[i].auth_data = Signature(CoveredOf(header, file, i), Rows[i].auth, Rows[i].key)
    BY <1>1, <1>3 DEF Covers
  <2> HIDE DEF covered
  <2> QED  BY <1>1, <2>1, <2>2
<1> QED  BY <1>11, <1>12, Zenon DEF SignaturesCover, h

(* SignaturesCover: in every finished file, also after components were      *)
(* replaced, the signature of the header covers the entries as they are in  *)
(* the file, and each entry authenticates its component or, in a monolithic *)
(* container, the last one everything in front of it.                       *)
THEOREM ContainerSigned == Spec => []SignaturesCover
BY ContainerInvariant, AllSigned, PTL

(* With one alignment for the header and the first component base_offset and*)
(* data_offset are the same.                                                *)
LEMMA AlignedParts == IInv => AlignedAsGenerated
<1> SUFFICES ASSUME IInv, pc = "written", Sane, comps # <<>>, comps[1].alignment = alignment,
                    IsMono => alignment <= LzSize, NEW i \in DOMAIN comps
             PROVE  IsAligned(comps[i])
  BY DEF AlignedAsGenerated
<1> DEFINE up == AlignUp(header_size, alignment)
           n == Len(comps)
<1>1. /\ IsSeq(comps) /\ AreComps(Deep, comps) /\ n \in Nat /\ index = n + 1
      /\ alignment \in Nat \ {0} /\ header_size \in Nat
  BY WrittenEntries
<1>2. i \in 1..n /\ n > 0 /\ index - 1 = n
  BY <1>1, SeqShape
<1>3. /\ base_offset = FirstPlace(up)
      /\ \/ (base_offset + comps[i].offset) % comps[i].alignment = 0
         \/ (base_offset + comps[i].offset + LzSize) % comps[i].alignment = 0
  BY <1>2 DEF IInv, PlacedInv
<1>4. up \in Nat /\ header_size <= up /\ up < header_size + alignment /\ up < OffsetLimit
  BY <1>1, Aligned DEF Sane
<1> HIDE DEF up
<1>5. FirstPlace(up) = up
  <2>1. IsMono => ~(up - header_size >= LzSize)
    BY <1>1, <1>4, Sizes
  <2> QED  BY <2>1 DEF FirstPlace
<1>6. header.data_offset = up
  <2>1. header.data_offset = Adjusted(comps).data_offset
    BY DEF IInv, WrittenInv
  <2>2. LayoutOk
    BY DEF IInv, TypeInv
  <2>3. Adjusted(comps).data_offset = up % OffsetLimit
    BY <1>1, <2>2, AdjustedShape DEF up
  <2>4. \A m \in Nat, b \in Nat \ {0} : m < b => m % b = m
    OBVIOUS
  <2> QED  BY <1>4, <2>1, <2>3, <2>4, Sizes
<1> QED  BY <1>3, <1>5, <1>6 DEF IsAligned

(* AlignedAsGenerated: where the header and the first component demand the  *)
(* same alignment, every component or its payload is aligned in the file.   *)
THEOREM ContainerAligned == Spec => []AlignedAsGenerated
BY ContainerInvariant, AlignedParts, PTL

KeepsOthers ==
  Readable /\ pc' = "written" =>
    /\ Len(file') = Len(file)
    /\ \E i \in DOMAIN comps :
         LET from == header.data_offset + comps[i].offset
         IN  \A k \in DOMAIN file :
               file'[k] # file[k] => k > from /\ k <= from + comps[i].size

(* The two files lay the same bodies everywhere but in one region.          *)
LEMMA ReplaceKeeps ==
  ASSUME IInv, Readable, IInv', NEW name, NEW f \in Contents, NEW alg, NEW key,
         Replace(name, f, alg, key)
  PROVE  KeepsOthers
<1> DEFINE n == Len(comps)
           h == header
           g == header'
<1>1. /\ IsHeader(Deep, h) /\ file = GetData(h) /\ IsHeader(Deep, g) /\ file' = GetData(g)
  BY ReplacePicks
<1>2. PICK i : ReplacedAt(h, g, i, key)
  BY ReplacePicks
<1>3. Tidy(h)
  BY ReadableTidy
<1>4. Tidy(g)
  <2>1. /\ Premises /\ pc' = "written"
    BY DEF Readable, Premises, Replace
  <2>2. Premises'
    <3>1. Rows' = Rows /\ alignment' = alignment /\ header_size' = header_size /\ comps' = comps
      BY DEF Replace, Rows
    <3> QED  BY <2>1, <3>1 DEF Premises, Sane, Padded
  <2> QED  BY <2>1, <2>2 DEF IInv, WrittenInv
<1>5. /\ Len(h.comps) = n /\ IsSeq(comps) /\ n \in Nat
      /\ \A j \in 1..n : SameEntry(h.comps[j], comps[j])
  BY WrittenEntries DEF Readable
<1>6. /\ i \in 1..n /\ Len(g.comps) = n /\ g.data_offset = h.data_offset
      /\ g.data_size = h.data_size
      /\ \A j \in 1..n : j # i => g.comps[j] = h.comps[j]
      /\ \A j \in 1..n : SameEntry(g.comps[j], h.comps[j])
  BY <1>2, <1>3, <1>5 DEF ReplacedAt
<1>7. Lead(g) = Lead(h)
  BY <1>1, <1>2, HeadsSame
<1>8. Roomy(h) /\ Roomy(g)
  BY <1>3, <1>4 DEF Tidy
<1>9. /\ Laid(h, n, file) /\ Len(file) = h.data_offset + h.data_size
      /\ Laid(g, n, file') /\ Len(file') = h.data_offset + h.data_size
  BY <1>1, <1>5, <1>6, <1>8, FileLaid
<1>10. IsSeq(file) /\ DOMAIN file = 1..Len(file) /\ DOMAIN comps = 1..n
  BY <1>1, <1>5, FileStarts, SeqShape
<1> HIDE DEF h, g
<1>11. ASSUME NEW k \in 1..Len(file),
              ~(k > header.data_offset + comps[i].offset
                /\ k <= header.data_offset + comps[i].offset + comps[i].size)
       PROVE  file'[k] = file[k]
  <2>1. CASE k <= Len(Lead(h))
    <3>1. IsSeq(Lead(h)) /\ k \in 1..Len(Lead(h))
      <4>1. Len(Lead(h)) \in Nat
        BY <1>1, LeadShape
      <4> QED  BY <1>1, <2>1, <4>1, LeadShape
    <3>2. file[k] = Lead(h)[k] /\ file'[k] = Lead(h)[k]
      BY <1>7, <1>9, <3>1 DEF Laid, StartsWith
    <3> QED  BY <3>2
  <2>2. CASE ~(k <= Len(Lead(h)))
    <3>1. ASSUME NEW j \in 1..n
          PROVE  /\ From(h, j) \in Nat /\ Len(Body(h.comps[j])) \in Nat
                 /\ From(g, j) \in Nat /\ Len(Body(g.comps[j])) \in Nat
                 /\ From(h, j) = h.data_offset + comps[j].offset
                 /\ From(g, j) = From(h, j)
                 /\ Len(Body(h.comps[j])) <= comps[j].size
                 /\ Len(Body(g.comps[j])) <= comps[j].size
                 /\ comps[j].size \in Nat
      <4>1. /\ From(h, j) \in Nat /\ Len(Body(h.comps[j])) \in Nat
            /\ From(g, j) \in Nat /\ Len(Body(g.comps[j])) \in Nat
            /\ From(h, j) = h.data_offset + h.comps[j].offset
            /\ From(g, j) = g.data_offset + g.comps[j].offset
            /\ h.comps[j].size \in Nat
        BY <1>1, <1>5, <1>6, BodyNat
      <4>2. /\ g.comps[j].offset = h.comps[j].offset /\ g.comps[j].size = h.comps[j].size
            /\ h.comps[j].offset = comps[j].offset /\ h.comps[j].size = comps[j].size
        BY <1>5, <1>6 DEF SameEntry
      <4>3. j \in DOMAIN h.comps /\ j \in DOMAIN g.comps
        BY <1>1, <1>5, <1>6, SeqShape DEF IsHeader, AreComps
      <4>4. Len(Body(h.comps[j])) <= h.comps[j].size /\ Len(Body(g.comps[j])) <= g.comps[j].size
        BY <1>8, <4>3 DEF Roomy, FitsRegions
      <4> QED  BY <1>6, <4>1, <4>2, <4>4
    <3>2. ASSUME NEW j \in 1..n, InBody(g, j, k) \/ InBody(h, j, k)
          PROVE  Body(g.comps[j]) = Body(h.comps[j])
      <4>1. CASE j # i
        BY <1>6, <4>1
      <4>2. CASE j = i
        <5> DEFINE from == From(h, i)
                   b == Len(Body(h.comps[i]))
                   e == Len(Body(g.comps[i]))
                   s == comps[i].size
        <5>1. /\ from \in Nat /\ b \in Nat /\ e \in Nat /\ s \in Nat /\ b <= s /\ e <= s
              /\ from = header.data_offset + comps[i].offset
          BY <1>6, <3>1 DEF h
        <5>2. from < k /\ (k <= from + b \/ k <= from + e)
          BY <1>6, <3>1, <3>2, <4>2 DEF InBody
        <5>3. ~(k > from /\ k <= from + s)
          BY <1>11, <5>1
        <5> HIDE DEF from, b, e, s
        <5>4. FALSE
          BY <5>1, <5>2, <5>3
        <5> QED  BY <5>4
      <4> QED  BY <4>1, <4>2
    <3>3. SameBodies(g, h, n, k)
      BY <3>1, <3>2, Zenon DEF SameBodies
    <3>4. BothLaid(g, h, n, file', file, k)
      BY <1>7, <1>9, <2>2, <3>3 DEF BothLaid
    <3> QED  BY <3>4, LaidAgree
  <2> QED  BY <2>1, <2>2
<1> QED  BY <1>6, <1>9, <1>10, <1>11 DEF KeepsOthers

(* Of the steps between two finished files only replace changes one.        *)
LEMMA KeepsNext == IInv /\ IInv' /\ [Next]_containerVars => [KeepsOthers]_containerVars
<1> SUFFICES ASSUME IInv, IInv', Next, Readable, pc' = "written"
             PROVE  KeepsOthers
  BY DEF KeepsOthers
<1>1. pc = "written"
  BY DEF Readable
<1>2. \E name \in {Rows[i].name : i \in DOMAIN Rows}, f \in Contents,
         alg \in Algorithms, key \in Keys \cup {NoKey} : Replace(name, f, alg, key)
  BY <1>1 DEF Next, BuildComponent, BuildFails, Built, PlaceComponent, Placed, SignAll,
              WriteContainer, DoesNotFit, ExtractAndCreate, StartCreate
<1>3. PICK name \in {Rows[i].name : i \in DOMAIN Rows}, f \in Contents,
           alg \in Algorithms, key \in Keys \cup {NoKey} : Replace(name, f, alg, key)
  BY <1>2
<1> QED  BY <1>3, ReplaceKeeps

(* ReplaceKeepsOthers: replace leaves the length of the file, the header    *)
(* with its signature, and every region but one as they are.                *)
THEOREM ContainerKeepsOthers == Spec => ReplaceKeepsOthers
<1>1. Spec => []IInv
  BY ContainerInvariant
<1>2. IInv /\ IInv' /\ [Next]_containerVars => [KeepsOthers]_containerVars
  BY KeepsNext
<1>3. Spec => [][KeepsOthers]_containerVars
  BY <1>1, <1>2, PTL DEF Spec
<1> QED  BY <1>3 DEF ReplaceKeepsOthers, KeepsOthers

-----------------------------------------------------------------------------
(* The container made again. What create makes is settled by a few things  *)
(* (Settled), and all of them are in the file: the places follow from the  *)
(* sizes and alignments (PlacedTo), what is compressed can be compressed   *)
(* again (Remade), and the keys follow from the types.                     *)

PlaceOf(mono, from, a) ==
  LET next == AlignUp(from, a)
  IN  IF mono /\ next - from >= LzSize THEN next - LzSize ELSE next

(* The first n components at their places: at[k] is behind the k-th.       *)
PlacedTo(mono, first, cs, n, at) ==
  /\ at[0] = first
  /\ \A k \in 1..n :
       LET place == PlaceOf(mono, at[k - 1], cs[k].alignment)
       IN  /\ at[k] = place + cs[k].size
           /\ cs[k].offset = place - PlaceOf(mono, first, cs[1].alignment)

(* Compressed again, what was compressed is the same.                      *)
Again(data) == LzFile(data[1][2], Decompress(data)) = data
Remade(c) == IF c.reserved THEN c.data = LzFile("Dummy", <<>>) ELSE Again(c.data)

(* Every hash and signature of a header is with the key of its type.       *)
SignedFor(h) ==
  \A i \in 1..Len(h.comps) :
    LET c == h.comps[i]
        f == CoveredOf(h, GetData(h), i)
    IN  /\ c.hash = HashData(f, c.auth, KeyFor(c.auth))
        /\ c.auth_data = Signature(f, c.auth, KeyFor(c.auth))

HeaderEnd(h) == HdrSize + AuthSize(h.auth) + Len(Entries(h.comps))

(* What create makes of the components under an alignment.                 *)
Shaped(h, a) ==
  LET n == Len(h.comps)
  IN  /\ h.mono = (n # 0 /\ h.comps[n].name = Mono)
      /\ h.data_offset = AlignUp(HeaderEnd(h), a) % OffsetLimit
      /\ h.data_size = IF n = 0 THEN 0 ELSE AlignUp(h.comps[n].offset + h.comps[n].size, a)
      /\ h.auth_data = Signature(HeaderCells(h), h.auth, KeyFor(h.auth))
      /\ \E at : PlacedTo(h.mono, HeaderEnd(h), h.comps, n, at)

(* Components with the same fields but for offset, hash and signature.     *)
Alike(c, d) ==
  /\ c.name = d.name /\ c.size = d.size /\ c.reserved = d.reserved
  /\ c.alignment = d.alignment /\ c.auth = d.auth /\ c.data = d.data

SameSizes(cs, ds, n) ==
  \A i \in 1..n : cs[i].size = ds[i].size /\ cs[i].alignment = ds[i].alignment

(* The places of two lists are the same if the sizes and alignments are.   *)
LEMMA PlacesSame ==
  ASSUME NEW mono, NEW first, NEW cs, NEW ds, NEW n \in Nat, NEW at, NEW pos,
         PlacedTo(mono, first, cs, n, at), PlacedTo(mono, first, ds, n, pos),
         SameSizes(cs, ds, n)
  PROVE  \A i \in 1..n : cs[i].offset = ds[i].offset
<1> DEFINE Q == {m \in Nat : m <= n => at[m] = pos[m]}
<1>1. 0 \in Q
  BY DEF PlacedTo
<1>2. ASSUME NEW m \in Nat, m \in Q
      PROVE  m + 1 \in Q
  <2> SUFFICES ASSUME m + 1 <= n
               PROVE  at[m + 1] = pos[m + 1]
    OBVIOUS
  <2>1. at[m] = pos[m] /\ m + 1 \in 1..n /\ (m + 1) - 1 = m
    BY <1>2
  <2>2. /\ at[m + 1] = PlaceOf(mono, at[m], cs[m + 1].alignment) + cs[m + 1].size
        /\ pos[m + 1] = PlaceOf(mono, pos[m], ds[m + 1].alignment) + ds[m + 1].size
    BY <2>1 DEF PlacedTo
  <2>3. cs[m + 1].alignment = ds[m + 1].alignment /\ cs[m + 1].size = ds[m + 1].size
    BY <2>1 DEF SameSizes
  <2> QED  BY <2>1, <2>2, <2>3
<1> HIDE DEF Q
<1>3. \A m \in Nat : m \in Q
  BY <1>1, <1>2, SetInduction
<1>4. ASSUME NEW i \in 1..n
      PROVE  cs[i].offset = ds[i].offset
  <2>1. i - 1 \in Nat /\ i - 1 <= n /\ 1 \in 1..n
    OBVIOUS
  <2>2. at[i - 1] = pos[i - 1]
    BY <1>3, <2>1 DEF Q
  <2>3. /\ cs[i].offset = PlaceOf(mono, at[i - 1], cs[i].alignment)
                            - PlaceOf(mono, first, cs[1].alignment)
        /\ ds[i].offset = PlaceOf(mono, pos[i - 1], ds[i].alignment)
                            - PlaceOf(mono, first, ds[1].alignment)
    BY DEF PlacedTo
  <2>4. cs[i].alignment = ds[i].alignment /\ cs[1].alignment = ds[1].alignment
    BY <2>1 DEF SameSizes
  <2> QED  BY <2>2, <2>3, <2>4
<1> QED  BY <1>4

(* One list at its places, the other too if it is alike.                   *)
LEMMA PlacesKept ==
  ASSUME NEW mono, NEW first, NEW cs, NEW ds, NEW n \in Nat, NEW at,
         PlacedTo(mono, first, cs, n, at),
         \A i \in 1..n : /\ cs[i].size = ds[i].size /\ cs[i].alignment = ds[i].alignment
                         /\ cs[i].offset = ds[i].offset
  PROVE  PlacedTo(mono, first, ds, n, at)
<1>1. ASSUME NEW k \in 1..n
      PROVE  /\ at[k] = PlaceOf(mono, at[k - 1], ds[k].alignment) + ds[k].size
             /\ ds[k].offset = PlaceOf(mono, at[k - 1], ds[k].alignment)
                                 - PlaceOf(mono, first, ds[1].alignment)
  <2>1. /\ at[k] = PlaceOf(mono, at[k - 1], cs[k].alignment) + cs[k].size
        /\ cs[k].offset = PlaceOf(mono, at[k - 1], cs[k].alignment)
                            - PlaceOf(mono, first, cs[1].alignment)
    BY DEF PlacedTo
  <2>2. 1 \in 1..n
    OBVIOUS
  <2> QED  BY <2>1, <2>2
<1> QED  BY <1>1 DEF PlacedTo

(* get_data is the same for the same components behind the same header.    *)
LEMMA GetDataSame ==
  ASSUME NEW g, NEW h, IsSeq(h.comps), g.comps = h.comps,
         HeaderCells(g) = HeaderCells(h), g.auth_data = h.auth_data,
         g.data_offset = h.data_offset, g.data_size = h.data_size
  PROVE  GetData(g) = GetData(h)
<1> DEFINE n == Len(h.comps)
<1>1. PICK s : /\ s[0] = Lead(g)
               /\ \A m \in 1..n : s[m] = Place(g, s[m - 1], h.comps[m])
               /\ GetData(g) = FillTo(s[n], g.data_offset + g.data_size)
  BY GetDataUnfolds
<1>2. PICK t : /\ t[0] = Lead(h)
               /\ \A m \in 1..n : t[m] = Place(h, t[m - 1], h.comps[m])
               /\ GetData(h) = FillTo(t[n], h.data_offset + h.data_size)
  BY GetDataUnfolds
<1>3. n \in Nat
  BY SeqShape
<1> HIDE DEF n
<1> DEFINE Q == {m \in Nat : m <= n => s[m] = t[m]}
<1>4. 0 \in Q
  BY <1>1, <1>2 DEF Lead
<1>5. ASSUME NEW m \in Nat, m \in Q
      PROVE  m + 1 \in Q
  <2> SUFFICES ASSUME m + 1 <= n
               PROVE  s[m + 1] = t[m + 1]
    OBVIOUS
  <2>1. s[m] = t[m] /\ m + 1 \in 1..n /\ (m + 1) - 1 = m
    BY <1>3, <1>5
  <2>2. s[m + 1] = Place(g, s[m], h.comps[m + 1]) /\ t[m + 1] = Place(h, t[m], h.comps[m + 1])
    BY <1>1, <1>2, <2>1
  <2> QED  BY <2>1, <2>2 DEF Place
<1> HIDE DEF Q
<1>6. n \in Q
  BY <1>3, <1>4, <1>5, SetInduction
<1>7. s[n] = t[n]
  BY <1>3, <1>6 DEF Q
<1> QED  BY <1>1, <1>2, <1>7

(* Two headers with components that are alike end at the same place.       *)
LEMMA EndsSame ==
  ASSUME NEW deep, NEW g, NEW h, IsHeader(deep, g), IsHeader(deep, h), g.auth = h.auth,
         Len(g.comps) = Len(h.comps),
         \A i \in 1..Len(h.comps) : g.comps[i].auth = h.comps[i].auth
  PROVE  HeaderEnd(g) = HeaderEnd(h)
<1>1. /\ IsSeq(g.comps) /\ IsSeq(h.comps)
      /\ \A i \in 1..Len(h.comps) : IsComp(deep, g.comps[i]) /\ IsComp(deep, h.comps[i])
  BY DEF IsHeader, AreComps
<1>2. \A i \in 1..Len(h.comps) : Fine(deep, g.comps[i].hash) /\ Fine(deep, h.comps[i].hash)
  BY <1>1 DEF IsComp
<1>3. \A i \in 1..Len(h.comps) : Len(g.comps[i].hash) = Len(h.comps[i].hash)
  BY <1>1 DEF IsComp
<1>4. Len(Entries(g.comps)) = Len(Entries(h.comps))
  BY <1>1, <1>2, <1>3, EntriesLen
<1> QED  BY <1>4 DEF HeaderEnd

(* Containers made from components that are alike, under the same          *)
(* alignment and with the same keys, are the same: the signature over      *)
(* everything is of the same cells, as all components in front of it are.  *)
LEMMA SameMade ==
  ASSUME NEW deep, NEW g, NEW h, NEW a, IsHeader(deep, g), IsHeader(deep, h),
         Roomy(g), Roomy(h), Shaped(g, a), Shaped(h, a), SignedFor(g), SignedFor(h),
         g.auth = h.auth, Len(g.comps) = Len(h.comps),
         \A i \in 1..Len(h.comps) : Alike(g.comps[i], h.comps[i])
  PROVE  GetData(g) = GetData(h)
<1> DEFINE n == Len(h.comps)
<1>1. /\ IsSeq(g.comps) /\ IsSeq(h.comps) /\ n \in Nat
      /\ \A i \in 1..n : IsComp(deep, g.comps[i]) /\ IsComp(deep, h.comps[i])
  BY SeqShape DEF IsHeader, AreComps
<1>2. HeaderEnd(g) = HeaderEnd(h)
  <2>1. \A i \in 1..Len(h.comps) : g.comps[i].auth = h.comps[i].auth
    BY DEF Alike
  <2> QED  BY <2>1, EndsSame
<1>3. g.mono = h.mono /\ g.data_offset = h.data_offset
  <2>1. n # 0 => g.comps[n].name = h.comps[n].name
    <3>1. n # 0 => n \in 1..n
      BY <1>1
    <3> QED  BY <3>1 DEF Alike
  <2> QED  BY <1>2, <2>1 DEF Shaped
<1>4. \A i \in 1..n : g.comps[i].offset = h.comps[i].offset
  <2>1. PICK at : PlacedTo(g.mono, HeaderEnd(g), g.comps, n, at)
    BY DEF Shaped
  <2>2. PICK pos : PlacedTo(h.mono, HeaderEnd(h), h.comps, n, pos)
    BY DEF Shaped
  <2>3. PlacedTo(g.mono, HeaderEnd(g), h.comps, n, pos)
    BY <1>2, <1>3, <2>2
  <2>4. SameSizes(g.comps, h.comps, n)
    BY DEF Alike, SameSizes
  <2> DEFINE cs == g.comps
             ds == h.comps
             mono == g.mono
             first == HeaderEnd(g)
  <2>5. /\ PlacedTo(mono, first, cs, n, at) /\ PlacedTo(mono, first, ds, n, pos)
        /\ SameSizes(cs, ds, n) /\ n \in Nat
    BY <1>1, <2>1, <2>3, <2>4
  <2> HIDE DEF n, cs, ds, mono, first
  <2>6. \A i \in 1..n : cs[i].offset = ds[i].offset
    BY <2>5, PlacesSame
  <2> QED  BY <2>6 DEF cs, ds
<1>5. g.data_size = h.data_size
  <2>1. n # 0 => n \in 1..n
    BY <1>1
  <2>2. n # 0 => g.comps[n].offset = h.comps[n].offset /\ g.comps[n].size = h.comps[n].size
    BY <1>4, <2>1 DEF Alike
  <2> QED  BY <2>2 DEF Shaped
<1>6. ASSUME NEW i \in 1..n, CoveredOf(g, GetData(g), i) = CoveredOf(h, GetData(h), i)
      PROVE  g.comps[i] = h.comps[i]
  <2> DEFINE c == g.comps[i]
             d == h.comps[i]
             f == CoveredOf(h, GetData(h), i)
  <2>1. /\ c.name = d.name /\ c.size = d.size /\ c.reserved = d.reserved
        /\ c.alignment = d.alignment /\ c.auth = d.auth /\ c.data = d.data
        /\ c.offset = d.offset
    BY <1>4 DEF Alike
  <2>2. /\ c.hash = HashData(f, c.auth, KeyFor(c.auth))
        /\ c.auth_data = Signature(f, c.auth, KeyFor(c.auth))
    BY <1>6 DEF SignedFor
  <2>3. /\ d.hash = HashData(f, d.auth, KeyFor(d.auth))
        /\ d.auth_data = Signature(f, d.auth, KeyFor(d.auth))
    BY DEF SignedFor
  <2>4. IsComp(deep, c) /\ IsComp(deep, d)
    BY <1>1
  <2> HIDE DEF c, d, f
  <2>5. c.hash = d.hash /\ c.auth_data = d.auth_data
    BY <2>1, <2>2, <2>3
  <2>6. c = d
    BY <2>1, <2>4, <2>5 DEF IsComp
  <2> QED  BY <2>6 DEF c, d
<1>7. ASSUME NEW i \in 1..n, ~(h.mono /\ i = n)
      PROVE  g.comps[i] = h.comps[i]
  <2>1. g.comps[i].data = h.comps[i].data
    BY DEF Alike
  <2>2. CoveredOf(g, GetData(g), i) = CoveredOf(h, GetData(h), i)
    BY <1>3, <1>7, <2>1 DEF CoveredOf
  <2> QED  BY <1>6, <2>2
<1>8. ASSUME NEW i \in 1..n, h.mono /\ i = n
      PROVE  g.comps[i] = h.comps[i]
  <2>1. n \in Nat \ {0} /\ Len(g.comps) = n /\ Len(h.comps) = n
    BY <1>1
  <2>2. \A k \in 1..n : k # n => g.comps[k] = h.comps[k]
    BY <1>7
  <2>3. g.comps[n].offset = h.comps[n].offset
    BY <1>4, <1>8
  <2>4. Slice(GetData(g), h.data_offset, h.data_offset + h.comps[n].offset)
          = Slice(GetData(h), h.data_offset, h.data_offset + h.comps[n].offset)
    <3> HIDE DEF n
    <3> QED  BY <1>3, <2>1, <2>2, <2>3, SliceSame
  <2>5. CoveredOf(g, GetData(g), i) = CoveredOf(h, GetData(h), i)
    BY <1>3, <1>8, <2>3, <2>4 DEF CoveredOf
  <2> QED  BY <1>6, <2>5
<1>9. g.comps = h.comps
  <2>1. \A i \in 1..n : g.comps[i] = h.comps[i]
    BY <1>7, <1>8
  <2> QED  BY <1>1, <2>1, SeqSame
<1>10. HeaderCells(g) = HeaderCells(h)
  <2>1. \A i \in 1..Len(h.comps) : SameEntry(g.comps[i], h.comps[i])
    BY <1>9 DEF SameEntry
  <2> QED  BY <1>1, <1>3, <1>5, <2>1, HeadSame
<1>11. g.auth_data = h.auth_data
  BY <1>10 DEF Shaped
<1> QED  BY <1>1, <1>3, <1>5, <1>9, <1>10, <1>11, GetDataSame

(* The key the type names is the key that settled the type.                *)
LEMMA KeyedFor ==
  ASSUME NEW auth, NEW key \in Keys \cup {NoKey}, NEW f,
         IsRsa(auth) => key # NoKey /\ KeyType(key) = auth
  PROVE  /\ HashData(f, auth, key) = HashData(f, auth, KeyFor(auth))
         /\ Signature(f, auth, key) = Signature(f, auth, KeyFor(auth))
<1>1. CASE IsRsa(auth)
  <2>1. key = KeyFor(auth)
    BY <1>1 DEF KeyType, KeyFor, Keys, NoKey
  <2> QED  BY <2>1
<1>2. CASE ~IsRsa(auth)
  BY <1>2 DEF HashData, Signature
<1> QED  BY <1>1, <1>2

(* What LZ and back again leaves.                                          *)
LEMMA AgainLz ==
  ASSUME NEW deep, NEW alg, NEW content, Fine(deep, content)
  PROVE  Again(LzFile(alg, content))
<1> DEFINE data == Squeezed(alg, content)
           x == <<"lz", alg, Len(data)>>
           head == Struct(x, LzSize)
           f == LzFile(alg, content)
<1>1. Fine(deep, data) /\ IsSeq(content) /\ Len(content) \in Nat
  BY SqueezedFine, FineShape DEF Fine
<1>2. /\ f = head \o data
      /\ data = IF alg = "Dummy" \/ content = <<>> THEN content
                ELSE Struct(<<"squeezed", content>>, (Len(content) + 1) \div 2)
  BY DEF LzFile, Squeezed
<1> HIDE DEF data
<1>3. IsSeq(data) /\ Len(data) \in Nat
  BY <1>1, FineShape
<1>4. x[1] = "lz" /\ x[2] = alg /\ x[3] = Len(data)
  OBVIOUS
<1> HIDE DEF x
<1>5. IsSeq(head) /\ Len(head) = LzSize /\ head[1] = x /\ LzSize \in Nat \ {0}
  BY Sizes, StructShape
<1> HIDE DEF head, f
<1>6. /\ IsSeq(f) /\ Len(f) = LzSize + Len(data) /\ f[1] = x
      /\ \A k \in 1..Len(data) : f[LzSize + k] = data[k]
  <2>1. /\ IsSeq(f) /\ Len(f) = LzSize + Len(data) /\ \A k \in 1..LzSize : f[k] = head[k]
        /\ \A k \in 1..Len(data) : f[LzSize + k] = data[k]
    <3>1. f = head \o data /\ IsSeq(head) /\ IsSeq(data) /\ Len(head) = LzSize
      BY <1>2, <1>3, <1>5
    <3> QED  BY <3>1, CatShape
  <2> QED  BY <1>5, <2>1
<1>7. CompressedLen(f) = Len(data) /\ f[1][2] = alg
  BY <1>3, <1>4, <1>5, <1>6 DEF CompressedLen, IsLz
<1>8. Payload(f) = data
  <2>1. LzSize \in Nat /\ LzSize + Len(data) <= Len(f)
    BY <1>3, <1>5, <1>6
  <2>2. Slice(f, LzSize, LzSize + Len(data)) = data
    BY <1>3, <1>6, <2>1, SliceIs
  <2> QED  BY <1>7, <2>2 DEF Payload
<1>9. Decompress(f) = content
  <2>1. CASE alg = "Dummy" \/ content = <<>>
    <3>1. data = content
      BY <1>2, <2>1
    <3>2. Decompress(f) = IF alg = "Dummy" \/ data = <<>> THEN data ELSE data[1][2]
      BY <1>7, <1>8 DEF Decompress
    <3> QED  BY <2>1, <3>1, <3>2
  <2>2. CASE ~(alg = "Dummy" \/ content = <<>>)
    <3> DEFINE m == (Len(content) + 1) \div 2
               y == <<"squeezed", content>>
    <3>1. data = Struct(y, m) /\ y[2] = content
      BY <1>2, <2>2
    <3>2. Len(content) # 0
      BY <1>1, <2>2, EmptyIsSeq, SeqSame
    <3>3. m \in Nat \ {0}
      BY <1>1, <3>2
    <3> HIDE DEF m, y
    <3>4. data[1] = y /\ Len(data) = m
      BY <3>1, <3>3, StructShape
    <3>5. data # <<>>
      BY <3>3, <3>4, EmptyIsSeq
    <3>6. Decompress(f) = IF alg = "Dummy" \/ data = <<>> THEN data ELSE data[1][2]
      BY <1>7, <1>8 DEF Decompress
    <3> QED  BY <2>2, <3>1, <3>4, <3>5, <3>6
  <2> QED  BY <2>1, <2>2
<1> QED  BY <1>7, <1>9 DEF Again, f

-----------------------------------------------------------------------------
(* What the invariant needs on top for it.                                 *)

GivenAlignment(l) ==
  IF l.header.alignment = 0 THEN DefaultAlignment ELSE l.header.alignment

PlacesInv ==
  /\ alignment = GivenAlignment(layout)
  /\ pc \notin {"build", "failed"} =>
       \E at : PlacedTo(IsMono, header_size, comps, index - 1, at) /\ at[index - 1] = offset

(* A step that leaves places, sizes and alignments as they are.            *)
LEMMA PlacesUnmoved ==
  ASSUME PlacesInv, pc \notin {"build", "failed"}, layout' = layout, alignment' = alignment,
         header_size' = header_size, index' = index, offset' = offset, index - 1 \in Nat,
         \A i \in 1..(index - 1) : /\ comps[i].size = comps'[i].size
                                   /\ comps[i].alignment = comps'[i].alignment
                                   /\ comps[i].offset = comps'[i].offset
  PROVE  PlacesInv'
<1>1. PICK at : PlacedTo(IsMono, header_size, comps, index - 1, at) /\ at[index - 1] = offset
  BY DEF PlacesInv
<1>2. PlacedTo(IsMono, header_size, comps', index - 1, at)
  <2> DEFINE n == index - 1
             mono == IsMono
             cs == comps
             ds == comps'
  <2>1. /\ PlacedTo(mono, header_size, cs, n, at) /\ n \in Nat
        /\ \A i \in 1..n : /\ cs[i].size = ds[i].size /\ cs[i].alignment = ds[i].alignment
                           /\ cs[i].offset = ds[i].offset
    BY <1>1
  <2> HIDE DEF n, mono, cs, ds
  <2>2. PlacedTo(mono, header_size, ds, n, at)
    BY <2>1, PlacesKept
  <2> QED  BY <2>2 DEF n, mono, ds
<1>3. IsMono' = IsMono
  BY DEF IsMono, Rows
<1> QED  BY <1>1, <1>2, <1>3 DEF PlacesInv, GivenAlignment

(* One more place.                                                         *)
LEMMA OneMorePlace ==
  ASSUME IInv, PlacesInv, PlaceComponent
  PROVE  PlacesInv'
<1> DEFINE n == index - 1
           c == comps[index]
           next == PlaceAt(c)
           base == IF base_offset = -1 THEN next ELSE base_offset
           d == [c EXCEPT !.offset = next - base]
           first == PlaceOf(IsMono, header_size, comps[1].alignment)
<1>1. /\ pc = "place" /\ pc' = "place" /\ index <= Len(comps)
      /\ comps' = [comps EXCEPT ![index] = d] /\ header_size' = header_size
      /\ index' = index + 1 /\ offset' = next + c.size /\ base_offset' = base
      /\ layout' = layout /\ alignment' = alignment
  BY DEF PlaceComponent
<1>2. TypeInv /\ PlacedInv
  BY DEF IInv
<1>3. /\ IsSeq(comps) /\ Len(comps) \in Nat /\ index \in Nat \ {0}
      /\ \A i \in 1..Len(comps) : IsComp(Deep, comps[i])
      /\ alignment \in Nat \ {0} /\ header_size \in Nat /\ offset \in Nat
  BY <1>2, SeqShape DEF TypeInv, AreComps, LayoutOk
<1>4. index \in 1..Len(comps) /\ n \in Nat /\ 1 \in 1..Len(comps)
  BY <1>1, <1>3
<1>5. IsMono' = IsMono
  BY <1>1 DEF IsMono, Rows
<1>6. PICK at : PlacedTo(IsMono, header_size, comps, n, at) /\ at[n] = offset
  BY <1>1 DEF PlacesInv
<1>7. next = PlaceOf(IsMono, offset, c.alignment)
  BY DEF PlaceAt, PlaceOf
<1>8. base = first
  <2>1. CASE n = 0
    <3>1. base_offset = -1 /\ offset = header_size
      BY <1>1, <1>2, <2>1 DEF PlacedInv
    <3>2. index = 1
      BY <1>3, <2>1
    <3> QED  BY <1>7, <3>1, <3>2
  <2>2. CASE n # 0
    <3>1. base_offset \in Nat /\ base_offset = FirstPlace(AlignUp(header_size, comps[1].alignment))
      BY <1>1, <1>2, <1>4, <2>2 DEF PlacedInv
    <3>2. FirstPlace(AlignUp(header_size, comps[1].alignment)) = first
      BY DEF FirstPlace, PlaceOf
    <3> QED  BY <3>1, <3>2
  <2> QED  BY <2>1, <2>2
<1>9. /\ IsComp(Deep, c) /\ PlaceAt(c) \in Nat /\ (base \in Nat => next - base \in Int)
  <2>1. IsComp(Deep, c) /\ c.alignment \in Nat \ {0}
    BY <1>3, <1>4 DEF IsComp
  <2> QED  BY <1>3, <2>1, PlaceAtShape
<1>10. d.offset = next - first /\ d.size = c.size /\ d.alignment = c.alignment
  <2>1. c = [name |-> c.name, offset |-> c.offset, size |-> c.size,
             reserved |-> c.reserved, alignment |-> c.alignment, auth |-> c.auth,
             hash |-> c.hash, data |-> c.data, auth_data |-> c.auth_data]
    BY <1>9 DEF IsComp
  <2> HIDE DEF c, next, base, first
  <2> QED  BY <1>8, <2>1
<1> HIDE DEF next, base, d
<1>11. /\ IsSeq(comps') /\ Len(comps') = Len(comps)
       /\ \A i \in 1..Len(comps) : comps'[i] = IF i = index THEN d ELSE comps[i]
  <2>1. IsSeq(comps) /\ index \in 1..Len(comps) /\ comps' = [comps EXCEPT ![index] = d]
    BY <1>1, <1>3, <1>4
  <2>2. /\ IsSeq([comps EXCEPT ![index] = d]) /\ Len([comps EXCEPT ![index] = d]) = Len(comps)
        /\ \A k \in 1..Len(comps) :
             [comps EXCEPT ![index] = d][k] = IF k = index THEN d ELSE comps[k]
    BY <2>1, ExceptShape
  <2> QED  BY <2>1, <2>2
<1> DEFINE pos == [k \in 0..(n + 1) |-> IF k <= n THEN at[k] ELSE next + c.size]
<1>12. /\ \A k \in 0..n : pos[k] = at[k]
       /\ pos[n + 1] = next + c.size
  BY <1>4
<1> HIDE DEF pos
<1>13. comps'[1].alignment = comps[1].alignment
  BY <1>4, <1>10, <1>11
<1>14. ASSUME NEW k \in 1..(n + 1)
       PROVE  LET place == PlaceOf(IsMono, pos[k - 1], comps'[k].alignment)
              IN  /\ pos[k] = place + comps'[k].size
                  /\ comps'[k].offset = place - first
  <2>1. CASE k \in 1..n
    <3>1. k - 1 \in 0..n /\ k \in 0..n /\ k \in 1..Len(comps) /\ k # index
      BY <1>4, <2>1
    <3>2. pos[k - 1] = at[k - 1] /\ pos[k] = at[k] /\ comps'[k] = comps[k]
      BY <1>11, <1>12, <3>1
    <3>3. /\ at[k] = PlaceOf(IsMono, at[k - 1], comps[k].alignment) + comps[k].size
          /\ comps[k].offset = PlaceOf(IsMono, at[k - 1], comps[k].alignment) - first
      BY <1>6, <2>1 DEF PlacedTo
    <3> QED  BY <3>2, <3>3
  <2>2. CASE k = n + 1
    <3>1. k = index /\ k - 1 = n /\ n \in 0..n
      BY <1>4, <2>2
    <3>2. pos[k - 1] = offset /\ pos[k] = next + c.size /\ comps'[k] = d
      BY <1>4, <1>6, <1>11, <1>12, <2>2, <3>1
    <3> QED  BY <1>7, <1>10, <3>2
  <2> QED  BY <1>4, <2>1, <2>2
<1>15. PlacedTo(IsMono, header_size, comps', n + 1, pos)
  <2>1. pos[0] = header_size
    BY <1>4, <1>6, <1>12 DEF PlacedTo
  <2> QED  BY <1>13, <1>14, <2>1 DEF PlacedTo
<1>16. index' - 1 = n + 1 /\ pos[n + 1] = offset'
  BY <1>1, <1>3, <1>12
<1>17. alignment' = GivenAlignment(layout')
  BY <1>1 DEF PlacesInv, GivenAlignment
<1> HIDE DEF n
<1> QED  BY <1>1, <1>5, <1>15, <1>16, <1>17 DEF PlacesInv

(* The signature over everything moves nothing.                            *)
LEMMA SigningMovesNothing ==
  ASSUME IInv, SignAll
  PROVE  \A i \in 1..Len(comps) : /\ comps[i].size = comps'[i].size
                                  /\ comps[i].alignment = comps'[i].alignment
                                  /\ comps[i].offset = comps'[i].offset
<1> DEFINE n == Len(comps)
           c == comps[n]
           data == Slice(GetData(Adjusted(comps)), Adjusted(comps).data_offset,
                         Adjusted(comps).data_offset + c.offset)
           a == HashData(data, Rows[n].auth, Rows[n].key)
           b == Signature(data, Rows[n].auth, Rows[n].key)
           d == [c EXCEPT !.hash = a, !.auth_data = b]
<1>1. pc = "sign" /\ comps' = [comps EXCEPT ![n].hash = a, ![n].auth_data = b]
  BY DEF SignAll
<1>2. /\ IsSeq(comps) /\ n \in Nat /\ IsSeq(Rows) /\ n = Len(Rows) /\ IsMono
      /\ \A i \in 1..n : IsComp(Deep, comps[i])
  BY <1>1, SeqShape DEF IInv, TypeInv, BuiltInv, AreComps, LayoutOk
<1>3. n \in 1..n
  <2>1. Len(Rows) # 0
    BY <1>2, EmptyIsSeq, SeqSame DEF IsMono
  <2> QED  BY <1>2, <2>1
<1> HIDE DEF a, b
<1>4. comps' = [comps EXCEPT ![n] = d]
  <2>1. DOMAIN comps = 1..n
    BY <1>2, SeqShape
  <2> QED  BY <1>1, <1>3, <2>1
<1>5. d.size = c.size /\ d.alignment = c.alignment /\ d.offset = c.offset
  <2>1. c = [name |-> c.name, offset |-> c.offset, size |-> c.size,
             reserved |-> c.reserved, alignment |-> c.alignment, auth |-> c.auth,
             hash |-> c.hash, data |-> c.data, auth_data |-> c.auth_data]
    BY <1>2, <1>3 DEF IsComp
  <2> HIDE DEF c
  <2> QED  BY <2>1
<1> HIDE DEF d
<1>6. \A i \in 1..n : comps'[i] = IF i = n THEN d ELSE comps[i]
  <2>1. IsSeq(comps) /\ n \in 1..Len(comps)
    BY <1>2, <1>3
  <2>2. \A k \in 1..Len(comps) : [comps EXCEPT ![n] = d][k] = IF k = n THEN d ELSE comps[k]
    <3> HIDE DEF n
    <3> QED  BY <2>1, ExceptShape
  <2> QED  BY <1>4, <2>2
<1> QED  BY <1>5, <1>6

(* Every step keeps the places.                                            *)
LEMMA PlacesNext == IInv /\ PlacesInv /\ [Next]_containerVars => PlacesInv'
<1> SUFFICES ASSUME IInv, PlacesInv, [Next]_containerVars
             PROVE  PlacesInv'
  OBVIOUS
<1>1. ASSUME layout' = layout, alignment' = alignment, pc' \in {"build", "failed"}
      PROVE  PlacesInv'
  BY <1>1 DEF PlacesInv, GivenAlignment
<1>2. index - 1 \in Nat /\ (pc \in {"sign", "write", "written"} => index - 1 = Len(comps))
  <2>1. index \in Nat \ {0} /\ Len(comps) \in Nat
    BY SeqShape DEF IInv, TypeInv, LayoutOk, AreComps
  <2> QED  BY <2>1 DEF IInv, BuiltInv
<1>3. ASSUME pc \notin {"build", "failed"}, layout' = layout, alignment' = alignment,
             header_size' = header_size, index' = index, offset' = offset, comps' = comps
      PROVE  PlacesInv'
  BY <1>2, <1>3, PlacesUnmoved
<1>4. CASE BuildComponent
  BY <1>1, <1>4 DEF BuildComponent
<1>5. CASE BuildFails \/ DoesNotFit
  BY <1>1, <1>5 DEF BuildFails, DoesNotFit, Fail
<1>6. CASE Built
  <2>1. /\ pc' = "place" /\ index' = 1 /\ offset' = header_size /\ header_size' = header_size
        /\ layout' = layout /\ alignment' = alignment
    BY <1>6 DEF Built
  <2> DEFINE at == [k \in 0..0 |-> header_size]
  <2>2. at[0] = header_size
    OBVIOUS
  <2> HIDE DEF at
  <2>3. PlacedTo(IsMono', header_size', comps', 0, at)
    BY <2>1, <2>2 DEF PlacedTo
  <2>4. index' - 1 = 0 /\ alignment' = GivenAlignment(layout')
    BY <2>1 DEF PlacesInv, GivenAlignment
  <2> QED  BY <2>1, <2>2, <2>3, <2>4 DEF PlacesInv
<1>7. CASE PlaceComponent
  BY <1>7, OneMorePlace
<1>8. CASE Placed \/ WriteContainer
  BY <1>3, <1>8 DEF Placed, WriteContainer
<1>9. CASE SignAll
  <2>1. /\ pc = "sign" /\ layout' = layout /\ alignment' = alignment
        /\ header_size' = header_size /\ index' = index /\ offset' = offset
    BY <1>9 DEF SignAll
  <2>2. \A i \in 1..(index - 1) : /\ comps[i].size = comps'[i].size
                                  /\ comps[i].alignment = comps'[i].alignment
                                  /\ comps[i].offset = comps'[i].offset
    BY <1>2, <1>9, <2>1, SigningMovesNothing
  <2> QED  BY <1>2, <2>1, <2>2, PlacesUnmoved
<1>10. CASE \E name \in {Rows[i].name : i \in DOMAIN Rows}, f \in Contents,
               alg \in Algorithms, key \in Keys \cup {NoKey} : Replace(name, f, alg, key)
  BY <1>3, <1>10 DEF Replace
<1>11. CASE ExtractAndCreate
  <2> DEFINE l == ExtractedLayout(Parse(file))
  <2>1. StartCreate(l)
    BY <1>11 DEF ExtractAndCreate
  <2>2. /\ layout' = l /\ pc' = "build"
        /\ alignment' = IF l.header.alignment = 0 THEN DefaultAlignment ELSE l.header.alignment
    BY <2>1 DEF StartCreate
  <2> QED  BY <2>2 DEF PlacesInv, GivenAlignment
<1>12. CASE UNCHANGED containerVars
  <2>1. /\ pc' = pc /\ layout' = layout /\ alignment' = alignment /\ comps' = comps
        /\ header_size' = header_size /\ index' = index /\ offset' = offset
    BY <1>12 DEF containerVars
  <2> QED  BY <1>1, <1>3, <2>1
<1> QED  BY <1>4, <1>5, <1>6, <1>7, <1>8, <1>9, <1>10, <1>11, <1>12 DEF Next

RemadeInv ==
  pc = "written" /\ Premises => \A i \in 1..Len(header.comps) : Remade(header.comps[i])

(* What create compresses can be compressed again, and what it reserves is *)
(* for the signature over everything.                                      *)
LEMMA RowRemade ==
  ASSUME NEW r, RowOk(r), NEW c, Made(c, r)
  PROVE  /\ Remade(c)
         /\ c.reserved => c.name = Mono /\ r.name = Mono /\ r.content = <<>>
         /\ c.reserved \in BOOLEAN
<1> DEFINE content == IF r.content = <<>> THEN <<>> ELSE r.content[1]
           reserved == r.name = Mono /\ r.content = <<>>
<1>1. /\ Entry(r).reserved = reserved /\ Entry(r).name = r.name
      /\ Entry(r).data = LzFile(IF reserved THEN "Dummy" ELSE r.alg, content)
  BY DEF Entry
<1>2. /\ c.reserved = reserved /\ c.name = r.name
      /\ c.data = LzFile(IF reserved THEN "Dummy" ELSE r.alg, content)
  BY <1>1 DEF Made
<1>3. Fine(Deep, content)
  <2>1. Fine(Deep, <<>>)
    BY EmptyIsSeq, FineCells
  <2> QED  BY <2>1 DEF RowOk
<1>4. CASE reserved
  BY <1>2, <1>4 DEF Remade
<1>5. CASE ~reserved
  <2>1. Again(LzFile(r.alg, content))
    <3> HIDE DEF content
    <3> QED  BY <1>3, AgainLz
  <2> QED  BY <1>2, <1>5, <2>1 DEF Remade
<1> QED  BY <1>4, <1>5, <1>2

(* Only the last entry can be reserved, and then there is a signature over *)
(* everything.                                                             *)
LEMMA ReservedLast ==
  ASSUME IInv, pc = "written", NEW i \in 1..Len(comps), comps[i].reserved
  PROVE  IsMono
<1>1. /\ IsSeq(Rows) /\ Len(comps) = Len(Rows) /\ Len(Rows) \in Nat /\ LayoutOk
      /\ \A k \in 1..Len(comps) : ~RowFails(k) /\ Made(comps[k], Rows[k])
  BY SeqShape DEF IInv, TypeInv, BuiltInv, LayoutOk
<1>2. Rows[i].name = Mono /\ Rows[i].content = <<>>
  <2>1. RowOk(Rows[i])
    BY <1>1 DEF LayoutOk
  <2> QED  BY <1>1, <2>1, RowRemade
<1>3. i = Len(Rows)
  <2> SUFFICES ASSUME i # Len(Rows)
               PROVE  FALSE
    OBVIOUS
  <2>1. Len(Rows) \in 1..Len(comps) /\ i \in 1..(Len(Rows) - 1)
    BY <1>1
  <2>2. ~RowFails(Len(Rows))
    BY <1>1, <2>1
  <2> QED  BY <1>2, <2>1, <2>2 DEF RowFails
<1>4. Rows # <<>>
  BY <1>1, EmptyIsSeq
<1> QED  BY <1>2, <1>3, <1>4 DEF IsMono

(* A hash that is not of a key is of the data.                             *)
LEMMA HashNamesData ==
  ASSUME NEW f, NEW g, NEW auth, NEW k, NEW l, HashData(f, auth, k) = HashData(g, auth, l),
         ~IsRsa(auth), auth # "NONE"
  PROVE  f = g
<1> DEFINE x == <<"hash", auth, f>>
           y == <<"hash", auth, g>>
<1>1. HashData(f, auth, k) = Struct(x, HashSize) /\ HashData(g, auth, l) = Struct(y, HashSize)
  BY DEF HashData
<1>2. x[3] = f /\ y[3] = g
  OBVIOUS
<1> HIDE DEF x, y
<1>3. Struct(x, HashSize)[1] = x /\ Struct(y, HashSize)[1] = y
  BY Sizes, StructShape
<1>4. x = y
  BY <1>1, <1>3
<1> QED  BY <1>2, <1>4

(* What replace puts in can be compressed again too: it compressed it, or  *)
(* it was a component that has the hash of the old one.                    *)
LEMMA ReplaceRemakes ==
  ASSUME IInv, RemadeInv, Premises, NEW name, NEW f \in Contents, NEW alg, NEW key,
         Replace(name, f, alg, key)
  PROVE  \A k \in 1..Len(header'.comps) : Remade(header'.comps[k])
<1> DEFINE p == Parse(file)
<1>1. pc = "written" /\ ~p.mono
  BY DEF Replace
<1>2. PICK i \in DOMAIN p.comps :
        \E c \in NewComponents(p.comps[i], f, alg, key) : header' = PutComp(p, i, c)
  BY DEF Replace, PutComp
<1>3. PICK c \in NewComponents(p.comps[i], f, alg, key) : header' = PutComp(p, i, c)
  BY <1>2
<1>4. header'.comps = [p.comps EXCEPT ![i] = c]
  BY <1>3, PutCompShape
<1>5. /\ IsHeader(Deep, header) /\ Covers(header, file) /\ HeadRead(header, p)
      /\ p.comps = header.comps
  <2>1. Readable
    BY <1>1 DEF Premises, Readable
  <2> QED  BY <2>1, ReadableTidy
<1> DEFINE n == Len(header.comps)
           old == header.comps[i]
<1>6. /\ Len(comps) = n /\ ~header.mono /\ header.mono = IsMono
      /\ \A k \in 1..n : SameEntry(header.comps[k], comps[k]) /\ header.comps[k].auth = Rows[k].auth
  <2>1. header.mono = p.mono
    BY <1>5 DEF HeadRead
  <2>2. header.mono = Adjusted(comps).mono
    BY <1>1 DEF IInv, WrittenInv
  <2>3. Adjusted(comps).mono = IsMono
    BY DEF Adjusted
  <2> QED  BY <1>1, <2>1, <2>2, <2>3, WrittenEntries
<1>7. /\ IsSeq(header.comps) /\ n \in Nat /\ DOMAIN header.comps = 1..n
      /\ \A k \in 1..n : IsComp(Deep, header.comps[k])
  BY <1>5, SeqShape DEF IsHeader, AreComps
<1>8. i \in 1..n /\ c \in NewComponents(old, f, alg, key)
  BY <1>3, <1>5, <1>7
<1>9. /\ Len(header'.comps) = n
      /\ \A k \in 1..n : header'.comps[k] = IF k = i THEN c ELSE header.comps[k]
  <2> DEFINE s == header.comps
  <2>1. header'.comps = [s EXCEPT ![i] = c] /\ IsSeq(s) /\ i \in 1..Len(s)
    BY <1>4, <1>5, <1>7, <1>8
  <2> HIDE DEF s, n
  <2>2. /\ Len([s EXCEPT ![i] = c]) = Len(s)
        /\ \A k \in 1..Len(s) : [s EXCEPT ![i] = c][k] = IF k = i THEN c ELSE s[k]
    BY <2>1, ExceptShape
  <2> QED  BY <2>1, <2>2 DEF s, n
<1>10. \A k \in 1..n : Remade(header.comps[k])
  BY <1>1 DEF RemadeInv
<1>11. ~old.reserved
  <2>1. old.reserved = comps[i].reserved
    BY <1>6, <1>8 DEF SameEntry
  <2> QED  BY <1>1, <1>6, <1>8, <2>1, ReservedLast
<1>12. IsComp(Deep, old) /\ Fine(Deep, f)
  BY <1>7, <1>8, ContainerAssumption DEF IsFile, Fine
<1> DEFINE data == IF Prepared(f, old.auth) THEN Slice(f, 0, LzSize + CompressedLen(f))
                   ELSE LzFile(alg, f)
           sig == Signature(data, old.auth, key)
<1>13. /\ c = PutIn(old, data, sig) /\ HashData(data, old.auth, key) = old.hash
       /\ Prepared(f, old.auth) => old.auth = "SHA2_384"
  BY <1>8 DEF NewComponents, PutIn
<1>14. c.data = data /\ c.reserved = old.reserved
  <2>1. c.data = data
    <3>1. old = [name |-> old.name, offset |-> old.offset, size |-> old.size,
             reserved |-> old.reserved, alignment |-> old.alignment, auth |-> old.auth,
             hash |-> old.hash, data |-> old.data, auth_data |-> old.auth_data]
      BY <1>12 DEF IsComp
    <3> HIDE DEF old, data, sig
    <3> QED  BY <1>13, <3>1 DEF PutIn
  <2>2. SameEntry(c, old)
    <3> HIDE DEF old
    <3> QED  BY <1>8, <1>12, NewComponent
  <2> QED  BY <2>1, <2>2 DEF SameEntry
<1>15. Again(data)
  <2>1. CASE Prepared(f, old.auth)
    <3>1. old.auth = "SHA2_384" /\ Rows[i].auth = old.auth
      BY <1>6, <1>8, <1>13, <2>1
    <3>2. old.hash = HashData(old.data, old.auth, Rows[i].key)
      <4>1. old.hash = HashData(CoveredOf(header, file, i), Rows[i].auth, Rows[i].key)
        BY <1>5, <1>8 DEF Covers
      <4>2. CoveredOf(header, file, i) = old.data
        BY <1>6 DEF CoveredOf
      <4> QED  BY <3>1, <4>1, <4>2
    <3>3. ~IsRsa(old.auth) /\ old.auth # "NONE"
      BY <3>1 DEF IsRsa
    <3> HIDE DEF old, data
    <3>4. HashData(data, old.auth, key) = HashData(old.data, old.auth, Rows[i].key)
      BY <1>13, <3>2
    <3>5. data = old.data
      BY <3>3, <3>4, HashNamesData
    <3>6. Remade(old)
      BY <1>8, <1>10 DEF old
    <3> QED  BY <1>11, <3>5, <3>6 DEF Remade
  <2>2. CASE ~Prepared(f, old.auth)
    <3>1. data = LzFile(alg, f)
      BY <2>2
    <3> HIDE DEF data
    <3> QED  BY <1>12, <3>1, AgainLz
  <2> QED  BY <2>1, <2>2
<1> HIDE DEF data, old, n
<1>16. Remade(c)
  BY <1>11, <1>14, <1>15 DEF Remade
<1> QED  BY <1>9, <1>10, <1>16

(* Every step keeps that.                                                  *)
LEMMA RemadeNext == IInv /\ RemadeInv /\ [Next]_containerVars => RemadeInv'
<1> SUFFICES ASSUME IInv, RemadeInv, [Next]_containerVars, pc' = "written", Premises'
             PROVE  (\A i \in 1..Len(header.comps) : Remade(header.comps[i]))'
  BY DEF RemadeInv
<1>1. ASSUME layout' = layout, alignment' = alignment, header_size' = header_size, comps' = comps
      PROVE  Premises
  <2>1. Rows' = Rows
    BY <1>1 DEF Rows
  <2> QED  BY <1>1, <2>1 DEF Premises, Sane, Padded
<1>2. CASE WriteContainer
  <2>1. pc = "write" /\ header' = Adjusted(comps)
    BY <1>2 DEF WriteContainer
  <2>2. /\ AreComps(Deep, comps) /\ LayoutOk /\ alignment \in Nat \ {0} /\ header_size \in Nat
        /\ Len(comps) = Len(Rows)
        /\ \A i \in 1..Len(comps) : Made(comps[i], Rows[i])
    BY <2>1, EntriesMade
  <2>3. Adjusted(comps).comps = comps
    BY <2>2, AdjustedShape
  <2>4. \A i \in 1..Len(comps) : Remade(comps[i])
    BY <2>2, RowRemade DEF LayoutOk
  <2> QED  BY <2>1, <2>3, <2>4
<1>3. CASE \E name \in {Rows[i].name : i \in DOMAIN Rows}, f \in Contents,
              alg \in Algorithms, key \in Keys \cup {NoKey} : Replace(name, f, alg, key)
  <2>1. PICK name \in {Rows[i].name : i \in DOMAIN Rows}, f \in Contents,
             alg \in Algorithms, key \in Keys \cup {NoKey} : Replace(name, f, alg, key)
    BY <1>3
  <2>2. Premises
    BY <1>1, <2>1 DEF Replace
  <2> QED  BY <2>1, <2>2, ReplaceRemakes
<1>4. CASE UNCHANGED containerVars
  <2>1. /\ pc = "written" /\ header' = header /\ layout' = layout /\ alignment' = alignment
        /\ header_size' = header_size /\ comps' = comps
    BY <1>4 DEF containerVars
  <2> QED  BY <1>1, <2>1 DEF RemadeInv
<1>5. CASE \/ BuildComponent \/ BuildFails \/ Built \/ PlaceComponent \/ Placed \/ SignAll
           \/ DoesNotFit \/ ExtractAndCreate
  BY <1>5 DEF BuildComponent, BuildFails, Built, PlaceComponent, Placed, SignAll, DoesNotFit,
              ExtractAndCreate, StartCreate, Fail
<1> QED  BY <1>2, <1>3, <1>4, <1>5 DEF Next

-----------------------------------------------------------------------------
(* The header that is written has the shape.                               *)

(* The key that the type of the header names is the key of the layout.     *)
LEMMA HeaderKeyed ==
  ASSUME LayoutOk, ~HeaderFails, NEW f
  PROVE  Signature(f, HeaderAuth, layout.header.key) = Signature(f, HeaderAuth, KeyFor(HeaderAuth))
<1> DEFINE key == layout.header.key
<1>1. key \in Keys \cup {NoKey} /\ IsRsa(layout.header.auth) = (key # NoKey)
  BY DEF LayoutOk, HeaderFails, IsRsa
<1>2. CASE key = NoKey
  <2>1. HeaderAuth = layout.header.auth /\ ~IsRsa(layout.header.auth)
    BY <1>1, <1>2 DEF HeaderAuth
  <2> QED  BY <2>1 DEF Signature
<1>3. CASE key # NoKey
  <2>1. HeaderAuth = KeyType(key)
    BY <1>3 DEF HeaderAuth
  <2>2. KeyFor(KeyType(key)) = key
    BY <1>1, <1>3 DEF KeyFor, KeyType, Keys
  <2> QED  BY <2>1, <2>2
<1> QED  BY <1>2, <1>3

(* What is settled is in the entries.                                      *)
LEMMA ShapedKept ==
  ASSUME NEW g, NEW h, NEW a, Shaped(g, a), IsSeq(g.comps), IsSeq(h.comps),
         Len(g.comps) = Len(h.comps), g.auth = h.auth, g.mono = h.mono,
         g.data_offset = h.data_offset, g.data_size = h.data_size,
         g.auth_data = h.auth_data,
         \A i \in 1..Len(h.comps) : SameEntry(g.comps[i], h.comps[i])
  PROVE  Shaped(h, a) /\ HeaderEnd(h) = HeaderEnd(g)
<1> DEFINE n == Len(h.comps)
<1>1. HeaderCells(g) = HeaderCells(h) /\ Entries(g.comps) = Entries(h.comps)
  BY HeadSame
<1>2. HeaderEnd(h) = HeaderEnd(g)
  BY <1>1 DEF HeaderEnd
<1>3. n \in Nat
  BY SeqShape
<1>4. /\ g.mono = (n # 0 /\ g.comps[n].name = Mono)
      /\ g.data_offset = AlignUp(HeaderEnd(g), a) % OffsetLimit
      /\ g.data_size = IF n = 0 THEN 0 ELSE AlignUp(g.comps[n].offset + g.comps[n].size, a)
      /\ g.auth_data = Signature(HeaderCells(g), g.auth, KeyFor(g.auth))
  BY DEF Shaped
<1>5. PICK at : PlacedTo(g.mono, HeaderEnd(g), g.comps, n, at)
  BY DEF Shaped
<1>6. PlacedTo(g.mono, HeaderEnd(g), h.comps, n, at)
  <2> DEFINE cs == g.comps
             ds == h.comps
             mono == g.mono
             first == HeaderEnd(g)
  <2>1. \A i \in 1..n : /\ cs[i].size = ds[i].size /\ cs[i].alignment = ds[i].alignment
                        /\ cs[i].offset = ds[i].offset
    BY DEF SameEntry
  <2>2. PlacedTo(mono, first, cs, n, at)
    BY <1>5
  <2> HIDE DEF cs, ds, mono, first, n
  <2>3. PlacedTo(mono, first, ds, n, at)
    BY <1>3, <2>1, <2>2, PlacesKept
  <2> QED  BY <2>3 DEF ds, mono, first
<1>7. n # 0 => /\ g.comps[n].name = h.comps[n].name /\ g.comps[n].offset = h.comps[n].offset
               /\ g.comps[n].size = h.comps[n].size
  <2>1. n # 0 => n \in 1..n
    BY <1>3
  <2> QED  BY <2>1 DEF SameEntry
<1>8. PlacedTo(h.mono, HeaderEnd(h), h.comps, n, at)
  BY <1>2, <1>6
<1>9. /\ h.mono = (n # 0 /\ h.comps[n].name = Mono)
      /\ h.data_offset = AlignUp(HeaderEnd(h), a) % OffsetLimit
      /\ h.data_size = IF n = 0 THEN 0 ELSE AlignUp(h.comps[n].offset + h.comps[n].size, a)
      /\ h.auth_data = Signature(HeaderCells(h), h.auth, KeyFor(h.auth))
  BY <1>1, <1>2, <1>4, <1>7
<1> QED  BY <1>2, <1>8, <1>9 DEF Shaped

(* adjust_header gives the shape.                                          *)
LEMMA AdjustedShaped ==
  ASSUME IInv, PlacesInv, pc \in {"write", "written"}
  PROVE  /\ Shaped(Adjusted(comps), alignment) /\ HeaderEnd(Adjusted(comps)) = header_size
         /\ Adjusted(comps).comps = comps /\ Adjusted(comps).auth = HeaderAuth
         /\ IsHeader(Deep, Adjusted(comps)) /\ IsSeq(comps) /\ Len(comps) = Len(Rows)
         /\ Len(comps) \in Nat
<1> DEFINE h == Adjusted(comps)
           n == Len(comps)
<1>1. /\ AreComps(Deep, comps) /\ LayoutOk /\ alignment \in Nat \ {0} /\ header_size \in Nat
      /\ IsSeq(comps) /\ n \in Nat /\ IsSeq(Rows)
  BY SeqShape DEF IInv, TypeInv, AreComps, LayoutOk
<1>2. /\ index = n + 1 /\ n = Len(Rows) /\ ~HeaderFails
      /\ header_size = HdrSize + AuthSize(HeaderAuth) + Len(Entries(comps))
      /\ \A i \in 1..n : Made(comps[i], Rows[i])
  BY DEF IInv, BuiltInv
<1>3. /\ h.comps = comps /\ h.auth = HeaderAuth /\ h.mono = IsMono
      /\ h.data_offset = AlignUp(header_size, alignment) % OffsetLimit
      /\ h.data_size = IF comps = <<>> THEN 0
                       ELSE AlignUp(comps[n].offset + comps[n].size, alignment)
      /\ h.auth_data = Signature(HeaderCells(h), HeaderAuth, layout.header.key)
      /\ IsHeader(Deep, h)
  BY <1>1, <1>2, AdjustedShape
<1> HIDE DEF h
<1>4. HeaderEnd(h) = header_size
  BY <1>2, <1>3 DEF HeaderEnd
<1>5. h.auth_data = Signature(HeaderCells(h), h.auth, KeyFor(h.auth))
  BY <1>1, <1>2, <1>3, HeaderKeyed
<1>6. (comps = <<>> <=> n = 0) /\ (Rows = <<>> <=> n = 0)
  BY <1>1, <1>2, EmptyIsSeq, SeqSame
<1>7. h.mono = (n # 0 /\ comps[n].name = Mono)
  <2>1. n # 0 => comps[n].name = Rows[n].name
    <3> SUFFICES ASSUME n # 0
                 PROVE  comps[n].name = Rows[n].name
      OBVIOUS
    <3>1. n \in 1..n
      BY <1>1
    <3>2. RowOk(Rows[n]) /\ Made(comps[n], Rows[n])
      BY <1>1, <1>2, <3>1 DEF LayoutOk
    <3>3. Entry(Rows[n]).name = Rows[n].name
      BY <1>1, <3>2, EntryShapes
    <3> QED  BY <3>2, <3>3 DEF Made
  <2> QED  BY <1>2, <1>3, <1>6, <2>1 DEF IsMono
<1>8. \E at : PlacedTo(h.mono, HeaderEnd(h), h.comps, n, at)
  <2>1. index - 1 = n
    BY <1>1, <1>2
  <2> QED  BY <1>3, <1>4, <2>1 DEF PlacesInv
<1>9. Shaped(h, alignment)
  BY <1>3, <1>4, <1>5, <1>6, <1>7, <1>8 DEF Shaped
<1> QED  BY <1>1, <1>2, <1>3, <1>4, <1>9 DEF h

-----------------------------------------------------------------------------
(* What the extracted container was.                                       *)

(* The premises under which RebuiltSame speaks about it.                   *)
FirstPremises(l, g) ==
  LET a == GivenAlignment(l)
  IN  /\ KeysMatch(l.rows) /\ AlignUp(HeaderEnd(g), a) < OffsetLimit /\ a % Pad = 0
      /\ \A i \in 1..Len(g.comps) : g.comps[i].alignment % Pad = 0

(* g is a container made with the layout l, with components replaced.      *)
Original(l, g) ==
  /\ IsHeader(TRUE, g) /\ FitsRegions(g) /\ Shaped(g, GivenAlignment(l))
  /\ IsSeq(l.rows) /\ Len(g.comps) = Len(l.rows)
  /\ \A i \in 1..Len(g.comps) :
       /\ g.comps[i].alignment = IF l.rows[i].alignment = 0 THEN GivenAlignment(l)
                                 ELSE l.rows[i].alignment
       /\ g.comps[i].reserved \in BOOLEAN
       /\ g.comps[i].reserved => g.comps[i].name = Mono
  /\ FirstPremises(l, g) =>
       /\ Tidy(g) /\ SignedFor(g)
       /\ \A i \in 1..Len(g.comps) : Remade(g.comps[i])

OriginInv ==
  origin # <<>> =>
    \E g : /\ Original(origin[1], g) /\ origin[2] = GetData(g)
           /\ layout = ExtractedLayout(Parse(GetData(g)))

(* Hashes and signatures of the rows are with the keys of their types.     *)
LEMMA CoversSigned ==
  ASSUME NEW h, Covers(h, GetData(h)), KeysMatch(Rows), IsSeq(Rows),
         Len(h.comps) = Len(Rows),
         \A i \in 1..Len(Rows) : /\ RowOk(Rows[i]) /\ ~RowFails(i)
                                 /\ h.comps[i].auth = Rows[i].auth
  PROVE  SignedFor(h)
<1> SUFFICES ASSUME NEW i \in 1..Len(h.comps)
             PROVE  LET c == h.comps[i]
                        f == CoveredOf(h, GetData(h), i)
                    IN  /\ c.hash = HashData(f, c.auth, KeyFor(c.auth))
                        /\ c.auth_data = Signature(f, c.auth, KeyFor(c.auth))
  BY DEF SignedFor
<1> DEFINE f == CoveredOf(h, GetData(h), i)
           auth == Rows[i].auth
           key == Rows[i].key
<1>1. /\ h.comps[i].hash = HashData(f, auth, key)
      /\ h.comps[i].auth_data = Signature(f, auth, key)
  BY DEF Covers
<1>2. i \in DOMAIN Rows
  BY SeqShape
<1>3. key \in Keys \cup {NoKey}
  BY DEF RowOk
<1>4. IsRsa(auth) => key # NoKey /\ KeyType(key) = auth
  BY <1>2 DEF RowFails, KeysMatch
<1>5. h.comps[i].auth = auth
  OBVIOUS
<1> HIDE DEF f, auth, key
<1>6. /\ HashData(f, auth, key) = HashData(f, auth, KeyFor(auth))
      /\ Signature(f, auth, key) = Signature(f, auth, KeyFor(auth))
  BY <1>3, <1>4, KeyedFor
<1> QED  BY <1>1, <1>5, <1>6 DEF f

(* A finished container that was not extracted yet is an original.         *)
LEMMA WrittenOriginal ==
  ASSUME IInv, PlacesInv, RemadeInv, pc = "written", Deep
  PROVE  Original(layout, header) /\ file = GetData(header)
<1> DEFINE n == Len(comps)
           a == Adjusted(comps)
<1>1. /\ IsHeader(TRUE, header) /\ file = GetData(header) /\ IsSeq(Rows)
      /\ IsSeq(comps) /\ n \in Nat /\ n = Len(Rows) /\ Len(header.comps) = n
      /\ alignment \in Nat \ {0}
      /\ \A i \in 1..n : SameEntry(header.comps[i], comps[i]) /\ header.comps[i].auth = Rows[i].auth
  <2>1. Deep = TRUE
    BY DEF Deep
  <2> QED  BY <2>1, WrittenEntries
<1>2. /\ Shaped(a, alignment) /\ HeaderEnd(a) = header_size /\ a.comps = comps
  BY AdjustedShaped
<1>3. /\ FitsRegions(header)
      /\ header.auth = a.auth /\ header.mono = a.mono
      /\ header.data_offset = a.data_offset /\ header.data_size = a.data_size
      /\ header.auth_data = a.auth_data
      /\ Premises => Tidy(header) /\ Covers(header, file)
  BY DEF IInv, WrittenInv
<1> HIDE DEF a
<1>4. Shaped(header, alignment) /\ HeaderEnd(header) = header_size
  <2>1. IsSeq(header.comps) /\ IsSeq(a.comps)
    BY <1>1, <1>2 DEF IsHeader, AreComps
  <2>2. \A i \in 1..Len(header.comps) : SameEntry(a.comps[i], header.comps[i])
    BY <1>1, <1>2 DEF SameEntry
  <2> QED  BY <1>1, <1>2, <1>3, <2>1, <2>2, ShapedKept
<1>5. alignment = GivenAlignment(layout) /\ Rows = layout.rows
  BY DEF PlacesInv, Rows
<1>6. \A i \in 1..n : RowOk(Rows[i]) /\ ~RowFails(i) /\ Made(comps[i], Rows[i])
  BY <1>1 DEF IInv, TypeInv, LayoutOk, BuiltInv
<1>7. ASSUME NEW i \in 1..n
      PROVE  /\ header.comps[i].alignment = IF Rows[i].alignment = 0 THEN alignment
                                            ELSE Rows[i].alignment
             /\ header.comps[i].reserved \in BOOLEAN
             /\ header.comps[i].reserved => header.comps[i].name = Mono
             /\ header.comps[i].alignment = comps[i].alignment
  <2>1. RowOk(Rows[i]) /\ Made(comps[i], Rows[i]) /\ SameEntry(header.comps[i], comps[i])
    BY <1>1, <1>6
  <2>2. Entry(Rows[i]).alignment = RowAlignment(Rows[i])
    BY <1>1, <2>1, EntryShapes
  <2>3. comps[i].reserved \in BOOLEAN /\ (comps[i].reserved => comps[i].name = Mono)
    BY <2>1, RowRemade
  <2> QED  BY <2>1, <2>2, <2>3 DEF Made, SameEntry, RowAlignment
<1>8. ASSUME FirstPremises(layout, header)
      PROVE  /\ Tidy(header) /\ SignedFor(header)
             /\ \A i \in 1..n : Remade(header.comps[i])
  <2>1. Sane /\ KeysMatch(Rows)
    BY <1>4, <1>5, <1>8 DEF FirstPremises, Sane
  <2>2. Padded
    <3>1. DOMAIN comps = 1..n
      BY <1>1, SeqShape
    <3>2. \A i \in 1..n : comps[i].alignment % Pad = 0
      BY <1>1, <1>7, <1>8 DEF FirstPremises
    <3> QED  BY <1>5, <1>8, <3>1, <3>2 DEF FirstPremises, Padded
  <2>3. Premises
    BY <2>1, <2>2 DEF Premises
  <2>4. SignedFor(header)
    BY <1>1, <1>3, <1>6, <2>1, <2>3, CoversSigned
  <2> QED  BY <1>1, <1>3, <2>3, <2>4 DEF RemadeInv
<1> QED  BY <1>1, <1>3, <1>4, <1>5, <1>7, <1>8 DEF Original

(* extract keeps what it has extracted.                                    *)
LEMMA OriginNext ==
  IInv /\ PlacesInv /\ RemadeInv /\ OriginInv /\ [Next]_containerVars => OriginInv'
<1> SUFFICES ASSUME IInv, PlacesInv, RemadeInv, OriginInv, [Next]_containerVars
             PROVE  OriginInv'
  OBVIOUS
<1>1. CASE ExtractAndCreate
  <2>1. /\ pc = "written" /\ origin = <<>> /\ origin' = <<layout, file>>
        /\ StartCreate(ExtractedLayout(Parse(file)))
    BY <1>1 DEF ExtractAndCreate
  <2>2. Original(layout, header) /\ file = GetData(header)
    BY <2>1, WrittenOriginal DEF Deep
  <2>3. origin'[1] = layout /\ origin'[2] = file
    BY <2>1
  <2>4. layout' = ExtractedLayout(Parse(file))
    BY <2>1 DEF StartCreate
  <2> QED  BY <2>2, <2>3, <2>4 DEF OriginInv
<1>2. CASE ~ExtractAndCreate
  <2>1. layout' = layout /\ origin' = origin
    BY <1>2 DEF Next, containerVars, BuildComponent, BuildFails, Built, PlaceComponent, Placed,
                SignAll, WriteContainer, DoesNotFit, Replace, Fail
  <2> QED  BY <2>1 DEF OriginInv
<1> QED  BY <1>1, <1>2

-----------------------------------------------------------------------------
(* The container from the extracted layout.                                *)

(* What can be read in depth can be read.                                  *)
LEMMA Shallow ==
  ASSUME NEW h, IsHeader(TRUE, h)
  PROVE  IsHeader(FALSE, h)
<1>1. \A f : Fine(TRUE, f) => Fine(FALSE, f)
  BY DEF Fine
<1>2. \A c : IsComp(TRUE, c) => IsComp(FALSE, c)
  BY <1>1 DEF IsComp
<1> QED  BY <1>1, <1>2 DEF IsHeader, AreComps

(* A component that fits its region has one.                               *)
LEMMA RegionNotEmpty ==
  ASSUME NEW deep, NEW c, IsComp(deep, c), Whole(c.data), Len(Body(c)) <= c.size
  PROVE  c.size # 0
<1>1. Fine(deep, c.data) /\ Fine(deep, c.auth_data) /\ c.size \in Nat
  BY DEF IsComp
<1>2. /\ Len(c.data) \in Nat /\ AlignUp(Len(c.data), Pad) \in Nat
      /\ Len(c.data) <= AlignUp(Len(c.data), Pad)
      /\ Len(Body(c)) = AlignUp(Len(c.data), Pad) + Len(c.auth_data)
  BY <1>1, BodyShape
<1>3. Len(c.auth_data) \in Nat /\ LzSize \in Nat \ {0} /\ Len(c.data) >= LzSize
  BY <1>1, FineShape, Sizes DEF Whole, IsLz
<1> QED  BY <1>1, <1>2, <1>3

(* The key a type names is of that type.                                   *)
LEMMA KeyForType ==
  ASSUME NEW auth
  PROVE  /\ KeyFor(auth) # NoKey => KeyType(KeyFor(auth)) = auth
         /\ IsRsa(auth) => KeyFor(auth) # NoKey
BY DEF KeyFor, KeyType, NoKey, IsRsa

(* create makes of the row that extract has written the component that it  *)
(* was written for, at a place and with a hash yet to be found.            *)
LEMMA RowAgain ==
  ASSUME NEW deep, NEW c, IsComp(deep, c), c.size # 0, Remade(c), c.reserved => c.name = Mono,
         c.reserved \in BOOLEAN, NEW d, Made(d, ExtractedRow(c))
  PROVE  Alike(c, d)
<1> DEFINE r == ExtractedRow(c)
<1>1. /\ r.name = c.name /\ r.auth = c.auth /\ r.alignment = c.alignment /\ r.size = c.size
      /\ r.alg = c.data[1][2]
      /\ r.content = IF c.reserved THEN <<>> ELSE <<Decompress(c.data)>>
  BY DEF ExtractedRow
<1>2. Made(d, r)
  OBVIOUS
<1> HIDE DEF r
<1>3. /\ Entry(r).name = r.name /\ Entry(r).auth = r.auth
      /\ Entry(r).alignment = RowAlignment(r)
      /\ r.size # 0 => Entry(r).size = r.size
      /\ Entry(r).reserved = (r.name = Mono /\ r.content = <<>>)
      /\ Entry(r).data = LzFile(IF r.name = Mono /\ r.content = <<>> THEN "Dummy" ELSE r.alg,
                                IF r.content = <<>> THEN <<>> ELSE r.content[1])
  BY DEF Entry
<1>4. RowAlignment(r) = c.alignment
  BY <1>1 DEF RowAlignment, IsComp
<1>5. CASE c.reserved
  <2>1. r.content = <<>> /\ r.name = Mono
    BY <1>1, <1>5
  <2>2. c.data = LzFile("Dummy", <<>>)
    BY <1>5 DEF Remade
  <2>3. Entry(r).reserved = TRUE /\ Entry(r).data = LzFile("Dummy", <<>>)
    BY <1>3, <2>1
  <2> QED  BY <1>1, <1>2, <1>3, <1>4, <1>5, <2>2, <2>3 DEF Made, Alike
<1>6. CASE ~c.reserved
  <2>1. r.content = <<Decompress(c.data)>>
    BY <1>1, <1>6
  <2>2. r.content # <<>> /\ r.content[1] = Decompress(c.data)
    BY <2>1
  <2>3. c.data = LzFile(r.alg, r.content[1])
    BY <1>1, <1>6, <2>2 DEF Remade, Again
  <2>4. Entry(r).reserved = FALSE /\ Entry(r).data = LzFile(r.alg, r.content[1])
    BY <1>3, <2>2
  <2> QED  BY <1>1, <1>2, <1>3, <1>4, <1>6, <2>3, <2>4 DEF Made, Alike
<1> QED  BY <1>5, <1>6

(* What create reads of the layout that extract has written.               *)
LayoutRead(g) ==
  /\ IsSeq(Rows) /\ Len(Rows) = Len(g.comps) /\ HeaderAuth = g.auth
  /\ layout.header.alignment = IF Len(g.comps) = 0 THEN DefaultAlignment
                               ELSE g.comps[1].alignment
  /\ \A i \in 1..Len(g.comps) :
       /\ Rows[i].name = g.comps[i].name /\ Rows[i].auth = g.comps[i].auth
       /\ Rows[i].key = KeyFor(g.comps[i].auth)
       /\ Rows[i].alignment = g.comps[i].alignment
  /\ Tidy(g) => \A i \in 1..Len(g.comps) : Rows[i] = ExtractedRow(g.comps[i])

(* All of it is in the file: Parse gives it back.                          *)
LEMMA ReadsLayout ==
  ASSUME NEW g, IsHeader(TRUE, g), layout = ExtractedLayout(Parse(GetData(g)))
  PROVE  LayoutRead(g)
<1> DEFINE p == Parse(GetData(g))
           n == Len(g.comps)
<1>1. HeadRead(g, p) /\ (Tidy(g) => p.comps = g.comps)
  BY ReadBack, ReadAll
<1>2. /\ layout.header.auth = p.auth /\ layout.header.key = KeyFor(p.auth)
      /\ layout.header.alignment = p.alignment
      /\ Rows = [i \in DOMAIN p.comps |-> ExtractedRow(p.comps[i])]
  BY DEF ExtractedLayout, Rows
<1> HIDE DEF p
<1>3. /\ p.auth = g.auth /\ IsSeq(p.comps) /\ Len(p.comps) = n
      /\ p.alignment = IF n = 0 THEN DefaultAlignment ELSE g.comps[1].alignment
      /\ \A i \in 1..n : SameEntry(p.comps[i], g.comps[i])
  BY <1>1 DEF HeadRead
<1>4. n \in Nat /\ DOMAIN p.comps = 1..n
  BY <1>3, SeqShape
<1>5. \A i \in 1..n : Rows[i] = ExtractedRow(p.comps[i])
  BY <1>2, <1>4
<1>6. IsSeq(Rows) /\ Len(Rows) = n
  <2>1. Rows = [i \in 1..n |-> Rows[i]]
    BY <1>2, <1>4
  <2> QED  BY <1>4, <2>1, ShapeSeq
<1>7. HeaderAuth = g.auth
  <2>1. HeaderAuth = IF KeyFor(g.auth) = NoKey THEN g.auth ELSE KeyType(KeyFor(g.auth))
    BY <1>2, <1>3 DEF HeaderAuth
  <2> QED  BY <2>1, KeyForType
<1>8. ASSUME NEW i \in 1..n
      PROVE  /\ Rows[i].name = g.comps[i].name /\ Rows[i].auth = g.comps[i].auth
             /\ Rows[i].key = KeyFor(g.comps[i].auth)
             /\ Rows[i].alignment = g.comps[i].alignment
  <2> DEFINE c == p.comps[i]
  <2>1. Rows[i] = ExtractedRow(c)
    BY <1>5
  <2>2. SameEntry(c, g.comps[i])
    BY <1>3
  <2> HIDE DEF c
  <2>3. /\ ExtractedRow(c).name = c.name /\ ExtractedRow(c).auth = c.auth
        /\ ExtractedRow(c).key = KeyFor(c.auth)
        /\ ExtractedRow(c).alignment = c.alignment
    BY Zenon DEF ExtractedRow
  <2> QED  BY <2>1, <2>2, <2>3 DEF SameEntry
<1>9. Tidy(g) => \A i \in 1..n : Rows[i] = ExtractedRow(g.comps[i])
  BY <1>1, <1>5
<1> QED  BY <1>2, <1>3, <1>6, <1>7, <1>8, <1>9 DEF LayoutRead

(* The alignment of the header is found again if it is that of the first   *)
(* component.                                                              *)
LEMMA AlignmentFound ==
  ASSUME PlacesInv, NEW l, NEW g, Original(l, g), LayoutRead(g), l.rows # <<>>,
         l.rows[1].alignment \in {0, l.header.alignment}
  PROVE  alignment = GivenAlignment(l)
<1>1. /\ Len(g.comps) = Len(l.rows) /\ IsSeq(l.rows) /\ IsHeader(TRUE, g)
      /\ \A i \in 1..Len(g.comps) :
           g.comps[i].alignment = IF l.rows[i].alignment = 0 THEN GivenAlignment(l)
                                  ELSE l.rows[i].alignment
  BY DEF Original
<1>2. 1 \in 1..Len(g.comps) /\ Len(g.comps) # 0
  <2>1. Len(l.rows) \in Nat /\ Len(l.rows) # 0
    BY <1>1, SeqShape, EmptyIsSeq, SeqSame
  <2> QED  BY <1>1, <2>1
<1>3. g.comps[1].alignment \in Nat \ {0}
  BY <1>1, <1>2 DEF IsHeader, AreComps, IsComp
<1>4. g.comps[1].alignment = GivenAlignment(l)
  BY <1>1, <1>2 DEF GivenAlignment
<1>5. layout.header.alignment = g.comps[1].alignment
  BY <1>2 DEF LayoutRead
<1>6. alignment = IF layout.header.alignment = 0 THEN DefaultAlignment
                  ELSE layout.header.alignment
  BY DEF PlacesInv, GivenAlignment
<1> QED  BY <1>3, <1>4, <1>5, <1>6

(* create gives the extracted container.                                   *)
LEMMA MadeAgain ==
  ASSUME IInv, PlacesInv, OriginInv, pc = "write", FitsRegions(Adjusted(comps)),
         origin # <<>>, Sane, Padded, origin[1].rows # <<>>, KeysMatch(origin[1].rows),
         origin[1].rows[1].alignment \in {0, origin[1].header.alignment}
  PROVE  GetData(Adjusted(comps)) = origin[2]
<1> DEFINE l == origin[1]
           h == Adjusted(comps)
<1>1. PICK g : /\ Original(l, g) /\ origin[2] = GetData(g)
               /\ layout = ExtractedLayout(Parse(GetData(g)))
  BY DEF OriginInv
<1> DEFINE n == Len(g.comps)
<1>2. IsHeader(TRUE, g) /\ IsHeader(FALSE, g)
  BY <1>1, Shallow DEF Original
<1>3. LayoutRead(g)
  BY <1>1, <1>2, ReadsLayout
<1>4. alignment = GivenAlignment(l)
  BY <1>1, <1>3, AlignmentFound
<1>5. /\ Shaped(h, alignment) /\ HeaderEnd(h) = header_size /\ h.comps = comps
      /\ h.auth = HeaderAuth /\ IsHeader(FALSE, h) /\ IsSeq(comps)
      /\ Len(comps) = n /\ n \in Nat /\ Len(Rows) = n /\ IsSeq(Rows)
  <2>1. Deep = FALSE
    BY DEF Deep
  <2> QED  BY <1>3, <2>1, AdjustedShaped DEF LayoutRead
<1>6. \A i \in 1..n : /\ RowOk(Rows[i]) /\ ~RowFails(i) /\ Made(comps[i], Rows[i])
                      /\ comps[i].auth = Rows[i].auth
                      /\ Entry(Rows[i]).alignment = RowAlignment(Rows[i])
  <2>1. LayoutOk /\ alignment \in Nat \ {0} /\ BuiltInv
    BY DEF IInv, TypeInv
  <2>2. \A i \in 1..n : RowOk(Rows[i]) /\ ~RowFails(i) /\ Made(comps[i], Rows[i])
    BY <1>5, <2>1 DEF LayoutOk, BuiltInv
  <2>3. \A i \in 1..n : Entry(Rows[i]).alignment = RowAlignment(Rows[i])
    BY <2>1, <2>2, EntryShapes
  <2> QED  BY <1>5, <2>2, <2>3, EntriesMade
<1> HIDE DEF h, l
<1>7. g.auth = h.auth /\ Len(g.comps) = Len(h.comps)
  BY <1>3, <1>5 DEF LayoutRead
<1>8. \A i \in 1..n : /\ g.comps[i].auth = comps[i].auth
                      /\ g.comps[i].alignment = comps[i].alignment
  <2> SUFFICES ASSUME NEW i \in 1..n
               PROVE  /\ g.comps[i].auth = comps[i].auth
                      /\ g.comps[i].alignment = comps[i].alignment
    OBVIOUS
  <2>1. Rows[i].auth = g.comps[i].auth /\ Rows[i].alignment = g.comps[i].alignment
    BY <1>3 DEF LayoutRead
  <2>2. g.comps[i].alignment # 0
    BY <1>2 DEF IsHeader, AreComps, IsComp
  <2>3. comps[i].alignment = RowAlignment(Rows[i]) /\ comps[i].auth = Rows[i].auth
    BY <1>6 DEF Made
  <2> QED  BY <2>1, <2>2, <2>3 DEF RowAlignment
<1>9. HeaderEnd(g) = header_size
  <2>1. \A i \in 1..Len(h.comps) : g.comps[i].auth = h.comps[i].auth
    BY <1>5, <1>8
  <2> QED  BY <1>2, <1>5, <1>7, <2>1, EndsSame
<1>10. FirstPremises(l, g)
  <2>1. alignment % Pad = 0 /\ \A i \in 1..n : comps[i].alignment % Pad = 0
    BY <1>5, SeqShape DEF Padded
  <2> QED  BY <1>4, <1>8, <1>9, <2>1 DEF FirstPremises, Sane, l
<1>11. /\ Tidy(g) /\ SignedFor(g) /\ FitsRegions(g) /\ Shaped(g, alignment)
       /\ \A i \in 1..n : Remade(g.comps[i]) /\ g.comps[i].reserved \in BOOLEAN
       /\ \A i \in 1..n : g.comps[i].reserved => g.comps[i].name = Mono
  BY <1>1, <1>4, <1>10 DEF Original
<1>12. \A i \in 1..Len(h.comps) : Alike(g.comps[i], h.comps[i])
  <2> SUFFICES ASSUME NEW i \in 1..n
               PROVE  Alike(g.comps[i], comps[i])
    BY <1>5
  <2>1. IsComp(FALSE, g.comps[i]) /\ Whole(g.comps[i].data)
    BY <1>2, <1>11 DEF IsHeader, AreComps, Tidy
  <2>2. Len(Body(g.comps[i])) <= g.comps[i].size
    <3>1. DOMAIN g.comps = 1..n
      BY <1>2, SeqShape DEF IsHeader, AreComps
    <3> QED  BY <1>11, <3>1 DEF FitsRegions
  <2>3. g.comps[i].size # 0
    BY <2>1, <2>2, RegionNotEmpty
  <2>4. Made(comps[i], ExtractedRow(g.comps[i]))
    BY <1>3, <1>6, <1>11 DEF LayoutRead
  <2> QED  BY <1>11, <2>1, <2>3, <2>4, RowAgain
<1>13. Premises
  <2>1. KeysMatch(Rows)
    <3>1. DOMAIN Rows = 1..n
      BY <1>5, SeqShape
    <3>2. \A i \in 1..n : Rows[i].key = KeyFor(Rows[i].auth)
      BY <1>3 DEF LayoutRead
    <3> QED  BY <3>1, <3>2, KeyForType DEF KeysMatch
  <2> QED  BY <2>1 DEF Premises
<1>14. Tidy(h) /\ SignedFor(h)
  <2>1. Tidy(h) /\ Covers(h, GetData(h))
    BY <1>13, TidyWritten DEF h
  <2> QED  BY <1>5, <1>6, <1>13, <2>1, CoversSigned DEF Premises
<1>15. GetData(g) = GetData(h)
  BY <1>2, <1>5, <1>7, <1>11, <1>12, <1>14, SameMade DEF Tidy
<1> QED  BY <1>1, <1>15 DEF h

(* What the three invariants say together holds all the time.              *)
RebuildInv == PlacesInv /\ RemadeInv /\ OriginInv

(* The first create has placed nothing and has no original.                *)
LEMMA RebuildInit == Init => RebuildInv
<1> SUFFICES ASSUME Init
             PROVE  RebuildInv
  OBVIOUS
<1>1. pc = "build" /\ origin = <<>>
  BY DEF Init
<1>2. alignment = GivenAlignment(layout)
  BY DEF Init, GivenAlignment
<1> QED  BY <1>1, <1>2 DEF RebuildInv, PlacesInv, RemadeInv, OriginInv

(* Every step keeps the places, what can be compressed again, and the      *)
(* original.                                                               *)
LEMMA RebuildNext == IInv /\ RebuildInv /\ [Next]_containerVars => RebuildInv'
BY PlacesNext, RemadeNext, OriginNext DEF RebuildInv

(* Stated apart from ContainerInvariant, which its steps need.             *)
LEMMA RebuildInvariant == Spec => []RebuildInv
<1>1. Spec => []IInv
  BY ContainerInvariant
<1> QED  BY <1>1, RebuildInit, RebuildNext, PTL DEF Spec

(* The step of RebuiltSame.                                                *)
Rebuilds ==
  /\ pc = "write" /\ pc' = "written" /\ origin # <<>>
  /\ Sane /\ Padded
  /\ LET l == origin[1]
     IN  /\ l.rows # <<>> /\ KeysMatch(l.rows)
         /\ l.rows[1].alignment \in {0, l.header.alignment}
  => file' = origin[2]

(* Only WriteContainer finishes a container.                               *)
LEMMA RebuildsNext == IInv /\ RebuildInv /\ [Next]_containerVars => [Rebuilds]_containerVars
<1> SUFFICES ASSUME IInv, RebuildInv, Next, pc = "write", pc' = "written", origin # <<>>,
                    Sane, Padded, origin[1].rows # <<>>, KeysMatch(origin[1].rows),
                    origin[1].rows[1].alignment \in {0, origin[1].header.alignment}
             PROVE  file' = origin[2]
  BY DEF Rebuilds
<1>1. WriteContainer
  BY DEF Next, BuildComponent, BuildFails, Built, PlaceComponent, Placed, SignAll, DoesNotFit,
         Replace, ExtractAndCreate, StartCreate, Fail
<1>2. FitsRegions(Adjusted(comps)) /\ file' = GetData(Adjusted(comps))
  BY <1>1 DEF WriteContainer
<1>3. PlacesInv /\ OriginInv
  BY DEF RebuildInv
<1> QED  BY <1>2, <1>3, MadeAgain

(* RebuiltSame: what create makes of the layout that extract has written is *)
(* the file extract was given, with every hash and signature, also after    *)
(* components were replaced, where the first component has the alignment of *)
(* the header.                                                              *)
THEOREM ContainerRebuilt == Spec => RebuiltSame
<1>1. Spec => []IInv /\ []RebuildInv
  BY ContainerInvariant, RebuildInvariant
<1>2. IInv /\ RebuildInv /\ [Next]_containerVars => [Rebuilds]_containerVars
  BY RebuildsNext
<1>3. Spec => [][Rebuilds]_containerVars
  BY <1>1, <1>2, PTL DEF Spec
<1> QED  BY <1>3 DEF RebuiltSame, Rebuilds
===============================================================================
