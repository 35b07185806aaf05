-------------------------- MODULE OtaUpdateProofs --------------------------
(***************************************************************************)
(* Proofs about OtaUpdate, for all pairs of builds, files and variants and *)
(* any number of fix-ups and interruptions.                                *)
(*                                                                         *)
(* The argument is about what commands write, not about their order: in a  *)
(* package for one variant every command puts into a place what the target *)
(* build of that variant has there. So a place that a command has reached  *)
(* holds the target, is never spoilt by another command, and a patch finds *)
(* what was checked before or what it would have made of it.               *)
(***************************************************************************)
EXTENDS OtaUpdate, FiniteSetTheorems, TLAPS

(* What a device of the package's variant holds on both builds.            *)
Was(l)  == Holds(src, device)[l]
Want(l) == Holds(tgt, device)[l]

(* The variant matters for the places of the bootloader and the firmware.  *)
InPlace(l) == l \in Images \/ device # Generic

RawPlaces == Images \cup {"bootloader", "fwupdate"}

(* The places a command writes, and what it writes there.                  *)
Targets(c) ==
  CASE c.op = "raw"    -> IF c.at = "bootloader" THEN Files ELSE {c.at}
    [] c.op = "unpack" -> {f \in Files : File(f) \in DOMAIN zip}
    [] c.op = "delete" -> c.files
    [] OTHER           -> {c.at}

ValueOf(c, l) ==
  CASE c.op = "raw"    -> IF c.at = "bootloader" THEN zip[Img("bootloader")][l] ELSE zip[Img(l)]
    [] c.op = "unpack" -> zip[File(l)]
    [] c.op = "delete" -> None
    [] OTHER           -> c.to

Covered(l) == \E c \in ToSet(script) : l \in Targets(c)

Commands == [op: {"raw"}, at: RawPlaces] \cup [op: {"delete"}, files: SUBSET Files]
            \cup [op: {"unpack"}]
            \cup [op: {"patch"}, at: Locs, from: Data, to: Data, entry: {"patch"} \X Locs]

-----------------------------------------------------------------------------
(* Types.                                                                  *)

StateTyped ==
  /\ setup \in Setups
  /\ kind \in {"full", "incremental"}
  /\ pc \in {"verify_end", "install_end", "made", "failed"}
  /\ fixed \in Seq(Variants) /\ Len(fixed) <= MaxFixups
  /\ device = IF fixed = <<>> THEN Generic ELSE fixed[1]
  /\ dpc \in {"none", "idle", "applying", "refused", "aborted", "done"}
  /\ interrupts \in 0..MaxInterrupts

ZipTyped ==
  /\ DOMAIN zip \subseteq {Img(p) : p \in RawPlaces} \cup {File(f) : f \in Files}
                          \cup {Patch(l) : l \in Locs}
  /\ \A p \in Images \cup {"fwupdate"} :
       Img(p) \in DOMAIN zip => zip[Img(p)] \in Data \cup {Empty}
  /\ Img("bootloader") \in DOMAIN zip => zip[Img("bootloader")] \in Image
  /\ \A f \in Files : File(f) \in DOMAIN zip => zip[File(f)] \in Data
  /\ \A l \in Locs : Patch(l) \in DOMAIN zip => zip[Patch(l)] \in Data \X Data
  /\ kind = "full" => DOMAIN zip \subseteq {Img(p) : p \in Images \cup {"bootloader"}}

ScriptTyped ==
  /\ script \in Seq(Commands)
  /\ \A c \in ToSet(script) : c.op = "raw" => Img(c.at) \in DOMAIN zip

ChecksTyped == \A c \in checks : c.at \in Locs /\ c.accepts \subseteq Data

-----------------------------------------------------------------------------
(* The package.                                                            *)

(* Before the hooks are through nothing was fixed up and no script made.   *)
HooksInv ==
  /\ pc \in {"verify_end", "install_end"} =>
       /\ fixed = <<>> /\ script = <<>> /\ hashes = NoEntries /\ dpc = "none"
       /\ DOMAIN zip \subseteq {Patch(p) : p \in Images}
       /\ kind = "full" => zip = NoEntries
  /\ pc = "verify_end" => zip = NoEntries /\ kind = "incremental"
  /\ fixed = <<>> => DOMAIN zip \subseteq {Img(p) : p \in Images \cup {"bootloader"}}
                                       \cup {Patch(p) : p \in Images}

(* A patch found by VerifyEnd has its condition and its entry.             *)
PatchInfoInv ==
  \A p \in DOMAIN patchinfo :
    /\ p \in {"multiboot", "tos"}
    /\ patchinfo[p] = <<src[p], tgt[p]>> /\ patchinfo[p] \in Data \X Data
    /\ p \in setup.fstab
    /\ PatchCheck(p, src[p], tgt[p]) \in checks
    /\ Patch(p) \in DOMAIN zip

(* Nothing is both patched and sent as a whole.                            *)
OneWay == \A l \in Locs : Patch(l) \in DOMAIN zip => {File(l), Img(l)} \cap DOMAIN zip = {}

ZipInv ==
  /\ \A l \in Images \cup {"fwupdate"} :
       Img(l) \in DOMAIN zip => InPlace(l) /\ zip[Img(l)] = Want(l)
  /\ Img("bootloader") \in DOMAIN zip =>
       \A f \in Files \ {Capsule} : zip[Img("bootloader")][f] = Want(f)
  /\ \A f \in Files : File(f) \in DOMAIN zip => f # Capsule /\ InPlace(f) /\ zip[File(f)] = Want(f)
  /\ \A l \in Locs : Patch(l) \in DOMAIN zip =>
       l # Capsule /\ InPlace(l) /\ zip[Patch(l)] = <<Was(l), Want(l)>>

ChecksInv ==
  \A c \in checks :
    /\ c.at # Capsule /\ InPlace(c.at) /\ Patch(c.at) \in DOMAIN zip
    /\ c.accepts = {Was(c.at), Want(c.at)}
    /\ c.at \in Files => setup.efi

CommandInv(c) ==
  /\ c.op = "delete" => \A f \in c.files : InPlace(f) /\ Want(f) = None
  /\ c.op = "patch" => /\ c.at # Capsule /\ InPlace(c.at)
                       /\ c.entry = Patch(c.at) /\ c.entry \in DOMAIN zip
                       /\ c.from = Was(c.at) /\ c.to = Want(c.at)
                       /\ PatchCheck(c.at, c.from, c.to) \in checks

ScriptInv == \A c \in ToSet(script) : CommandInv(c)

(* What is in the package is used.                                         *)
UsedInv ==
  /\ \A f \in Files : File(f) \in DOMAIN zip \/ Patch(f) \in DOMAIN zip => Covered(f)
  /\ Img("fwupdate") \in DOMAIN zip \/ Patch("fwupdate") \in DOMAIN zip => Covered("fwupdate")

(* What differs between the builds is in the package.                      *)
CoverInv ==
  pc = "made" =>
    /\ tgt.bootloader # None =>
         \A p \in Images \cap setup.fstab : tgt[p] # None => Covered(p)
    /\ tgt.bootloader # None /\ (kind = "full" \/ src.bootloader # tgt.bootloader) =>
         \A f \in Files : Covered(f)
    /\ setup.efi /\ kind = "incremental" /\ device # Generic =>
         \A f \in Files \ {Capsule} : Was(f) # Want(f) => Covered(f)
    /\ SendsFirmware => Covered("fwupdate")

HashesInv ==
  \A p \in DOMAIN hashes :
    /\ tgt.bootloader # None /\ pc \in {"made", "failed"}
    /\ p \in Images \cup {"bootloader"}
    /\ p \in Images => hashes[p] = tgt[p] /\ tgt[p] # None
    /\ p = "bootloader" => \A f \in Files \ {Capsule} : hashes[p][f] = Want(f)

PackageInv ==
  OneVariant => ZipInv /\ ChecksInv /\ ScriptInv /\ CoverInv /\ HashesInv

MadeInv ==
  /\ StateTyped /\ ZipTyped /\ ScriptTyped /\ ChecksTyped
  /\ DOMAIN hashes \subseteq Images \cup {"bootloader"}
  /\ HooksInv /\ PatchInfoInv /\ OneWay /\ UsedInv /\ PackageInv

-----------------------------------------------------------------------------
(* The device.                                                             *)

DeviceTyped ==
  /\ dev \in [Locs -> Data \cup {None, Torn, Empty}]
  /\ at \in 1..(Len(script) + 1)
  /\ dpc # "none" => pc = "made"
  /\ dpc = "none" => interrupts = 0 /\ at = 1

AppliedInv ==
  dpc \in {"applying", "done"} =>
    \A i \in 1..(at - 1) : \A l \in Targets(script[i]) \ {Capsule} : dev[l] = Want(l)

UpdateInv ==
  OneVariant /\ dpc # "none" =>
    /\ \A l \in Locs : ~Covered(l) => dev[l] = began[l]
    /\ AppliedInv
    /\ dpc = "done" => at = Len(script) + 1
    /\ dpc = "applying" =>
         \A c \in ToSet(script) : c.op = "patch" => dev[c.at] \in {c.from, c.to}
    /\ dpc \in {"idle", "refused"} /\ interrupts = 0 => dev = began
    /\ dpc = "refused" => ~Accepted
    /\ dpc # "aborted"
    /\ (dpc = "applying" \/ interrupts > 0) /\ ~(setup.efi /\ Img("bootloader") \in DOMAIN zip)
         => Accepted

OtaInv == MadeInv /\ DeviceTyped /\ UpdateInv
-----------------------------------------------------------------------------
(* What the operators do.                                                  *)

LEMMA ImagesAre == Images = {"multiboot", "tos", "vbmeta"}
<1>1. DOMAIN Order = 1..3
  BY DEF Order
<1>2. Order[1] = "multiboot" /\ Order[2] = "tos" /\ Order[3] = "vbmeta"
  BY DEF Order
<1> QED  BY <1>1, <1>2 DEF Images

(* A place is an image, the firmware's, or a file.                         *)
LEMMA PlacesDiffer ==
  /\ Files \cap (Images \cup {"fwupdate", "bootloader"}) = {}
  /\ "fwupdate" \notin Images /\ "bootloader" \notin Images
  /\ Capsule \in Files
  BY ImagesAre, OtaAssumption

LEMMA NamesDiffer ==
  \A x, y : /\ Img(x) # File(y) /\ Img(x) # Patch(y) /\ File(x) # Patch(y)
            /\ Img(x) = Img(y) => x = y
            /\ File(x) = File(y) => x = y
            /\ Patch(x) = Patch(y) => x = y
  BY DEF Img, File, Patch

LEMMA NameParts ==
  \A x : /\ Img(x)[1] = "image" /\ Img(x)[2] = x
         /\ File(x)[1] = "file" /\ File(x)[2] = x
         /\ Patch(x)[1] = "patch" /\ Patch(x)[2] = x
  BY DEF Img, File, Patch

LEMMA AddedToFacts ==
  ASSUME NEW f, NEW g
  PROVE  /\ DOMAIN AddedTo(f, g) = DOMAIN f \cup DOMAIN g
         /\ \A e \in DOMAIN f : AddedTo(f, g)[e] = f[e]
         /\ \A e \in DOMAIN g \ DOMAIN f : AddedTo(f, g)[e] = g[e]
  BY DEF AddedTo

LEMMA ToSetOfConcat ==
  ASSUME NEW S, NEW s \in Seq(S), NEW t \in Seq(S)
  PROVE  s \o t \in Seq(S) /\ ToSet(s \o t) = ToSet(s) \cup ToSet(t)
<1>1. /\ s \o t \in Seq(S) /\ Len(s \o t) = Len(s) + Len(t)
      /\ \A i \in 1..Len(s) : (s \o t)[i] = s[i]
      /\ \A i \in 1..Len(t) : (s \o t)[i + Len(s)] = t[i]
      /\ \A i \in Len(s) + 1..Len(s) + Len(t) : (s \o t)[i] = t[i - Len(s)]
      /\ Len(s) \in Nat /\ Len(t) \in Nat
      /\ DOMAIN s = 1..Len(s) /\ DOMAIN t = 1..Len(t)
  OBVIOUS
<1>2. DOMAIN (s \o t) = 1..Len(s) + Len(t)
  BY <1>1
<1>3. ASSUME NEW i \in 1..Len(s) + Len(t)
      PROVE  (s \o t)[i] \in ToSet(s) \cup ToSet(t)
  <2>1. CASE i \in 1..Len(s)
    BY <1>1, <2>1 DEF ToSet
  <2>2. CASE i \in Len(s) + 1..Len(s) + Len(t)
    <3>1. i - Len(s) \in 1..Len(t)
      BY <1>1, <2>2
    <3> QED  BY <1>1, <2>2, <3>1 DEF ToSet
  <2> QED  BY <1>1, <2>1, <2>2
<1>4. ASSUME NEW i \in 1..Len(s)
      PROVE  s[i] \in ToSet(s \o t)
  <2>1. i \in DOMAIN (s \o t) /\ (s \o t)[i] = s[i]
    BY <1>1, <1>2
  <2> QED  BY <2>1 DEF ToSet
<1>5. ASSUME NEW i \in 1..Len(t)
      PROVE  t[i] \in ToSet(s \o t)
  <2>1. i + Len(s) \in DOMAIN (s \o t) /\ (s \o t)[i + Len(s)] = t[i]
    BY <1>1, <1>2
  <2> QED  BY <2>1 DEF ToSet
<1>6. ToSet(s \o t) \subseteq ToSet(s) \cup ToSet(t)
  BY <1>2, <1>3 DEF ToSet
<1>7. ToSet(s) \subseteq ToSet(s \o t) /\ ToSet(t) \subseteq ToSet(s \o t)
  BY <1>1, <1>4, <1>5 DEF ToSet
<1> QED  BY <1>1, <1>6, <1>7

LEMMA ToSetOfShort ==
  ASSUME NEW S
  PROVE  /\ <<>> \in Seq(S) /\ ToSet(<<>>) = {}
         /\ \A x \in S : <<x>> \in Seq(S) /\ ToSet(<<x>>) = {x}
  BY DEF ToSet

LEMMA SetToSeqFacts ==
  ASSUME NEW S, IsFiniteSet(S)
  PROVE  SetToSeq(S) \in Seq(S) /\ ToSet(SetToSeq(S)) = S
<1> DEFINE n == Cardinality(S)
           s == SetToSeq(S)
<1>1. n \in Nat /\ ExistsBijection(1..n, S)
  BY FS_CardinalityType
<1>2. \E f \in [1..n -> S] : IsInjective(f)
  BY <1>1 DEF ExistsBijection, Bijection, Injection, IsInjective
<1>3. s \in [1..n -> S] /\ IsInjective(s)
  BY <1>2 DEF SetToSeq
<1> HIDE DEF n, s
<1>4. s \in Injection(1..n, S)
  BY <1>3 DEF Injection, IsInjective
<1>5. IsFiniteSet(1..n) /\ Cardinality(1..n) = n
  BY <1>1, FS_Interval
<1>6. s \in Surjection(1..n, S)
  BY <1>4, <1>5, FS_Injection DEF n
<1>7. \A x \in S : \E i \in 1..n : s[i] = x
  BY <1>6 DEF Surjection
<1>8. DOMAIN s = 1..n /\ \A i \in 1..n : s[i] \in S
  BY <1>3
<1>9. ToSet(s) = S
  BY <1>7, <1>8 DEF ToSet
<1> QED  BY <1>1, <1>3, <1>9 DEF s
LEMMA BuildFacts ==
  ASSUME NEW b \in Build
  PROVE  /\ b.bootloader \in Image \cup {None}
         /\ \A p \in Images : b[p] \in Data \cup {None}
         /\ \A v \in Variants : /\ b.vboot[v] \in Image
                                /\ b.fwu[v] \in Data \cup {None, Empty}
<1>1. /\ b.bootloader \in Image \cup {None}
      /\ b.vboot \in [Variants -> Image]
      /\ b.fwu \in [Variants -> Data \cup {None, Empty}]
  BY DEF Build
<1>2. ASSUME NEW p \in Images
      PROVE  b[p] \in Data \cup {None}
  <2>1. CASE p = "multiboot"
    BY <2>1 DEF Build
  <2>2. CASE p = "tos"
    BY <2>2 DEF Build
  <2>3. CASE p = "vbmeta"
    BY <2>3 DEF Build
  <2> QED  BY <2>1, <2>2, <2>3, ImagesAre
<1> QED  BY <1>1, <1>2

LEMMA SetupFacts ==
  ASSUME setup \in Setups
  PROVE  /\ src \in Build /\ tgt \in Build
         /\ setup.fstab \subseteq Images /\ setup.efi \in BOOLEAN
  BY SetupAssumption DEF Setup, src, tgt

(* What a device holds, place by place.                                    *)
LEMMA HoldsFacts ==
  ASSUME NEW b, NEW v
  PROVE  /\ \A p \in Images : Holds(b, v)[p] = IF p \in setup.fstab THEN b[p] ELSE None
         /\ Holds(b, v)["fwupdate"] = IF v # Generic /\ ~setup.efi THEN b.fwu[v] ELSE None
         /\ Holds(b, v)[Capsule] = None
         /\ \A f \in Files \ {Capsule} :
              Holds(b, v)[f] = IF v # Generic THEN b.vboot[v][f]
                               ELSE IF b.bootloader # None THEN b.bootloader[f] ELSE None
<1> DEFINE boot == IF v # Generic THEN b.vboot[v]
                   ELSE IF b.bootloader # None THEN b.bootloader
                   ELSE [f \in Files |-> None]
<1>1. \A l \in Locs :
        Holds(b, v)[l] =
          IF l \in Images THEN IF l \in setup.fstab THEN b[l] ELSE None
          ELSE IF l = "fwupdate" THEN IF v # Generic /\ ~setup.efi THEN b.fwu[v] ELSE None
          ELSE IF l = Capsule THEN None ELSE boot[l]
  BY Zenon DEF Holds
<1>2. \A f \in Files :
        boot[f] = IF v # Generic THEN b.vboot[v][f]
                  ELSE IF b.bootloader # None THEN b.bootloader[f] ELSE None
  OBVIOUS
<1> HIDE DEF boot
<1> QED  BY <1>1, <1>2, PlacesDiffer DEF Locs

LEMMA HoldsTyped ==
  ASSUME NEW b \in Build, NEW v \in Variants \cup {Generic}
  PROVE  Holds(b, v) \in [Locs -> Data \cup {None, Empty}]
<1>1. \A p \in Images : Holds(b, v)[p] \in Data \cup {None, Empty}
  BY HoldsFacts, BuildFacts
<1>2. Holds(b, v)["fwupdate"] \in Data \cup {None, Empty}
  BY HoldsFacts, BuildFacts
<1>3. ASSUME NEW f \in Files
      PROVE  Holds(b, v)[f] \in Data \cup {None, Empty}
  <2>1. CASE f = Capsule
    BY <2>1, HoldsFacts
  <2>2. CASE f # Capsule /\ v # Generic
    <3>1. b.vboot[v] \in Image
      BY <2>2, BuildFacts
    <3> QED  BY <2>2, <3>1, HoldsFacts DEF Image
  <2>3. CASE f # Capsule /\ v = Generic
    BY <2>3, HoldsFacts, BuildFacts DEF Image
  <2> QED  BY <2>1, <2>2, <2>3
<1>4. \E F : Holds(b, v) = [l \in Locs |-> F[l]]
  <2> DEFINE boot == IF v # Generic THEN b.vboot[v]
                     ELSE IF b.bootloader # None THEN b.bootloader
                     ELSE [f \in Files |-> None]
             F == [l \in Locs |->
                     IF l \in Images THEN IF l \in setup.fstab THEN b[l] ELSE None
                     ELSE IF l = "fwupdate"
                     THEN IF v # Generic /\ ~setup.efi THEN b.fwu[v] ELSE None
                     ELSE IF l = Capsule THEN None ELSE boot[l]]
  <2>1. Holds(b, v) = F
    BY Zenon DEF Holds
  <2> HIDE DEF boot
  <2>2. F = [l \in Locs |-> F[l]]
    OBVIOUS
  <2> QED  BY <2>1, <2>2
<1> QED  BY <1>1, <1>2, <1>3, <1>4 DEF Locs

(* Without its capsule, the bootloader of a variant is what it holds.      *)
LEMMA LoadedFiles ==
  ASSUME NEW b \in Build, NEW v \in Variants, NEW f \in Files
  PROVE  LoadBootloaderFiles(b, v)[f] = Holds(b, v)[f]
<1>1. b.vboot[v] \in [Files -> Data \cup {None}]
  BY BuildFacts DEF Image
<1>2. v # Generic
  BY OtaAssumption
<1> QED  BY <1>1, <1>2, HoldsFacts DEF LoadBootloaderFiles

LEMMA InstalledFacts ==
  ASSUME setup.fstab \subseteq Images
  PROVE  /\ Installed \in Seq(Images)
         /\ ToSet(Installed) = {p \in setup.fstab : tgt[p] # None}
<1>1. \A p \in Images : /\ Place(p) \in Seq(Images)
                        /\ ToSet(Place(p)) = {q \in {p} \cap setup.fstab : tgt[q] # None}
  BY ToSetOfShort DEF Place
<1>2. /\ Place("multiboot") \in Seq(Images) /\ Place("tos") \in Seq(Images)
      /\ Place("vbmeta") \in Seq(Images)
  BY <1>1, ImagesAre
<1>3. /\ Place("multiboot") \o Place("tos") \in Seq(Images)
      /\ ToSet(Place("multiboot") \o Place("tos"))
           = ToSet(Place("multiboot")) \cup ToSet(Place("tos"))
  BY <1>2, ToSetOfConcat
<1>4. /\ Installed \in Seq(Images)
      /\ ToSet(Installed) = ToSet(Place("multiboot")) \cup ToSet(Place("tos"))
                            \cup ToSet(Place("vbmeta"))
  <2> DEFINE two == Place("multiboot") \o Place("tos")
  <2>1. Installed = two \o Place("vbmeta")
    BY Zenon DEF Installed
  <2>2. two \in Seq(Images) /\ ToSet(two) = ToSet(Place("multiboot")) \cup ToSet(Place("tos"))
    BY <1>3
  <2> HIDE DEF two
  <2>3. two \o Place("vbmeta") \in Seq(Images)
        /\ ToSet(two \o Place("vbmeta")) = ToSet(two) \cup ToSet(Place("vbmeta"))
    BY <1>2, <2>2, ToSetOfConcat
  <2> QED  BY <2>1, <2>2, <2>3
<1> QED  BY <1>1, <1>4, ImagesAre

(* A patch is made only of images that the fstab knows and RADIO/ holds.   *)
LEMMA HasPatchFacts ==
  ASSUME setup \in Setups, NEW p \in LookedUp, HasPatch(p)
  PROVE  /\ p \in {"multiboot", "tos"} /\ p \in setup.fstab
         /\ src[p] \in Data /\ tgt[p] \in Data
<1>1. p \in Images /\ p \in setup.fstab
  <2>1. PICK i \in DOMAIN Order : p = Order[i] /\ \A k \in 1..i : Order[k] \in setup.fstab
    BY DEF LookedUp
  <2>2. i \in 1..i
    BY <2>1 DEF Order
  <2> QED  BY <2>1, <2>2 DEF Images
<1>2. p # "vbmeta"
  BY DEF HasPatch, Radio
<1>3. src[p] # None /\ tgt[p] # None
  BY <1>2 DEF HasPatch, Radio
<1> QED  BY <1>1, <1>2, <1>3, ImagesAre, SetupFacts, BuildFacts
-----------------------------------------------------------------------------
(* The device leaves the package alone.                                    *)

LEMMA PackageSame ==
  ASSUME UNCHANGED genVars
  PROVE  /\ OneVariant' = OneVariant /\ script' = script /\ checks' = checks
         /\ zip' = zip /\ setup' = setup /\ pc' = pc /\ device' = device
         /\ \A l : Was(l)' = Was(l) /\ Want(l)' = Want(l) /\ Covered(l)' = Covered(l)
         /\ \A c : Targets(c)' = Targets(c)
<1> USE DEF genVars
<1>1. src' = src /\ tgt' = tgt
  BY DEF src, tgt
<1>2. \A l : Was(l)' = Was(l) /\ Want(l)' = Want(l)
  BY <1>1 DEF Was, Want, Holds
<1>3. \A c : Targets(c)' = Targets(c)
  BY DEF Targets
<1>4. \A l : Covered(l)' = Covered(l)
  BY DEF Covered, Targets
<1> QED  BY <1>2, <1>3, <1>4 DEF OneVariant

LEMMA Frozen ==
  ASSUME UNCHANGED genVars, MadeInv,
         dpc' \in {"none", "idle", "applying", "refused", "aborted", "done"},
         interrupts' \in 0..MaxInterrupts, dpc' # "none" => pc = "made"
  PROVE  MadeInv'
<1> USE DEF genVars
<1>1. StateTyped'
  BY DEF MadeInv, StateTyped
<1>2. ZipTyped' /\ ScriptTyped' /\ ChecksTyped'
  BY DEF MadeInv, ZipTyped, ScriptTyped, ChecksTyped
<1>3. (DOMAIN hashes \subseteq Images \cup {"bootloader"})'
  BY DEF MadeInv
<1>4. HooksInv'
  BY DEF MadeInv, HooksInv
<1>5. PatchInfoInv' /\ OneWay'
  BY DEF MadeInv, PatchInfoInv, OneWay, src, tgt
<1>6. UsedInv'
  BY DEF MadeInv, UsedInv, Covered, Targets
<1>7. /\ \A l : Was(l)' = Was(l) /\ Want(l)' = Want(l)
      /\ \A l : InPlace(l)' = InPlace(l) /\ Covered(l)' = Covered(l)
      /\ src' = src /\ tgt' = tgt
  BY PackageSame DEF InPlace, src, tgt
<1>8. ASSUME OneVariant'
      PROVE  (ZipInv /\ ChecksInv /\ ScriptInv /\ CoverInv /\ HashesInv)'
  <2>1. ZipInv /\ ChecksInv /\ ScriptInv /\ CoverInv /\ HashesInv
    BY <1>8 DEF MadeInv, PackageInv, OneVariant
  <2>2. ZipInv' /\ ChecksInv'
    BY <1>7, <2>1 DEF ZipInv, ChecksInv
  <2>3. ScriptInv'
    BY <1>7, <2>1 DEF ScriptInv, CommandInv
  <2>4. CoverInv'
    BY <1>7, <2>1 DEF CoverInv, SendsFirmware
  <2>5. HashesInv'
    BY <1>7, <2>1 DEF HashesInv
  <2> QED  BY <2>2, <2>3, <2>4, <2>5
<1> QED  BY <1>1, <1>2, <1>3, <1>4, <1>5, <1>6, <1>8, Zenon DEF MadeInv, PackageInv
-----------------------------------------------------------------------------
(* What the commands write.                                                *)

LEMMA UnpackedFiles ==
  ASSUME ZipTyped
  PROVE  {e[2] : e \in {x \in DOMAIN zip : x[1] = "file"}} = {f \in Files : File(f) \in DOMAIN zip}
<1>1. ASSUME NEW e \in DOMAIN zip, e[1] = "file"
      PROVE  \E f \in Files : e = File(f)
  BY <1>1, NameParts DEF ZipTyped
<1>2. \A f \in Files : File(f)[1] = "file" /\ File(f)[2] = f
  BY NameParts
<1> QED  BY <1>1, <1>2

(* Every command of a package for one variant writes what the target has.  *)
LEMMA CommandWrites ==
  ASSUME MadeInv, NEW c \in ToSet(script)
  PROVE  /\ c \in Commands
         /\ Targets(c) \subseteq Locs
         /\ c.op = "patch" => c.at \in Locs /\ c.from \in Data /\ c.to \in Data
         /\ \A l \in Targets(c) : ValueOf(c, l) \in Data \cup {None, Torn, Empty}
         /\ OneVariant => \A l \in Targets(c) \ {Capsule} : ValueOf(c, l) = Want(l)
<1>1. /\ c \in Commands /\ (c.op = "raw" => Img(c.at) \in DOMAIN zip)
      /\ ZipTyped
  BY DEF MadeInv, ScriptTyped, ToSet
<1>2. OneVariant => ZipInv /\ CommandInv(c)
  BY DEF MadeInv, PackageInv, ScriptInv
<1>3. Files \subseteq Locs /\ Images \cup {"fwupdate"} \subseteq Locs
  BY DEF Locs
<1>4. CASE c.op = "raw"
  <2>1. c.at \in RawPlaces
    BY <1>1, <1>4 DEF Commands
  <2>2. CASE c.at = "bootloader"
    <3>1. Targets(c) = Files /\ \A l : ValueOf(c, l) = zip[Img("bootloader")][l]
      BY <1>4, <2>2 DEF Targets, ValueOf
    <3>2. zip[Img("bootloader")] \in [Files -> Data \cup {None}]
      BY <1>1, <1>4, <2>2 DEF ZipTyped, Image
    <3>3. OneVariant => \A f \in Files \ {Capsule} : zip[Img("bootloader")][f] = Want(f)
      BY <1>1, <1>2, <1>4, <2>2 DEF ZipInv
    <3> QED  BY <1>1, <1>3, <1>4, <3>1, <3>2, <3>3
  <2>3. CASE c.at # "bootloader"
    <3>1. Targets(c) = {c.at} /\ ValueOf(c, c.at) = zip[Img(c.at)]
      BY <1>4, <2>3 DEF Targets, ValueOf
    <3>2. c.at \in Images \cup {"fwupdate"}
      BY <2>1, <2>3 DEF RawPlaces
    <3>3. zip[Img(c.at)] \in Data \cup {Empty}
      BY <1>1, <1>4, <3>2 DEF ZipTyped
    <3>4. OneVariant => zip[Img(c.at)] = Want(c.at)
      BY <1>1, <1>2, <1>4, <3>2 DEF ZipInv
    <3> QED  BY <1>1, <1>3, <1>4, <3>1, <3>2, <3>3, <3>4
  <2> QED  BY <2>2, <2>3
<1>5. CASE c.op = "unpack"
  <2>1. /\ Targets(c) = {f \in Files : File(f) \in DOMAIN zip}
        /\ \A l : ValueOf(c, l) = zip[File(l)]
    BY <1>5 DEF Targets, ValueOf
  <2> QED  BY <1>1, <1>2, <1>3, <1>5, <2>1 DEF ZipTyped, ZipInv
<1>6. CASE c.op = "delete"
  <2>1. Targets(c) = c.files /\ \A l : ValueOf(c, l) = None
    BY <1>6 DEF Targets, ValueOf
  <2>2. c.files \subseteq Files
    BY <1>1, <1>6 DEF Commands
  <2> QED  BY <1>1, <1>2, <1>3, <1>6, <2>1, <2>2 DEF CommandInv
<1>7. CASE c.op = "patch"
  <2>1. Targets(c) = {c.at} /\ \A l : ValueOf(c, l) = c.to
    BY <1>7 DEF Targets, ValueOf
  <2>2. c.at \in Locs /\ c.from \in Data /\ c.to \in Data
    BY <1>1, <1>7 DEF Commands
  <2> QED  BY <1>1, <1>2, <1>7, <2>1, <2>2 DEF CommandInv
<1>8. c.op \in {"raw", "unpack", "delete", "patch"}
  BY <1>1 DEF Commands
<1> QED  BY <1>4, <1>5, <1>6, <1>7, <1>8

(* Written in place: by neither a patch nor the deletion of files.         *)
LEMMA WritesInPlace ==
  ASSUME ZipTyped, Command.op \in {"raw", "unpack"}
  PROVE  Writes = Targets(Command) /\ \A l : Written(l) = ValueOf(Command, l)
<1> HIDE DEF Command
<1>1. CASE Command.op = "raw"
  BY <1>1 DEF Writes, Written, Raw, Targets, ValueOf
<1>2. CASE Command.op = "unpack"
  BY <1>2, UnpackedFiles DEF Writes, Written, Raw, Targets, ValueOf
<1> QED  BY <1>1, <1>2

LEMMA CommandAt ==
  ASSUME MadeInv, DeviceTyped, ~Over
  PROVE  at \in 1..Len(script) /\ Command \in ToSet(script) /\ at + 1 \in 1..(Len(script) + 1)
<1>1. Len(script) \in Nat /\ DOMAIN script = 1..Len(script)
  BY DEF MadeInv, ScriptTyped
<1>2. at \in 1..Len(script) /\ at + 1 \in 1..(Len(script) + 1)
  BY <1>1 DEF DeviceTyped, Over
<1> QED  BY <1>1, <1>2 DEF Command, ToSet

LEMMA RunFacts ==
  ASSUME MadeInv, DeviceTyped, RunCommand
  PROVE  /\ Command \in ToSet(script)
         /\ dev' \in [Locs -> Data \cup {None, Torn, Empty}]
         /\ \A l \in Locs : dev'[l] = IF l \in Targets(Command) THEN ValueOf(Command, l) ELSE dev[l]
<1>1. Command \in ToSet(script)
  BY CommandAt DEF RunCommand
<1>2. dev \in [Locs -> Data \cup {None, Torn, Empty}] /\ ZipTyped
  BY DEF DeviceTyped, MadeInv
<1>3. /\ Targets(Command) \subseteq Locs
      /\ Command.op = "patch" => Command.at \in Locs
      /\ \A l \in Targets(Command) : ValueOf(Command, l) \in Data \cup {None, Torn, Empty}
  BY <1>1, CommandWrites
<1>4. dev' = [l \in Locs |-> IF l \in Targets(Command) THEN ValueOf(Command, l) ELSE dev[l]]
  <2>1. CASE Command.op \in {"raw", "unpack"}
    <3>1. dev' = [l \in Locs |-> IF l \in Writes THEN Written(l) ELSE dev[l]]
      BY <2>1 DEF RunCommand
    <3> QED  BY <1>2, <2>1, <3>1, WritesInPlace
  <2>2. CASE Command.op = "delete"
    <3>1. dev' = [l \in Locs |-> IF l \in Command.files THEN None ELSE dev[l]]
      BY <2>2 DEF RunCommand
    <3> QED  BY <2>2, <3>1 DEF Targets, ValueOf
  <2>3. CASE Command.op = "patch"
    <3>1. dev' = [dev EXCEPT ![Command.at] = Command.to]
      BY <2>3 DEF RunCommand
    <3> QED  BY <1>2, <1>3, <2>3, <3>1 DEF Targets, ValueOf
  <2> QED  BY <2>1, <2>2, <2>3 DEF RunCommand
<1> HIDE DEF Command
<1> QED  BY <1>1, <1>2, <1>3, <1>4
-----------------------------------------------------------------------------
(* The steps of a device.                                                  *)

LEMMA ReceiveStep ==
  ASSUME OtaInv, Receive
  PROVE  OtaInv'
<1>1. /\ pc = "made" /\ dpc = "none" /\ dpc' = "idle" /\ began' = dev'
      /\ UNCHANGED genVars /\ at' = at /\ interrupts' = interrupts
  BY DEF Receive
<1>2. MadeInv /\ DeviceTyped /\ StateTyped
  BY DEF OtaInv, MadeInv
<1>3. MadeInv'
  BY <1>1, <1>2, Frozen DEF StateTyped
<1>4. dev' \in [Locs -> Data \cup {None, Torn, Empty}]
  <2>1. device \in Variants \cup {Generic}
    BY <1>2 DEF StateTyped
  <2>2. src \in Build /\ tgt \in Build
    BY <1>2, SetupFacts DEF StateTyped
  <2>3. /\ Holds(src, device) \in [Locs -> Data \cup {None, Torn, Empty}]
        /\ Holds(tgt, device) \in [Locs -> Data \cup {None, Torn, Empty}]
    BY <2>1, <2>2, HoldsTyped
  <2>4. CASE dev' = Holds(src, device) \/ dev' = Holds(tgt, device)
    BY <2>3, <2>4
  <2>5. CASE \E l \in Locs \ {Capsule}, d \in Data : dev' = [Holds(src, device) EXCEPT ![l] = d]
    BY <2>3, <2>5
  <2> QED  BY <2>4, <2>5 DEF Receive
<1>5. DeviceTyped'
  BY <1>1, <1>2, <1>4 DEF DeviceTyped, genVars
<1>6. UpdateInv'
  BY <1>1, <1>2 DEF UpdateInv, AppliedInv, DeviceTyped
<1> QED  BY <1>3, <1>5, <1>6 DEF OtaInv

LEMMA BeginStep ==
  ASSUME OtaInv, Begin
  PROVE  OtaInv'
<1>1. /\ dpc = "idle" /\ dpc' = (IF Accepted THEN "applying" ELSE "refused") /\ at' = 1
      /\ UNCHANGED genVars /\ dev' = dev /\ began' = began /\ interrupts' = interrupts
  BY DEF Begin
<1>2. MadeInv /\ DeviceTyped /\ StateTyped /\ UpdateInv /\ ScriptTyped
  BY DEF OtaInv, MadeInv
<1>3. MadeInv'
  BY <1>1, <1>2, Frozen DEF StateTyped, DeviceTyped
<1>4. DeviceTyped'
  <2>1. Len(script) \in Nat
    BY <1>2 DEF ScriptTyped
  <2> QED  BY <1>1, <1>2, <2>1 DEF DeviceTyped, genVars
<1>5. Accepted' = Accepted
  BY <1>1 DEF Accepted, genVars
<1>6. ASSUME OneVariant, Accepted, NEW c \in ToSet(script), c.op = "patch"
      PROVE  dev[c.at] \in {c.from, c.to}
  <2>1. CommandInv(c)
    BY <1>2, <1>6 DEF MadeInv, PackageInv, ScriptInv
  <2>2. PatchCheck(c.at, c.from, c.to) \in checks
    BY <1>6, <2>1 DEF CommandInv
  <2> QED  BY <1>6, <2>2 DEF Accepted, PatchCheck
<1>7. UpdateInv'
  <2> SUFFICES ASSUME OneVariant'
               PROVE  UpdateInv'
    BY DEF UpdateInv
  <2>1. OneVariant
    BY <1>1, PackageSame
  <2>2. \A l \in Locs : ~Covered(l)' => dev'[l] = began'[l]
    BY <1>1, <1>2, <2>1, PackageSame DEF UpdateInv
  <2>3. AppliedInv'
    BY <1>1 DEF AppliedInv
  <2>4. dpc' = "applying" => \A c \in ToSet(script') : c.op = "patch" => dev'[c.at] \in {c.from, c.to}
    BY <1>1, <1>6, <2>1, PackageSame
  <2>5. dpc' \in {"idle", "refused"} /\ interrupts' = 0 => dev' = began'
    BY <1>1, <1>2, <2>1 DEF UpdateInv
  <2>6. (dpc' = "applying" \/ interrupts' > 0) /\ ~(setup'.efi /\ Img("bootloader") \in DOMAIN zip')
          => Accepted'
    BY <1>1, <1>2, <1>5, <2>1, PackageSame DEF UpdateInv
  <2> QED  BY <1>1, <1>5, <2>2, <2>3, <2>4, <2>5, <2>6 DEF UpdateInv
<1> QED  BY <1>3, <1>4, <1>7 DEF OtaInv

LEMMA RunStep ==
  ASSUME OtaInv, RunCommand
  PROVE  OtaInv'
<1>1. /\ dpc = "applying" /\ ~Over /\ dpc' = dpc /\ at' = at + 1
      /\ UNCHANGED genVars /\ began' = began /\ interrupts' = interrupts
  BY DEF RunCommand
<1>2. MadeInv /\ DeviceTyped /\ StateTyped /\ UpdateInv
  BY DEF OtaInv, MadeInv
<1>3. MadeInv'
  BY <1>1, <1>2, Frozen DEF StateTyped, DeviceTyped
<1>4. /\ Command \in ToSet(script)
      /\ dev' \in [Locs -> Data \cup {None, Torn, Empty}]
      /\ \A l \in Locs : dev'[l] = IF l \in Targets(Command) THEN ValueOf(Command, l) ELSE dev[l]
  BY <1>2, RunFacts
<1>5. at \in 1..Len(script) /\ at + 1 \in 1..(Len(script) + 1) /\ Len(script) \in Nat
  BY <1>1, <1>2, CommandAt DEF MadeInv, ScriptTyped
<1>6. DeviceTyped'
  BY <1>1, <1>2, <1>4, <1>5 DEF DeviceTyped, genVars
<1>7. ASSUME OneVariant, NEW l \in Locs \ {Capsule}
      PROVE  dev'[l] = IF l \in Targets(Command) THEN Want(l) ELSE dev[l]
  BY <1>2, <1>4, <1>7, CommandWrites
<1>8. UpdateInv'
  <2> SUFFICES ASSUME OneVariant'
               PROVE  UpdateInv'
    BY DEF UpdateInv
  <2>1. OneVariant
    BY <1>1, PackageSame
  <2>2. \A l \in Locs : ~Covered(l)' => dev'[l] = began'[l]
    <3>1. \A l : l \in Targets(Command) => Covered(l)
      BY <1>4 DEF Covered
    <3> QED  BY <1>1, <1>2, <1>4, <2>1, <3>1, PackageSame DEF UpdateInv
  <2>3. AppliedInv'
    <3>1. ASSUME NEW i \in 1..at, NEW l \in Targets(script[i]) \ {Capsule}
          PROVE  dev'[l] = Want(l)
      <4>1. script[i] \in ToSet(script)
        <5>1. DOMAIN script = 1..Len(script)
          BY <1>2 DEF MadeInv, ScriptTyped
        <5> QED  BY <1>5, <5>1 DEF ToSet
      <4>2. l \in Locs
        BY <1>2, <4>1, CommandWrites
      <4>3. CASE i = at
        <5>1. script[i] = Command
          BY <4>3 DEF Command
        <5> QED  BY <1>7, <2>1, <3>1, <4>2, <5>1
      <4>4. CASE i \in 1..(at - 1)
        <5>1. dev[l] = Want(l)
          BY <1>1, <1>2, <2>1, <4>4 DEF UpdateInv, AppliedInv
        <5> QED  BY <1>7, <2>1, <3>1, <4>2, <5>1
      <4> QED  BY <1>5, <4>3, <4>4
    <3>2. (at + 1) - 1 = at
      BY <1>5
    <3> QED  BY <1>1, <3>1, <3>2, PackageSame DEF AppliedInv
  <2>4. ASSUME NEW c \in ToSet(script), c.op = "patch"
        PROVE  dev'[c.at] \in {c.from, c.to}
    <3>1. /\ c.at # Capsule /\ c.to = Want(c.at)
      BY <1>2, <2>1, <2>4 DEF MadeInv, PackageInv, ScriptInv, CommandInv
    <3>2. c.at \in Locs
      BY <1>2, <2>4, CommandWrites
    <3>3. dev[c.at] \in {c.from, c.to}
      BY <1>1, <1>2, <2>1, <2>4 DEF UpdateInv
    <3> QED  BY <1>7, <2>1, <3>1, <3>2, <3>3
  <2>5. ASSUME Accepted
        PROVE  Accepted'
    <3>1. ASSUME NEW c \in checks
          PROVE  dev'[c.at] \in c.accepts
      <4>1. c.at \in Locs \ {Capsule} /\ c.accepts = {Was(c.at), Want(c.at)}
        BY <1>2, <2>1 DEF MadeInv, PackageInv, ChecksInv, ChecksTyped
      <4>2. dev[c.at] \in c.accepts
        BY <2>5 DEF Accepted
      <4> QED  BY <1>7, <2>1, <4>1, <4>2
    <3> QED  BY <1>1, <3>1, PackageSame DEF Accepted
  <2>6. ~(setup'.efi /\ Img("bootloader") \in DOMAIN zip') => Accepted'
    BY <1>1, <1>2, <2>1, <2>5, PackageSame DEF UpdateInv
  <2> QED  BY <1>1, <2>2, <2>3, <2>4, <2>6, PackageSame DEF UpdateInv
<1> QED  BY <1>3, <1>6, <1>8 DEF OtaInv

(* A patch fits: what it is at was accepted, or is its own work.           *)
LEMMA PatchAbortsStep ==
  ASSUME OtaInv, PatchAborts
  PROVE  OtaInv'
<1>1. /\ dpc = "applying" /\ ~Over /\ dpc' = "aborted" /\ UNCHANGED genVars
      /\ dev' = dev /\ at' = at /\ began' = began /\ interrupts' = interrupts
      /\ Command.op = "patch" /\ ~Applies
  BY DEF PatchAborts
<1>2. MadeInv /\ DeviceTyped /\ StateTyped /\ UpdateInv
  BY DEF OtaInv, MadeInv
<1>3. MadeInv'
  BY <1>1, <1>2, Frozen DEF StateTyped, DeviceTyped
<1>4. DeviceTyped'
  BY <1>1, <1>2 DEF DeviceTyped, genVars
<1>5. Command \in ToSet(script)
  BY <1>1, <1>2, CommandAt
<1>6. ASSUME OneVariant
      PROVE  Applies
  <2>1. ZipInv /\ CommandInv(Command)
    BY <1>2, <1>5, <1>6 DEF MadeInv, PackageInv, ScriptInv
  <2>2. Command.at \in Locs
    BY <1>1, <1>2, <1>5, CommandWrites
  <2> HIDE DEF Command
  <2>3. zip[Command.entry] = <<Command.from, Command.to>>
    BY <1>1, <2>1, <2>2 DEF CommandInv, ZipInv
  <2>4. dev[Command.at] \in {Command.from, Command.to}
    BY <1>1, <1>2, <1>5, <1>6 DEF UpdateInv
  <2> QED  BY <2>3, <2>4 DEF Applies
<1>7. ~OneVariant'
  BY <1>1, <1>6, PackageSame
<1>8. UpdateInv'
  BY <1>7 DEF UpdateInv
<1> QED  BY <1>3, <1>4, <1>8 DEF OtaInv

LEMMA FinishStep ==
  ASSUME OtaInv, Finish
  PROVE  OtaInv'
<1>1. /\ dpc = "applying" /\ Over /\ dpc' = "done" /\ UNCHANGED genVars
      /\ dev' = dev /\ at' = at /\ began' = began /\ interrupts' = interrupts
  BY DEF Finish
<1>2. MadeInv /\ DeviceTyped /\ StateTyped /\ UpdateInv
  BY DEF OtaInv, MadeInv
<1>3. MadeInv'
  BY <1>1, <1>2, Frozen DEF StateTyped, DeviceTyped
<1>4. DeviceTyped'
  BY <1>1, <1>2 DEF DeviceTyped, genVars
<1>5. at = Len(script) + 1
  <2>1. Len(script) \in Nat
    BY <1>2 DEF MadeInv, ScriptTyped
  <2> QED  BY <1>1, <1>2, <2>1 DEF DeviceTyped, Over
<1>6. Accepted' = Accepted
  BY <1>1 DEF Accepted, genVars
<1>7. ASSUME OneVariant
      PROVE  /\ \A l \in Locs : ~Covered(l) => dev[l] = began[l]
             /\ AppliedInv
             /\ interrupts > 0 /\ ~(setup.efi /\ Img("bootloader") \in DOMAIN zip) => Accepted
  BY <1>1, <1>2, <1>7 DEF UpdateInv
<1>8. OneVariant => AppliedInv'
  BY <1>1, <1>7, PackageSame DEF AppliedInv
<1>9. UpdateInv'
  BY <1>1, <1>5, <1>6, <1>7, <1>8, PackageSame DEF UpdateInv
<1> QED  BY <1>3, <1>4, <1>9 DEF OtaInv

(* What is torn is not what is checked.                                    *)
LEMMA InterruptStep ==
  ASSUME OtaInv, Interrupt
  PROVE  OtaInv'
<1>1. /\ dpc = "applying" /\ dpc' = "idle" /\ at' = 1 /\ UNCHANGED genVars
      /\ began' = began /\ interrupts' = interrupts + 1 /\ interrupts < MaxInterrupts
      /\ \/ dev' = dev
         \/ /\ ~Over /\ Command.op \in {"raw", "unpack"}
            /\ dev' = [l \in Locs |-> IF l \in Writes THEN Torn ELSE dev[l]]
  BY DEF Interrupt
<1>2. MadeInv /\ DeviceTyped /\ StateTyped /\ UpdateInv /\ ScriptTyped /\ ZipTyped
  BY DEF OtaInv, MadeInv
<1>3. interrupts' \in 0..MaxInterrupts /\ interrupts' > 0 /\ interrupts' # 0
  BY <1>1, <1>2, OtaAssumption DEF StateTyped
<1>4. MadeInv'
  BY <1>1, <1>2, <1>3, Frozen DEF DeviceTyped
<1>5. DeviceTyped'
  <2>1. Len(script) \in Nat
    BY <1>2 DEF ScriptTyped
  <2>2. dev' \in [Locs -> Data \cup {None, Torn, Empty}]
    BY <1>1, <1>2 DEF DeviceTyped
  <2> QED  BY <1>1, <1>2, <2>1, <2>2 DEF DeviceTyped, genVars
<1>6. UpdateInv'
  <2> SUFFICES ASSUME OneVariant'
               PROVE  UpdateInv'
    BY DEF UpdateInv
  <2>1. OneVariant
    BY <1>1, PackageSame
  <2>2. CASE dev' = dev
    <3>1. Accepted' = Accepted
      BY <1>1, <2>2 DEF Accepted, genVars
    <3> QED  BY <1>1, <1>2, <1>3, <2>1, <2>2, <3>1, PackageSame DEF UpdateInv, AppliedInv
  <2>3. CASE /\ ~Over /\ Command.op \in {"raw", "unpack"}
             /\ dev' = [l \in Locs |-> IF l \in Writes THEN Torn ELSE dev[l]]
    <3>1. Command \in ToSet(script)
      BY <1>2, <2>3, CommandAt
    <3>2. Writes = Targets(Command)
      BY <1>2, <2>3, WritesInPlace
    <3>3. \A l \in Locs : ~Covered(l)' => dev'[l] = began'[l]
      <4>1. \A l : l \in Writes => Covered(l)
        BY <3>1, <3>2 DEF Covered
      <4> QED  BY <1>1, <1>2, <2>1, <2>3, <4>1, PackageSame DEF UpdateInv
    <3>4. ASSUME ~(setup.efi /\ Img("bootloader") \in DOMAIN zip)
          PROVE  Accepted'
      <4>1. Accepted
        BY <1>1, <1>2, <2>1, <3>4 DEF UpdateInv
      <4>2. ASSUME NEW c \in checks
            PROVE  dev'[c.at] \in c.accepts
        <5>1. /\ c.at \in Locs /\ Patch(c.at) \in DOMAIN zip
              /\ c.at \in Files => setup.efi
          BY <1>2, <2>1 DEF MadeInv, PackageInv, ChecksInv, ChecksTyped
        <5>2. File(c.at) \notin DOMAIN zip /\ Img(c.at) \notin DOMAIN zip
          BY <1>2, <5>1 DEF MadeInv, OneWay
        <5>3. c.at \notin Targets(Command)
          <6>1. Command.op = "raw" => Img(Command.at) \in DOMAIN zip
            BY <1>2, <3>1 DEF ScriptTyped
          <6> HIDE DEF Command
          <6>2. CASE Command.op = "raw"
            BY <3>4, <5>1, <5>2, <6>1, <6>2 DEF Targets
          <6>3. CASE Command.op = "unpack"
            BY <5>2, <6>3 DEF Targets
          <6> QED  BY <2>3, <6>2, <6>3
        <5> QED  BY <2>3, <3>2, <4>1, <5>1, <5>3 DEF Accepted
      <4> QED  BY <1>1, <4>2, PackageSame DEF Accepted
    <3> QED  BY <1>1, <1>3, <3>3, <3>4, PackageSame DEF UpdateInv, AppliedInv
  <2> QED  BY <1>1, <2>2, <2>3
<1> QED  BY <1>4, <1>5, <1>6 DEF OtaInv
-----------------------------------------------------------------------------
(* The steps of the hooks.                                                 *)

LEMMA SameBuilds ==
  ASSUME setup' = setup, device' = device
  PROVE  /\ src' = src /\ tgt' = tgt
         /\ \A l : Was(l)' = Was(l) /\ Want(l)' = Want(l) /\ InPlace(l)' = InPlace(l)
<1>1. src' = src /\ tgt' = tgt
  BY DEF src, tgt
<1> QED  BY <1>1 DEF Was, Want, Holds, InPlace

LEMMA DeviceWaits ==
  ASSUME OtaInv, MadeInv', UNCHANGED devVars, dpc = "none"
  PROVE  OtaInv'
<1>1. Len(script') \in Nat
  BY DEF MadeInv, ScriptTyped
<1>2. DeviceTyped'
  BY <1>1 DEF devVars, OtaInv, DeviceTyped
<1>3. UpdateInv'
  BY DEF devVars, UpdateInv
<1> QED  BY <1>2, <1>3 DEF OtaInv

(* Before the hooks are through the package is of no variant.              *)
LEMMA Hooks ==
  ASSUME MadeInv, pc \in {"verify_end", "install_end"}
  PROVE  /\ fixed = <<>> /\ device = Generic /\ script = <<>> /\ hashes = NoEntries
         /\ dpc = "none" /\ ToSet(script) = {} /\ OneVariant
         /\ DOMAIN zip \subseteq {Patch(p) : p \in Images}
         /\ ZipInv /\ ChecksInv
         /\ src \in Build /\ tgt \in Build /\ setup.fstab \subseteq Images
<1>1. /\ fixed = <<>> /\ script = <<>> /\ hashes = NoEntries /\ dpc = "none"
      /\ DOMAIN zip \subseteq {Patch(p) : p \in Images}
  BY DEF MadeInv, HooksInv
<1>2. device = Generic /\ setup \in Setups
  BY <1>1 DEF MadeInv, StateTyped
<1>3. OneVariant
  BY <1>1 DEF OneVariant
<1>4. ToSet(script) = {}
  BY <1>1, ToSetOfShort
<1> QED  BY <1>1, <1>2, <1>3, <1>4, SetupFacts DEF MadeInv, PackageInv

LEMMA VerifyEndStep ==
  ASSUME OtaInv, IncrementalOTA_VerifyEnd
  PROVE  OtaInv'
<1> DEFINE patched == {p \in LookedUp : HasPatch(p)}
<1>1. /\ pc = "verify_end" /\ pc' = "install_end"
      /\ checks' = {PatchCheck(p, src[p], tgt[p]) : p \in patched}
      /\ patchinfo' = [p \in patched \cap {"multiboot", "tos"} |-> <<src[p], tgt[p]>>]
      /\ zip' = [e \in {Patch(p) : p \in patched} |-> <<src[e[2]], tgt[e[2]]>>]
      /\ UNCHANGED <<setup, kind, script, hashes, fixed, device, devVars>>
  BY Zenon DEF IncrementalOTA_VerifyEnd
<1>2. MadeInv /\ StateTyped /\ kind = "incremental"
  BY <1>1 DEF OtaInv, MadeInv, HooksInv
<1>3. /\ fixed = <<>> /\ device = Generic /\ script = <<>> /\ hashes = NoEntries
      /\ dpc = "none" /\ ToSet(script) = {} /\ src \in Build /\ tgt \in Build
  BY <1>1, <1>2, Hooks
<1>4. \A p \in patched : /\ p \in {"multiboot", "tos"} /\ p \in setup.fstab
                         /\ src[p] \in Data /\ tgt[p] \in Data
  BY <1>2, HasPatchFacts DEF StateTyped
<1> HIDE DEF patched
<1>5. patched \subseteq Images /\ patched \subseteq Locs
  BY <1>4, ImagesAre DEF Locs
<1>6. \A p \in patched : Was(p) = src[p] /\ Want(p) = tgt[p] /\ p # Capsule /\ p \notin Files
  BY <1>4, <1>5, HoldsFacts, PlacesDiffer DEF Was, Want
<1>7. /\ src' = src /\ tgt' = tgt
      /\ \A l : Was(l)' = Was(l) /\ Want(l)' = Want(l) /\ InPlace(l)' = InPlace(l)
  BY <1>1, SameBuilds
<1>8. /\ DOMAIN zip' = {Patch(p) : p \in patched}
      /\ \A p \in patched : zip'[Patch(p)] = <<src[p], tgt[p]>>
      /\ \A l : Patch(l) \in DOMAIN zip' => l \in patched
      /\ \A l : Img(l) \notin DOMAIN zip' /\ File(l) \notin DOMAIN zip'
  <2>1. DOMAIN zip' = {Patch(p) : p \in patched}
    BY <1>1
  <2>2. \A p \in patched : zip'[Patch(p)] = <<src[p], tgt[p]>>
    BY <1>1, NameParts
  <2>3. \A l : Patch(l) \in {Patch(p) : p \in patched} => l \in patched
    BY NamesDiffer
  <2>4. \A l : Img(l) \notin {Patch(p) : p \in patched} /\ File(l) \notin {Patch(p) : p \in patched}
    BY NamesDiffer
  <2> QED  BY <2>1, <2>2, <2>3, <2>4
<1>9. StateTyped'
  BY <1>1, <1>2, <1>3 DEF StateTyped, devVars
<1>10. ZipTyped'
  BY <1>1, <1>2, <1>4, <1>5, <1>8 DEF ZipTyped
<1>11. ScriptTyped'
  BY <1>1, <1>2, <1>3, ToSetOfShort DEF ScriptTyped, MadeInv
<1>12. ChecksTyped'
  BY <1>1, <1>4, <1>5 DEF ChecksTyped, PatchCheck
<1>13. HooksInv'
  BY <1>1, <1>2, <1>3, <1>5, <1>8 DEF HooksInv, devVars, NoEntries
<1>14. PatchInfoInv'
  BY <1>1, <1>4, <1>7, <1>8 DEF PatchInfoInv
<1>15. OneWay'
  BY <1>8 DEF OneWay
<1>16. UsedInv'
  BY <1>5, <1>8, PlacesDiffer DEF UsedInv
<1>17. ZipInv' /\ ChecksInv'
  <2>1. \A p \in patched : InPlace(p)
    BY <1>5 DEF InPlace
  <2>2. ZipInv'
    BY <1>6, <1>7, <1>8, <2>1 DEF ZipInv
  <2>3. ChecksInv'
    BY <1>1, <1>6, <1>7, <1>8, <2>1 DEF ChecksInv, PatchCheck
  <2> QED  BY <2>2, <2>3
<1>18. ScriptInv' /\ CoverInv' /\ HashesInv'
  BY <1>1, <1>3 DEF ScriptInv, CoverInv, HashesInv, NoEntries
<1>19. MadeInv'
  BY <1>1, <1>3, <1>9, <1>10, <1>11, <1>12, <1>13, <1>14, <1>15, <1>16, <1>17, <1>18
     DEF MadeInv, PackageInv, NoEntries
<1> QED  BY <1>1, <1>3, <1>19, DeviceWaits

(* The package stays as it is, and nothing had to be installed.            *)
LEMMA AsIs ==
  ASSUME OtaInv, dpc = "none", UNCHANGED devVars,
         UNCHANGED <<setup, kind, zip, checks, script, patchinfo, hashes, fixed, device>>,
         \/ pc' = "failed"
         \/ pc = "install_end" /\ pc' = "made" /\ tgt.bootloader = None
  PROVE  OtaInv'
<1>1. MadeInv
  BY DEF OtaInv
<1>2. /\ src' = src /\ tgt' = tgt
      /\ \A l : Was(l)' = Was(l) /\ Want(l)' = Want(l) /\ InPlace(l)' = InPlace(l)
  BY SameBuilds
<1>3. /\ \A l : Covered(l)' = Covered(l)
      /\ \A c : CommandInv(c)' = CommandInv(c)
  BY <1>2 DEF Covered, Targets, CommandInv
<1>4. StateTyped' /\ ZipTyped' /\ ScriptTyped' /\ ChecksTyped'
  BY <1>1 DEF MadeInv, StateTyped, ZipTyped, ScriptTyped, ChecksTyped, devVars
<1>5. HooksInv' /\ OneWay' /\ (DOMAIN hashes \subseteq Images \cup {"bootloader"})'
  BY <1>1 DEF MadeInv, HooksInv, OneWay
<1>6. PatchInfoInv'
  BY <1>1, <1>2 DEF MadeInv, PatchInfoInv
<1>7. UsedInv'
  BY <1>1, <1>3 DEF MadeInv, UsedInv
<1>8. ASSUME OneVariant'
      PROVE  (ZipInv /\ ChecksInv /\ ScriptInv /\ CoverInv /\ HashesInv)'
  <2>1. ZipInv /\ ChecksInv /\ ScriptInv /\ HashesInv
    BY <1>1, <1>8 DEF MadeInv, PackageInv, OneVariant
  <2>2. ZipInv' /\ ChecksInv'
    BY <1>2, <2>1 DEF ZipInv, ChecksInv
  <2>3. ScriptInv'
    BY <1>3, <2>1 DEF ScriptInv
  <2>4. CoverInv'
    <3>1. CASE pc' = "failed"
      BY <3>1 DEF CoverInv
    <3>2. CASE pc = "install_end" /\ tgt.bootloader = None
      BY <1>1, <1>2, <3>2, Hooks DEF CoverInv, SendsFirmware
    <3> QED  BY <3>1, <3>2
  <2>5. HashesInv'
    <3>1. CASE pc' = "failed"
      BY <1>2, <2>1, <3>1 DEF HashesInv
    <3>2. CASE pc = "install_end" /\ tgt.bootloader = None
      BY <1>1, <3>2, Hooks DEF HashesInv, NoEntries
    <3> QED  BY <3>1, <3>2
  <2> QED  BY <2>2, <2>3, <2>4, <2>5
<1>9. MadeInv'
  BY <1>4, <1>5, <1>6, <1>7, <1>8, Zenon DEF MadeInv, PackageInv
<1> QED  BY <1>9, DeviceWaits
LEMMA HashesFacts ==
  ASSUME setup \in Setups, device = Generic, tgt.bootloader # None, NEW listed,
         listed \subseteq Images
  PROVE  /\ DOMAIN VerifyData(listed) \subseteq Images \cup {"bootloader"}
         /\ \A p \in DOMAIN VerifyData(listed) :
              /\ p \in Images => VerifyData(listed)[p] = tgt[p] /\ tgt[p] # None
              /\ p = "bootloader" =>
                   \A f \in Files \ {Capsule} : VerifyData(listed)[p][f] = Want(f)
<1> DEFINE held == {"bootloader"} \cup {q \in listed : tgt[q] # None}
<1>1. CASE ~setup.tools
  BY <1>1 DEF VerifyData, NoEntries
<1>2. CASE setup.tools
  <2>1. VerifyData(listed) = [p \in held |-> tgt[p]]
    BY <1>2, Zenon DEF VerifyData
  <2>2. DOMAIN VerifyData(listed) = held /\ \A p \in held : VerifyData(listed)[p] = tgt[p]
    BY <2>1
  <2>3. \A f \in Files \ {Capsule} : Want(f) = tgt.bootloader[f]
    BY HoldsFacts DEF Want
  <2>4. \A p \in Images : p # "bootloader"
    BY PlacesDiffer
  <2> QED  BY <2>2, <2>3, <2>4
<1> QED  BY <1>1, <1>2

LEMMA FullInstallEndStep ==
  ASSUME OtaInv, FullOTA_InstallEnd
  PROVE  OtaInv'
<1> DEFINE raw == <<"bootloader">> \o Installed
           placed == {"bootloader"} \cup {p \in setup.fstab : tgt[p] # None}
           listed == VerifyMultiboot \cup ({"vbmeta"} \cap setup.fstab)
<1>1. /\ pc = "install_end" /\ kind = "full" /\ pc' = "made" /\ tgt.bootloader # None
      /\ script' = [i \in DOMAIN raw |-> WriteRawImage(raw[i])]
      /\ zip' = [e \in {Img(raw[i]) : i \in DOMAIN raw} |-> tgt[e[2]]]
      /\ hashes' = VerifyData(listed)
      /\ UNCHANGED <<setup, kind, checks, patchinfo, fixed, device, devVars>>
  BY Zenon DEF FullOTA_InstallEnd
<1>2. MadeInv /\ StateTyped /\ zip = NoEntries
  BY <1>1 DEF OtaInv, MadeInv, HooksInv
<1>3. /\ fixed = <<>> /\ device = Generic /\ dpc = "none" /\ OneVariant
      /\ src \in Build /\ tgt \in Build /\ setup.fstab \subseteq Images
      /\ ZipInv /\ ChecksInv
  BY <1>1, <1>2, Hooks
<1>4. /\ raw \in Seq(RawPlaces)
      /\ \A i \in DOMAIN raw : raw[i] \in placed
      /\ \A p \in placed : \E i \in DOMAIN raw : raw[i] = p
  <2> DEFINE first == <<"bootloader">>
  <2>1. first \in Seq(RawPlaces) /\ ToSet(first) = {"bootloader"}
    BY ToSetOfShort DEF RawPlaces
  <2>2. Installed \in Seq(RawPlaces) /\ ToSet(Installed) = {p \in setup.fstab : tgt[p] # None}
    BY <1>3, InstalledFacts DEF RawPlaces
  <2> HIDE DEF first
  <2>3. first \o Installed \in Seq(RawPlaces)
        /\ ToSet(first \o Installed) = ToSet(first) \cup ToSet(Installed)
    BY <2>1, <2>2, ToSetOfConcat
  <2>4. raw = first \o Installed
    BY DEF first
  <2>5. ToSet(raw) = placed
    BY <2>1, <2>2, <2>3, <2>4
  <2> QED  BY <2>3, <2>4, <2>5 DEF ToSet
<1> HIDE DEF raw
<1>5. /\ DOMAIN zip' = {Img(p) : p \in placed}
      /\ \A p \in placed : zip'[Img(p)] = tgt[p]
      /\ \A l : Patch(l) \notin DOMAIN zip' /\ File(l) \notin DOMAIN zip'
      /\ \A l : Img(l) \in DOMAIN zip' => l \in placed
  <2>1. DOMAIN zip' = {Img(p) : p \in placed}
    <3>1. DOMAIN zip' = {Img(raw[i]) : i \in DOMAIN raw}
      BY <1>1
    <3> HIDE DEF placed
    <3>2. {Img(raw[i]) : i \in DOMAIN raw} \subseteq {Img(p) : p \in placed}
      BY <1>4
    <3>3. {Img(p) : p \in placed} \subseteq {Img(raw[i]) : i \in DOMAIN raw}
      BY <1>4
    <3> QED  BY <3>1, <3>2, <3>3
  <2>2. \A p \in placed : zip'[Img(p)] = tgt[p]
    <3>1. \A e \in DOMAIN zip' : zip'[e] = tgt[e[2]]
      BY <1>1
    <3> HIDE DEF placed
    <3> QED  BY <2>1, <3>1, NameParts
  <2>3. \A l : Patch(l) \notin {Img(p) : p \in placed} /\ File(l) \notin {Img(p) : p \in placed}
    BY NamesDiffer
  <2>4. \A l : Img(l) \in {Img(p) : p \in placed} => l \in placed
    BY NamesDiffer
  <2> QED  BY <2>1, <2>2, <2>3, <2>4
<1>6. /\ placed \subseteq Images \cup {"bootloader"} /\ placed \subseteq RawPlaces
      /\ \A p \in placed \ {"bootloader"} : tgt[p] \in Data /\ Want(p) = tgt[p] /\ InPlace(p)
      /\ tgt["bootloader"] \in Image
  BY <1>1, <1>3, BuildFacts, HoldsFacts DEF RawPlaces, Want, InPlace
<1>7. script' \in Seq(Commands) /\ ToSet(script') = {WriteRawImage(p) : p \in placed}
  <2>1. \A i \in DOMAIN raw : raw[i] \in RawPlaces
    BY <1>4
  <2>2. \A i \in DOMAIN raw : WriteRawImage(raw[i]) \in Commands
    BY <2>1 DEF WriteRawImage, Commands
  <2>3. DOMAIN raw = 1..Len(raw) /\ Len(raw) \in Nat
    BY <1>4
  <2>4. script' \in Seq(Commands)
    BY <1>1, <2>2, <2>3
  <2>5. ToSet(script') = {WriteRawImage(raw[i]) : i \in DOMAIN raw}
    BY <1>1 DEF ToSet
  <2> HIDE DEF placed
  <2>6. {WriteRawImage(raw[i]) : i \in DOMAIN raw} \subseteq {WriteRawImage(p) : p \in placed}
    BY <1>4
  <2>7. {WriteRawImage(p) : p \in placed} \subseteq {WriteRawImage(raw[i]) : i \in DOMAIN raw}
    BY <1>4
  <2> QED  BY <2>4, <2>5, <2>6, <2>7
<1>8. /\ src' = src /\ tgt' = tgt
      /\ \A l : Was(l)' = Was(l) /\ Want(l)' = Want(l) /\ InPlace(l)' = InPlace(l)
  BY <1>1, SameBuilds
<1>9. \A p \in placed : WriteRawImage(p).op = "raw" /\ WriteRawImage(p).at = p
  BY DEF WriteRawImage
<1>10. \A f \in Files \ {Capsule} : Want(f) = tgt["bootloader"][f]
  BY <1>1, <1>3, HoldsFacts DEF Want
<1>11. StateTyped'
  BY <1>1, <1>2 DEF StateTyped, devVars
<1>12. ZipTyped'
  <2>1. DOMAIN zip' \subseteq {Img(p) : p \in RawPlaces}
    BY <1>5, <1>6
  <2>2. \A p \in Images \cup {"fwupdate"} : Img(p) \in DOMAIN zip' => zip'[Img(p)] \in Data
    BY <1>5, <1>6, PlacesDiffer
  <2>3. Img("bootloader") \in DOMAIN zip' => zip'[Img("bootloader")] \in Image
    <3>1. "bootloader" \in placed
      OBVIOUS
    <3> HIDE DEF placed
    <3> QED  BY <1>5, <1>6, <3>1
  <2>4. DOMAIN zip' \subseteq {Img(p) : p \in Images \cup {"bootloader"}}
    BY <1>5, <1>6
  <2> QED  BY <1>5, <2>1, <2>2, <2>3, <2>4 DEF ZipTyped
<1>13. ScriptTyped'
  BY <1>5, <1>7, <1>9 DEF ScriptTyped
<1>14. ChecksTyped' /\ HooksInv'
  BY <1>1, <1>2, <1>5, <1>6 DEF MadeInv, ChecksTyped, HooksInv
<1>15. patchinfo = NoEntries \/ DOMAIN patchinfo = {}
  BY <1>2 DEF MadeInv, PatchInfoInv, NoEntries
<1>16. PatchInfoInv'
  BY <1>1, <1>15 DEF PatchInfoInv, NoEntries
<1>17. OneWay' /\ UsedInv'
  BY <1>5, <1>6, PlacesDiffer DEF OneWay, UsedInv
<1>18. ZipInv'
  BY <1>5, <1>6, <1>8, <1>10, PlacesDiffer DEF ZipInv
<1>19. checks = {}
  BY <1>2, <1>3 DEF ChecksInv, NoEntries
<1>20. ChecksInv' /\ ScriptInv'
  BY <1>1, <1>7, <1>9, <1>19 DEF ChecksInv, ScriptInv, CommandInv
<1>21. CoverInv'
  <2>1. ASSUME NEW p \in setup.fstab, tgt[p] # None
        PROVE  Covered(p)'
    <3>1. p \in placed /\ p # "bootloader"
      BY <1>3, <2>1, PlacesDiffer
    <3>2. p \in Targets(WriteRawImage(p))'
      BY <1>9, <3>1 DEF Targets
    <3> QED  BY <1>7, <3>1, <3>2 DEF Covered
  <2>2. \A f \in Files : Covered(f)'
    <3>1. Targets(WriteRawImage("bootloader"))' = Files
      BY <1>9 DEF Targets
    <3> QED  BY <1>7, <3>1 DEF Covered
  <2> QED  BY <1>1, <1>3, <1>8, <2>1, <2>2 DEF CoverInv, SendsFirmware
<1>22. HashesInv' /\ (DOMAIN hashes \subseteq Images \cup {"bootloader"})'
  <2>1. listed \subseteq Images
    BY <1>3, ImagesAre DEF VerifyMultiboot
  <2> HIDE DEF listed
  <2>2. /\ DOMAIN VerifyData(listed) \subseteq Images \cup {"bootloader"}
        /\ \A p \in DOMAIN VerifyData(listed) :
              /\ p \in Images => VerifyData(listed)[p] = tgt[p] /\ tgt[p] # None
              /\ p = "bootloader" =>
                   \A f \in Files \ {Capsule} : VerifyData(listed)[p][f] = Want(f)
    BY <1>1, <1>2, <1>3, <2>1, HashesFacts DEF StateTyped
  <2> QED  BY <1>1, <1>8, <2>2 DEF HashesInv
<1>23. MadeInv'
  BY <1>11, <1>12, <1>13, <1>14, <1>16, <1>17, <1>18, <1>20, <1>21, <1>22, Zenon
     DEF MadeInv, PackageInv
<1> QED  BY <1>1, <1>3, <1>23, DeviceWaits
LEMMA IncrementalInstallEndStep ==
  ASSUME OtaInv, IncrementalOTA_InstallEnd
  PROVE  OtaInv'
<1> DEFINE changed == src.bootloader # tgt.bootloader
           placed == {p \in setup.fstab : tgt[p] # None}
           Apply(p) == ApplyPatch(p, patchinfo[p][1], patchinfo[p][2], PatchEntry(p))
           Done(p) == ApplyPatch(p, src[p], tgt[p], Patch(p))
           boot == IF changed THEN <<WriteRawImage("bootloader")>> ELSE <<>>
           rest == [i \in DOMAIN Installed |-> Apply(Installed[i])]
           new == [e \in {Img("bootloader")} |-> tgt.bootloader]
<1>1. /\ pc = "install_end" /\ kind = "incremental" /\ pc' = "made" /\ tgt.bootloader # None
      /\ \A i \in DOMAIN Installed : Installed[i] \in DOMAIN patchinfo
      /\ script' = boot \o rest
      /\ zip' = IF changed THEN AddedTo(zip, new) ELSE zip
      /\ hashes' = VerifyData(VerifyMultiboot)
      /\ UNCHANGED <<setup, kind, checks, patchinfo, fixed, device, devVars>>
  BY Zenon DEF IncrementalOTA_InstallEnd
<1>2. MadeInv /\ StateTyped /\ ZipTyped
  BY DEF OtaInv, MadeInv
<1>3. /\ fixed = <<>> /\ device = Generic /\ dpc = "none" /\ OneVariant
      /\ src \in Build /\ tgt \in Build /\ setup.fstab \subseteq Images
      /\ ZipInv /\ ChecksInv
      /\ DOMAIN zip \subseteq {Patch(p) : p \in Images}
  BY <1>1, <1>2, Hooks
<1>4. Installed \in Seq(Images) /\ ToSet(Installed) = placed
  BY <1>3, InstalledFacts
<1>5. ASSUME NEW p \in placed
      PROVE  /\ p \in {"multiboot", "tos"} /\ p \in Images /\ p # "vbmeta"
             /\ patchinfo[p] = <<src[p], tgt[p]>> /\ src[p] \in Data /\ tgt[p] \in Data
             /\ PatchCheck(p, src[p], tgt[p]) \in checks /\ Patch(p) \in DOMAIN zip
             /\ Apply(p) = Done(p)
  <2>1. p \in DOMAIN patchinfo
    BY <1>1, <1>4 DEF ToSet
  <2>2. /\ p \in {"multiboot", "tos"}
        /\ patchinfo[p] = <<src[p], tgt[p]>> /\ patchinfo[p] \in Data \X Data
        /\ PatchCheck(p, src[p], tgt[p]) \in checks /\ Patch(p) \in DOMAIN zip
    BY <1>2, <2>1 DEF MadeInv, PatchInfoInv
  <2>3. patchinfo[p][1] = src[p] /\ patchinfo[p][2] = tgt[p] /\ src[p] \in Data /\ tgt[p] \in Data
    BY <2>2
  <2>4. PatchEntry(p) = Patch(p)
    BY <2>2 DEF PatchEntry
  <2> QED  BY <2>2, <2>3, <2>4, ImagesAre
<1>6. rest \in Seq(Commands) /\ ToSet(rest) = {Done(p) : p \in placed}
  <2>1. \A i \in DOMAIN Installed : Installed[i] \in placed
    BY <1>4 DEF ToSet
  <2>2. \A p \in placed : \E i \in DOMAIN Installed : Installed[i] = p
    BY <1>4 DEF ToSet
  <2>3. ASSUME NEW p \in placed
        PROVE  Done(p) \in Commands
    <3>1. Patch(p) \in {"patch"} \X Locs /\ p \in Locs /\ src[p] \in Data /\ tgt[p] \in Data
      BY <1>5 DEF Patch, Locs
    <3> QED  BY <3>1 DEF ApplyPatch, Commands
  <2>4. DOMAIN Installed = 1..Len(Installed) /\ Len(Installed) \in Nat
    BY <1>4
  <2> HIDE DEF placed, Apply, Done
  <2>5. rest = [i \in DOMAIN Installed |-> Done(Installed[i])]
    BY <1>5, <2>1
  <2>6. rest \in Seq(Commands)
    BY <2>1, <2>3, <2>4, <2>5
  <2>7. ToSet(rest) = {Done(Installed[i]) : i \in DOMAIN Installed}
    BY <2>5 DEF ToSet
  <2> QED  BY <2>1, <2>2, <2>6, <2>7
<1>7. /\ boot \in Seq(Commands)
      /\ ToSet(boot) = IF changed THEN {WriteRawImage("bootloader")} ELSE {}
  <2>1. WriteRawImage("bootloader") \in Commands
    BY DEF WriteRawImage, Commands, RawPlaces
  <2> QED  BY <2>1, ToSetOfShort
<1>8. script' \in Seq(Commands) /\ ToSet(script') = ToSet(boot) \cup {Done(p) : p \in placed}
  <2> HIDE DEF boot, rest, Done, placed
  <2>1. boot \o rest \in Seq(Commands) /\ ToSet(boot \o rest) = ToSet(boot) \cup ToSet(rest)
    BY <1>6, <1>7, ToSetOfConcat
  <2>2. script' = boot \o rest
    BY <1>1
  <2> QED  BY <1>6, <2>1, <2>2
<1>9. /\ DOMAIN zip' = DOMAIN zip \cup (IF changed THEN {Img("bootloader")} ELSE {})
      /\ \A e \in DOMAIN zip : zip'[e] = zip[e]
      /\ changed => zip'[Img("bootloader")] = tgt.bootloader
  <2>1. DOMAIN new = {Img("bootloader")} /\ new[Img("bootloader")] = tgt.bootloader
    OBVIOUS
  <2>2. Img("bootloader") \notin DOMAIN zip
    BY <1>3, NamesDiffer
  <2>3. zip' = IF changed THEN AddedTo(zip, new) ELSE zip
    BY <1>1
  <2> HIDE DEF new, changed
  <2>4. CASE changed
    <3>1. /\ DOMAIN AddedTo(zip, new) = DOMAIN zip \cup DOMAIN new
          /\ \A e \in DOMAIN zip : AddedTo(zip, new)[e] = zip[e]
          /\ \A e \in DOMAIN new \ DOMAIN zip : AddedTo(zip, new)[e] = new[e]
      BY AddedToFacts
    <3> QED  BY <2>1, <2>2, <2>3, <2>4, <3>1
  <2>5. CASE ~changed
    BY <2>3, <2>5
  <2> QED  BY <2>4, <2>5
<1> HIDE DEF new, rest, Apply
<1>10. /\ \A l : File(l) \notin DOMAIN zip' /\ (Img(l) \in DOMAIN zip' => l = "bootloader")
       /\ \A l : Patch(l) \in DOMAIN zip' => Patch(l) \in DOMAIN zip /\ l \in Images
       /\ Img("bootloader") \in DOMAIN zip' => changed
  <2> HIDE DEF changed
  <2>1. \A e \in DOMAIN zip' : e = Img("bootloader") \/ \E p \in Images : e = Patch(p) /\ e \in DOMAIN zip
    BY <1>3, <1>9
  <2>2. Img("bootloader") \notin DOMAIN zip
    BY <1>3, NamesDiffer
  <2>3. Img("bootloader") \in DOMAIN zip' => changed
    BY <1>9, <2>2
  <2>4. \A l : File(l) \notin DOMAIN zip' /\ (Img(l) \in DOMAIN zip' => l = "bootloader")
    BY <2>1, NamesDiffer
  <2>5. \A l : Patch(l) \in DOMAIN zip' => Patch(l) \in DOMAIN zip /\ l \in Images
    BY <2>1, NamesDiffer
  <2> QED  BY <2>3, <2>4, <2>5
<1>11. /\ src' = src /\ tgt' = tgt
       /\ \A l : Was(l)' = Was(l) /\ Want(l)' = Want(l) /\ InPlace(l)' = InPlace(l)
  BY <1>1, SameBuilds
<1>12. /\ \A p \in placed : /\ Done(p).op = "patch" /\ Done(p).at = p
                            /\ Done(p).entry = Patch(p)
                            /\ Done(p).from = src[p] /\ Done(p).to = tgt[p]
       /\ WriteRawImage("bootloader").op = "raw" /\ WriteRawImage("bootloader").at = "bootloader"
  BY DEF ApplyPatch, WriteRawImage
<1> HIDE DEF Done, boot
<1>13. \A f \in Files \ {Capsule} : Want(f) = tgt.bootloader[f]
  BY <1>1, <1>3, HoldsFacts DEF Want
<1>14. tgt.bootloader \in Image
  BY <1>1, <1>3, BuildFacts
<1>15. StateTyped'
  BY <1>1, <1>2 DEF StateTyped, devVars
<1>16. ZipTyped'
  <2>1. DOMAIN zip' \subseteq {Img(p) : p \in RawPlaces} \cup {Patch(l) : l \in Locs}
    BY <1>3, <1>9 DEF RawPlaces, Locs
  <2>2. \A l \in Locs : Patch(l) \in DOMAIN zip' => zip'[Patch(l)] \in Data \X Data
    BY <1>2, <1>9, <1>10 DEF ZipTyped
  <2>3. Img("bootloader") \in DOMAIN zip' => zip'[Img("bootloader")] \in Image
    BY <1>9, <1>10, <1>14
  <2> HIDE DEF changed
  <2> QED  BY <1>1, <1>10, <2>1, <2>2, <2>3, PlacesDiffer DEF ZipTyped
<1>17. ScriptTyped'
  BY <1>7, <1>8, <1>9, <1>12 DEF ScriptTyped
<1>18. ChecksTyped' /\ HooksInv'
  <2>1. DOMAIN zip' \subseteq {Img(p) : p \in Images \cup {"bootloader"}} \cup {Patch(p) : p \in Images}
    BY <1>3, <1>9
  <2> QED  BY <1>1, <1>2, <2>1 DEF MadeInv, ChecksTyped, HooksInv
<1>19. PatchInfoInv'
  BY <1>1, <1>2, <1>9, <1>11 DEF MadeInv, PatchInfoInv
<1>20. OneWay' /\ UsedInv'
  BY <1>10, PlacesDiffer DEF OneWay, UsedInv
<1>21. ZipInv'
  <2>1. \A l \in Locs : Patch(l) \in DOMAIN zip' =>
          l # Capsule /\ InPlace(l) /\ zip'[Patch(l)] = <<Was(l), Want(l)>>
    BY <1>3, <1>9, <1>10 DEF ZipInv
  <2>2. Img("bootloader") \in DOMAIN zip' =>
          \A f \in Files \ {Capsule} : zip'[Img("bootloader")][f] = Want(f)
    BY <1>9, <1>10, <1>13
  <2> HIDE DEF changed
  <2> QED  BY <1>10, <1>11, <2>1, <2>2, PlacesDiffer DEF ZipInv
<1>22. ChecksInv'
  BY <1>1, <1>3, <1>9, <1>11 DEF ChecksInv
<1>23. ScriptInv'
  <2>1. ASSUME NEW p \in placed, NEW c, c = Done(p)
        PROVE  CommandInv(c)'
    <3>1. Was(p) = src[p] /\ Want(p) = tgt[p] /\ InPlace(p) /\ p # Capsule
      BY <1>5, <2>1, HoldsFacts, PlacesDiffer DEF Was, Want, InPlace
    <3>2. /\ c.op = "patch" /\ c.at = p /\ c.entry = Patch(p)
          /\ c.from = src[p] /\ c.to = tgt[p]
      BY <1>12, <2>1
    <3> QED  BY <1>1, <1>5, <1>9, <1>11, <3>1, <3>2 DEF CommandInv
  <2>2. ASSUME NEW c, c.op = "raw"
        PROVE  CommandInv(c)'
    BY <2>2 DEF CommandInv
  <2> QED  BY <1>7, <1>8, <1>12, <2>1, <2>2 DEF ScriptInv
<1>24. CoverInv'
  <2>1. ASSUME NEW p \in placed
        PROVE  Covered(p)'
    <3>1. PICK c \in ToSet(script') : c.op = "patch" /\ c.at = p
      BY <1>8, <1>12
    <3>2. p \in Targets(c)'
      BY <3>1 DEF Targets
    <3> QED  BY <3>1, <3>2 DEF Covered
  <2>2. ASSUME changed
        PROVE  \A f \in Files : Covered(f)'
    <3>1. PICK c \in ToSet(script') : c.op = "raw" /\ c.at = "bootloader"
      BY <1>7, <1>8, <1>12, <2>2
    <3>2. Targets(c)' = Files
      BY <3>1 DEF Targets
    <3> QED  BY <3>1, <3>2 DEF Covered
  <2> QED  BY <1>1, <1>3, <1>11, <2>1, <2>2 DEF CoverInv, SendsFirmware
<1>25. HashesInv' /\ (DOMAIN hashes \subseteq Images \cup {"bootloader"})'
  <2> DEFINE listed == VerifyMultiboot
  <2>1. listed \subseteq Images
    BY <1>3, ImagesAre DEF VerifyMultiboot
  <2>2. hashes' = VerifyData(listed)
    BY <1>1
  <2> HIDE DEF listed
  <2>3. /\ DOMAIN VerifyData(listed) \subseteq Images \cup {"bootloader"}
        /\ \A p \in DOMAIN VerifyData(listed) :
              /\ p \in Images => VerifyData(listed)[p] = tgt[p] /\ tgt[p] # None
              /\ p = "bootloader" =>
                   \A f \in Files \ {Capsule} : VerifyData(listed)[p][f] = Want(f)
    BY <1>1, <1>2, <1>3, <2>1, HashesFacts DEF StateTyped
  <2> QED  BY <1>1, <1>11, <2>2, <2>3 DEF HashesInv
<1>26. MadeInv'
  BY <1>15, <1>16, <1>17, <1>18, <1>19, <1>20, <1>21, <1>22, <1>23, <1>24, <1>25, Zenon
     DEF MadeInv, PackageInv
<1> QED  BY <1>1, <1>3, <1>26, DeviceWaits
-----------------------------------------------------------------------------
(* What the fix-up adds for a variant.                                     *)

Old(v, l) == Holds(src, v)[l]
New(v, l) == Holds(tgt, v)[l]

NamesOf(l) == {Img(l), File(l), Patch(l)}

(* A new entry is of a place the package had nothing for, and only one.    *)
EntryOf(v, P, e, l) ==
  /\ l # Capsule /\ e \in NamesOf(l) /\ NamesOf(l) \cap DOMAIN zip = {}
  /\ e = Img(l) => l = "fwupdate" /\ Patch(l) \notin DOMAIN P.entries
  /\ e = File(l) => l \in Files /\ Patch(l) \notin DOMAIN P.entries
  /\ e = Patch(l) => Old(v, l) \in Data
  /\ New(v, l) \in Data
  /\ P.entries[e] = IF e = Patch(l) THEN <<Old(v, l), New(v, l)>> ELSE New(v, l)
  /\ \E c \in ToSet(P.script) :
       IF e = File(l) THEN c.op = "unpack" ELSE c.op \in {"raw", "patch"} /\ c.at = l

EntryFits(v, P, e) == \E l \in Files \cup {"fwupdate"} : EntryOf(v, P, e, l)

CommandFits(v, P, c) ==
  /\ c.op = "raw" => c.at = "fwupdate" /\ Img("fwupdate") \in DOMAIN P.entries
  /\ c.op = "delete" => \A f \in c.files : New(v, f) = None
  /\ c.op = "patch" => /\ c.at # Capsule
                       /\ c.entry = Patch(c.at) /\ c.entry \in DOMAIN P.entries
                       /\ c.from = Old(v, c.at) /\ c.to = New(v, c.at)
                       /\ PatchCheck(c.at, c.from, c.to) \in P.checks

CheckFits(v, P, c) ==
  /\ c.at \in Locs \ {Capsule} /\ Patch(c.at) \in DOMAIN P.entries
  /\ c.accepts = {Old(v, c.at), New(v, c.at)} /\ c.accepts \subseteq Data
  /\ c.at \in Files => setup.efi

(* What differs is there already, or comes with the patch.                 *)
NothingMissed(v, P) ==
  /\ setup.efi =>
       \A f \in Files \ {Capsule} : Old(v, f) # New(v, f) =>
         \/ {File(f), Patch(f)} \cap (DOMAIN zip \cup DOMAIN P.entries) # {}
         \/ \E c \in ToSet(P.script) : c.op = "delete" /\ f \in c.files
  /\ ~setup.efi /\ Empty \notin {src.fwu[v], tgt.fwu[v]} =>
       {Img("fwupdate"), Patch("fwupdate")} \cap (DOMAIN zip \cup DOMAIN P.entries) # {}

PatchFits(v, P) ==
  /\ P.script \in Seq(Commands)
  /\ \A e \in DOMAIN P.entries : kind = "incremental" /\ EntryFits(v, P, e)
  /\ \A c \in ToSet(P.script) : CommandFits(v, P, c)
  /\ \A c \in P.checks : CheckFits(v, P, c)
  /\ kind = "incremental" => NothingMissed(v, P)

LEMMA NoPatchFits ==
  ASSUME NEW v, NEW P, P = [checks |-> {}, script |-> <<>>, entries |-> NoEntries],
         kind = "incremental" => NothingMissed(v, P)
  PROVE  PatchFits(v, P)
<1>1. P.checks = {} /\ P.script = <<>> /\ DOMAIN P.entries = {}
  BY DEF NoEntries
<1>2. P.script \in Seq(Commands) /\ ToSet(P.script) = {}
  BY <1>1, ToSetOfShort
<1> QED  BY <1>1, <1>2, Zenon DEF PatchFits

(* Firmware that differs is written, or patched with a check.              *)
LEMMA FwuPatchFits ==
  ASSUME MadeInv, kind = "incremental", ~setup.efi, NEW v \in Variants, ~FwuMissing(v)
  PROVE  PatchFits(v, FwuPatch(v))
<1> DEFINE s == src.fwu[v]
           t == tgt.fwu[v]
           P == FwuPatch(v)
           there == Exists(Img("fwupdate"), Patch("fwupdate")) \/ Empty \in {s, t}
<1>1. /\ v # Generic
      /\ Old(v, "fwupdate") = s /\ New(v, "fwupdate") = t
  BY OtaAssumption, HoldsFacts DEF Old, New
<1>2. src \in Build /\ tgt \in Build
  BY SetupFacts DEF MadeInv, StateTyped
<1>3. s \in Data \cup {None, Empty} /\ t \in Data \cup {None, Empty}
  BY <1>2, BuildFacts
<1>4. /\ there => P = [checks |-> {}, script |-> <<>>, entries |-> NoEntries]
      /\ ~there /\ Patchable(s, t) =>
           P = [checks  |-> {PatchCheck("fwupdate", s, t)},
                script  |-> <<ApplyPatch("fwupdate", s, t, Patch("fwupdate"))>>,
                entries |-> [e \in {Patch("fwupdate")} |-> <<s, t>>]]
      /\ ~there /\ ~Patchable(s, t) =>
           P = [checks  |-> {},
                script  |-> <<WriteRawImage("fwupdate")>>,
                entries |-> [e \in {Img("fwupdate")} |-> t]]
  BY Zenon DEF FwuPatch
<1>5. "fwupdate" \in Locs /\ "fwupdate" # Capsule /\ "fwupdate" \notin Files
      /\ "fwupdate" \in RawPlaces
  BY PlacesDiffer DEF Locs, RawPlaces
<1> HIDE DEF P
<1>6. CASE there
  <2>1. NothingMissed(v, P)
    BY <1>6 DEF NothingMissed, Exists
  <2> QED  BY <1>4, <1>6, <2>1, NoPatchFits DEF P
<1>7. ASSUME ~there
      PROVE  s \in Data /\ t \in Data /\ NamesOf("fwupdate") \cap DOMAIN zip = {}
  <2>1. s # None /\ t # None
    BY <1>7 DEF FwuMissing
  <2>2. Img("fwupdate") \notin DOMAIN zip /\ Patch("fwupdate") \notin DOMAIN zip
    BY <1>7 DEF Exists
  <2>3. File("fwupdate") \notin DOMAIN zip
    BY <1>5, NamesDiffer DEF MadeInv, ZipTyped
  <2> QED  BY <1>3, <1>7, <2>1, <2>2, <2>3 DEF NamesOf
<1>8. CASE ~there /\ Patchable(s, t)
  <2> DEFINE c == ApplyPatch("fwupdate", s, t, Patch("fwupdate"))
             k == PatchCheck("fwupdate", s, t)
  <2>1. /\ P.checks = {k} /\ P.script = <<c>> /\ DOMAIN P.entries = {Patch("fwupdate")}
        /\ P.entries[Patch("fwupdate")] = <<s, t>>
    BY <1>4, <1>8
  <2>2. /\ c.op = "patch" /\ c.at = "fwupdate" /\ c.entry = Patch("fwupdate")
        /\ c.from = s /\ c.to = t /\ k.at = "fwupdate" /\ k.accepts = {s, t}
    BY DEF ApplyPatch, PatchCheck
  <2>3. c \in Commands
    <3>1. Patch("fwupdate") \in {"patch"} \X Locs
      BY <1>5 DEF Patch
    <3> QED  BY <1>5, <1>7, <1>8, <3>1 DEF ApplyPatch, Commands
  <2> HIDE DEF c
  <2>4. P.script \in Seq(Commands) /\ ToSet(P.script) = {c}
    BY <2>1, <2>3, ToSetOfShort
  <2>5. EntryFits(v, P, Patch("fwupdate"))
    <3>1. Patch("fwupdate") # Img("fwupdate") /\ Patch("fwupdate") # File("fwupdate")
      BY NamesDiffer
    <3> QED  BY <1>1, <1>5, <1>7, <1>8, <2>1, <2>2, <2>4, <3>1 DEF EntryFits, EntryOf, NamesOf
  <2>6. CommandFits(v, P, c)
    BY <1>1, <1>5, <2>1, <2>2 DEF CommandFits
  <2>7. CheckFits(v, P, k)
    BY <1>1, <1>5, <1>7, <1>8, <2>1, <2>2 DEF CheckFits
  <2>8. NothingMissed(v, P)
    BY <2>1 DEF NothingMissed
  <2>9. /\ \A e \in DOMAIN P.entries : EntryFits(v, P, e)
        /\ \A d \in ToSet(P.script) : CommandFits(v, P, d)
        /\ \A d \in P.checks : CheckFits(v, P, d)
    <3> HIDE DEF k
    <3> QED  BY <2>1, <2>4, <2>5, <2>6, <2>7
  <2> QED  BY <2>4, <2>8, <2>9, Zenon DEF PatchFits, P
<1>9. CASE ~there /\ ~Patchable(s, t)
  <2> DEFINE c == WriteRawImage("fwupdate")
  <2>1. /\ P.checks = {} /\ P.script = <<c>> /\ DOMAIN P.entries = {Img("fwupdate")}
        /\ P.entries[Img("fwupdate")] = t
    BY <1>4, <1>9
  <2>2. c.op = "raw" /\ c.at = "fwupdate" /\ c \in Commands
    BY <1>5 DEF WriteRawImage, Commands
  <2> HIDE DEF c
  <2>4. P.script \in Seq(Commands) /\ ToSet(P.script) = {c}
    BY <2>1, <2>2, ToSetOfShort
  <2>5. EntryFits(v, P, Img("fwupdate"))
    <3>1. Patch("fwupdate") # Img("fwupdate") /\ Img("fwupdate") # File("fwupdate")
      BY NamesDiffer
    <3> QED  BY <1>1, <1>5, <1>7, <1>9, <2>1, <2>2, <2>4, <3>1 DEF EntryFits, EntryOf, NamesOf
  <2>6. CommandFits(v, P, c)
    BY <2>1, <2>2 DEF CommandFits
  <2>8. NothingMissed(v, P)
    BY <2>1 DEF NothingMissed
  <2>9. /\ \A e \in DOMAIN P.entries : EntryFits(v, P, e)
        /\ \A d \in ToSet(P.script) : CommandFits(v, P, d)
        /\ \A d \in P.checks : CheckFits(v, P, d)
    BY <2>1, <2>4, <2>5, <2>6
  <2> QED  BY <2>4, <2>8, <2>9, Zenon DEF PatchFits, P
<1> QED  BY <1>6, <1>8, <1>9 DEF P
(* Files that differ are deleted, patched with a check, or sent.           *)
LEMMA BootloaderPatchFits ==
  ASSUME MadeInv, kind = "incremental", setup.efi, NEW v \in Variants
  PROVE  PatchFits(v, BootloaderPatch(v))
<1> DEFINE s == LoadBootloaderFiles(src, v)
           t == LoadBootloaderFiles(tgt, v)
           new      == {f \in Files : /\ t[f] # None /\ s[f] # t[f]
                                      /\ ~Exists(File(f), Patch(f))}
           verbatim == {f \in new : s[f] = None \/ ~Patchable(s[f], t[f])}
           patched  == new \ verbatim
           deleted  == {f \in Files : s[f] # None /\ t[f] = None}
           order    == SetToSeq(patched)
           Apply(f) == ApplyPatch(f, s[f], t[f], Patch(f))
           del  == IF deleted = {} THEN <<>> ELSE <<DeleteFiles(deleted)>>
           rest == [i \in DOMAIN order |-> Apply(order[i])]
           unp  == IF verbatim = {} THEN <<>> ELSE <<UnpackPackageDir>>
           sent == [e \in {File(f) : f \in verbatim} |-> t[e[2]]]
           diff == [e \in {Patch(f) : f \in patched} |-> <<s[e[2]], t[e[2]]>>]
           P    == BootloaderPatch(v)
<1>1. P = [checks  |-> {PatchCheck(f, s[f], t[f]) : f \in patched},
           script  |-> del \o rest \o unp,
           entries |-> AddedTo(sent, diff)]
  BY Zenon DEF BootloaderPatch
<1>2. src \in Build /\ tgt \in Build
  BY SetupFacts DEF MadeInv, StateTyped
<1>3. \A f \in Files : s[f] = Old(v, f) /\ t[f] = New(v, f)
  BY <1>2, LoadedFiles DEF Old, New
<1>4. ASSUME NEW f \in Files
      PROVE  s[f] \in Data \cup {None} /\ t[f] \in Data \cup {None} /\ s[Capsule] = None /\ t[Capsule] = None
  <2>1. src.vboot[v] \in [Files -> Data \cup {None}] /\ tgt.vboot[v] \in [Files -> Data \cup {None}]
    BY <1>2, BuildFacts DEF Image
  <2> QED  BY <2>1, OtaAssumption DEF LoadBootloaderFiles
<1> HIDE DEF s, t, P
<1>5. \A f \in new : /\ f \in Files /\ f # Capsule /\ t[f] \in Data /\ s[f] # t[f]
                     /\ f \in Locs /\ NamesOf(f) \cap DOMAIN zip = {}
  <2>1. ASSUME NEW f \in Files
        PROVE  Img(f) \notin DOMAIN zip
    <3>1. f \notin RawPlaces
      BY PlacesDiffer DEF RawPlaces
    <3>2. \A e \in DOMAIN zip : \/ \E p \in RawPlaces : e = Img(p)
                                \/ \E g \in Files : e = File(g)
                                \/ \E l \in Locs : e = Patch(l)
      BY Zenon DEF MadeInv, ZipTyped
    <3>3. /\ \A p : Img(f) = Img(p) => f = p
          /\ \A x : Img(f) # File(x) /\ Img(f) # Patch(x)
      BY NamesDiffer, Zenon
    <3> QED  BY <3>1, <3>2, <3>3, Zenon
  <2> QED  BY <1>4, <2>1 DEF Exists, NamesOf, Locs
<1>6. \A f \in patched : s[f] \in Data
  BY <1>4
<1>7. \A f \in deleted : f # Capsule /\ t[f] = None
  BY <1>4
<1>8. \A f \in Files \ {Capsule} : s[f] # t[f] =>
        f \in verbatim \/ f \in patched \/ f \in deleted \/ Exists(File(f), Patch(f))
  BY <1>4
<1>9. verbatim \subseteq new /\ patched \subseteq new /\ verbatim \cap patched = {}
      /\ deleted \subseteq Files
  OBVIOUS
<1>10. order \in Seq(patched) /\ ToSet(order) = patched
  <2>1. IsFiniteSet(patched)
    BY OtaAssumption, FS_Subset
  <2> HIDE DEF patched
  <2> QED  BY <2>1, SetToSeqFacts
<1> HIDE DEF new, verbatim, patched, deleted, order
<1>11. /\ DOMAIN P.entries = {File(f) : f \in verbatim} \cup {Patch(f) : f \in patched}
       /\ \A f \in verbatim : P.entries[File(f)] = t[f]
       /\ \A f \in patched : P.entries[Patch(f)] = <<s[f], t[f]>>
  <2>1. /\ DOMAIN sent = {File(f) : f \in verbatim}
        /\ \A e \in DOMAIN sent : sent[e] = t[e[2]]
        /\ DOMAIN diff = {Patch(f) : f \in patched}
        /\ \A e \in DOMAIN diff : diff[e] = <<s[e[2]], t[e[2]]>>
    OBVIOUS
  <2>2. P.entries = AddedTo(sent, diff)
    BY <1>1
  <2> HIDE DEF sent, diff
  <2>3. /\ DOMAIN AddedTo(sent, diff) = DOMAIN sent \cup DOMAIN diff
        /\ \A e \in DOMAIN sent : AddedTo(sent, diff)[e] = sent[e]
        /\ \A e \in DOMAIN diff \ DOMAIN sent : AddedTo(sent, diff)[e] = diff[e]
    BY AddedToFacts
  <2>4. \A f \in patched : Patch(f) \in DOMAIN diff \ DOMAIN sent
    BY <2>1, NamesDiffer
  <2>5. \A f \in verbatim : File(f) \in DOMAIN sent
    BY <2>1
  <2>6. \A f \in verbatim : P.entries[File(f)] = t[f]
    BY <2>1, <2>2, <2>3, <2>5, NameParts
  <2>7. \A f \in patched : P.entries[Patch(f)] = <<s[f], t[f]>>
    BY <2>1, <2>2, <2>3, <2>4, NameParts
  <2> QED  BY <2>1, <2>2, <2>3, <2>6, <2>7
<1>12. P.checks = {PatchCheck(f, s[f], t[f]) : f \in patched} /\ P.script = (del \o rest) \o unp
  BY <1>1
<1>13. del \in Seq(Commands)
       /\ ToSet(del) = IF deleted = {} THEN {} ELSE {DeleteFiles(deleted)}
  <2>1. DeleteFiles(deleted) \in Commands
    BY <1>9 DEF DeleteFiles, Commands
  <2> QED  BY <2>1, ToSetOfShort
<1>14. unp \in Seq(Commands)
       /\ ToSet(unp) = IF verbatim = {} THEN {} ELSE {UnpackPackageDir}
  <2>1. UnpackPackageDir \in Commands
    BY DEF UnpackPackageDir, Commands
  <2> QED  BY <2>1, ToSetOfShort
<1>15. rest \in Seq(Commands) /\ ToSet(rest) = {Apply(f) : f \in patched}
  <2>1. ASSUME NEW f \in patched
        PROVE  Apply(f) \in Commands
    <3>1. f \in Locs /\ s[f] \in Data /\ t[f] \in Data
      BY <1>5, <1>6, <1>9
    <3>2. Patch(f) \in {"patch"} \X Locs
      BY <3>1 DEF Patch
    <3> QED  BY <3>1, <3>2 DEF ApplyPatch, Commands
  <2>2. /\ DOMAIN order = 1..Len(order) /\ Len(order) \in Nat
        /\ \A i \in DOMAIN order : order[i] \in patched
    BY <1>10
  <2>3. \A f \in patched : \E i \in DOMAIN order : order[i] = f
    BY <1>10 DEF ToSet
  <2> HIDE DEF Apply
  <2>4. rest \in Seq(Commands)
    BY <2>1, <2>2
  <2>5. ToSet(rest) = {Apply(order[i]) : i \in DOMAIN order}
    BY DEF ToSet
  <2> QED  BY <2>2, <2>3, <2>4, <2>5
<1> HIDE DEF del, rest, unp, sent, diff
<1>16. /\ P.script \in Seq(Commands)
       /\ ToSet(P.script) = ToSet(del) \cup {Apply(f) : f \in patched} \cup ToSet(unp)
  <2> HIDE DEF Apply
  <2>1. del \o rest \in Seq(Commands) /\ ToSet(del \o rest) = ToSet(del) \cup ToSet(rest)
    BY <1>13, <1>15, ToSetOfConcat
  <2> DEFINE both == del \o rest
  <2>2. both \in Seq(Commands) /\ P.script = both \o unp
    BY <1>12, <2>1
  <2> HIDE DEF both
  <2>3. both \o unp \in Seq(Commands) /\ ToSet(both \o unp) = ToSet(both) \cup ToSet(unp)
    BY <1>14, <2>2, ToSetOfConcat
  <2> QED  BY <1>15, <2>1, <2>2, <2>3 DEF both
<1>17. /\ \A f \in patched : /\ Apply(f).op = "patch" /\ Apply(f).at = f
                             /\ Apply(f).entry = Patch(f)
                             /\ Apply(f).from = s[f] /\ Apply(f).to = t[f]
       /\ UnpackPackageDir.op = "unpack"
       /\ DeleteFiles(deleted).op = "delete" /\ DeleteFiles(deleted).files = deleted
  BY DEF ApplyPatch, UnpackPackageDir, DeleteFiles
<1> HIDE DEF Apply
<1>18. ASSUME NEW e \in DOMAIN P.entries
       PROVE  EntryFits(v, P, e)
  <2>1. ASSUME NEW f \in verbatim, e = File(f)
        PROVE  EntryFits(v, P, e)
    <3>1. e # Img(f) /\ e # Patch(f) /\ Patch(f) \notin DOMAIN P.entries
      BY <1>9, <1>11, <2>1, NamesDiffer
    <3>2. \E c \in ToSet(P.script) : c.op = "unpack"
      BY <1>14, <1>16, <1>17
    <3>3. f \in Files \ {Capsule} /\ NamesOf(f) \cap DOMAIN zip = {} /\ e \in NamesOf(f)
          /\ New(v, f) \in Data /\ P.entries[e] = New(v, f)
      BY <1>3, <1>5, <1>9, <1>11, <2>1 DEF NamesOf
    <3> QED  BY <2>1, <3>1, <3>2, <3>3 DEF EntryFits, EntryOf
  <2>2. ASSUME NEW f \in patched, e = Patch(f)
        PROVE  EntryFits(v, P, e)
    <3>1. e # Img(f) /\ e # File(f)
      BY <2>2, NamesDiffer
    <3>2. \E c \in ToSet(P.script) : c.op \in {"raw", "patch"} /\ c.at = f
      BY <1>16, <1>17
    <3>3. f \in Files \ {Capsule} /\ NamesOf(f) \cap DOMAIN zip = {} /\ e \in NamesOf(f)
          /\ Old(v, f) \in Data /\ New(v, f) \in Data /\ P.entries[e] = <<Old(v, f), New(v, f)>>
      BY <1>3, <1>5, <1>6, <1>9, <1>11, <2>2 DEF NamesOf
    <3> QED  BY <2>2, <3>1, <3>2, <3>3 DEF EntryFits, EntryOf
  <2> QED  BY <1>11, <2>1, <2>2
<1>19. ASSUME NEW c \in ToSet(P.script)
       PROVE  CommandFits(v, P, c)
  <2>1. ASSUME NEW f \in patched, c = Apply(f)
        PROVE  CommandFits(v, P, c)
    <3>1. f # Capsule /\ Patch(f) \in DOMAIN P.entries /\ s[f] = Old(v, f) /\ t[f] = New(v, f)
          /\ PatchCheck(f, s[f], t[f]) \in P.checks
      BY <1>3, <1>5, <1>9, <1>11, <1>12
    <3> QED  BY <1>17, <2>1, <3>1 DEF CommandFits
  <2>2. ASSUME c = DeleteFiles(deleted)
        PROVE  CommandFits(v, P, c)
    BY <1>3, <1>7, <1>9, <1>17, <2>2 DEF CommandFits
  <2>3. ASSUME c = UnpackPackageDir
        PROVE  CommandFits(v, P, c)
    BY <1>17, <2>3 DEF CommandFits
  <2> QED  BY <1>13, <1>14, <1>16, <2>1, <2>2, <2>3
<1>20. ASSUME NEW c \in P.checks
       PROVE  CheckFits(v, P, c)
  <2>1. PICK f \in patched : c = PatchCheck(f, s[f], t[f])
    BY <1>12
  <2>2. c.at = f /\ c.accepts = {s[f], t[f]}
    BY <2>1 DEF PatchCheck
  <2> QED  BY <1>3, <1>5, <1>6, <1>9, <1>11, <2>2 DEF CheckFits
<1>21. NothingMissed(v, P)
  <2>1. ASSUME NEW f \in Files \ {Capsule}, Old(v, f) # New(v, f)
        PROVE  \/ {File(f), Patch(f)} \cap (DOMAIN zip \cup DOMAIN P.entries) # {}
               \/ \E c \in ToSet(P.script) : c.op = "delete" /\ f \in c.files
    <3>1. CASE f \in verbatim \/ f \in patched
      BY <1>11, <3>1
    <3>2. CASE f \in deleted
      BY <1>13, <1>16, <1>17, <3>2
    <3>3. CASE Exists(File(f), Patch(f))
      BY <3>3 DEF Exists
    <3> QED  BY <1>3, <1>8, <2>1, <3>1, <3>2, <3>3
  <2> QED  BY <2>1 DEF NothingMissed
<1> QED  BY <1>16, <1>18, <1>19, <1>20, <1>21, Zenon DEF PatchFits, P

LEMMA VariantPatchFits ==
  ASSUME MadeInv, NEW v \in Variants, ~FwuMissing(v)
  PROVE  PatchFits(v, VariantPatch(v))
<1>1. setup.efi \in BOOLEAN /\ kind \in {"full", "incremental"}
  BY SetupFacts DEF MadeInv, StateTyped
<1>2. CASE kind = "full"
  <2>1. VariantPatch(v) = [checks |-> {}, script |-> <<>>, entries |-> NoEntries]
    BY <1>2 DEF VariantPatch
  <2> QED  BY <1>2, <2>1, NoPatchFits
<1>3. CASE kind = "incremental" /\ setup.efi
  <2>1. VariantPatch(v) = BootloaderPatch(v)
    BY <1>3 DEF VariantPatch
  <2> QED  BY <1>3, <2>1, BootloaderPatchFits
<1>4. CASE kind = "incremental" /\ ~setup.efi
  <2>1. VariantPatch(v) = FwuPatch(v)
    BY <1>4 DEF VariantPatch
  <2> QED  BY <1>4, <2>1, FwuPatchFits
<1> QED  BY <1>1, <1>2, <1>3, <1>4
-----------------------------------------------------------------------------
(* The fix-up.                                                             *)

(* The package grows, and images are replaced by those of the variant.     *)
LEMMA FixupZip ==
  ASSUME MadeInv, NEW v \in Variants, Fixup(v)
  PROVE  LET P == VariantPatch(v)
         IN  /\ DOMAIN zip' = DOMAIN zip \cup DOMAIN P.entries
             /\ \A e \in DOMAIN P.entries : zip'[e] = P.entries[e]
             /\ \A e \in DOMAIN zip \ {Img("bootloader"), Img("fwupdate")} : zip'[e] = zip[e]
             /\ Img("bootloader") \in DOMAIN zip => zip'[Img("bootloader")] = tgt.vboot[v]
             /\ Img("fwupdate") \in DOMAIN zip =>
                  zip'[Img("fwupdate")] = IF setup.efi THEN zip[Img("fwupdate")] ELSE tgt.fwu[v]
<1> DEFINE P == VariantPatch(v)
           old == Replaced(v)
           new == P.entries
<1>1. zip' = AddedTo(old, new) /\ PatchFits(v, P)
  BY VariantPatchFits DEF Fixup
<1>2. \A e \in DOMAIN new : e \notin DOMAIN zip
  BY <1>1 DEF PatchFits, EntryFits, EntryOf, NamesOf
<1>3. /\ DOMAIN old = DOMAIN zip
      /\ \A e \in DOMAIN zip : old[e] = IF e = Img("bootloader") THEN tgt.vboot[v]
                                        ELSE IF e = Img("fwupdate") /\ ~setup.efi
                                             THEN tgt.fwu[v] ELSE zip[e]
  BY DEF Replaced
<1>4. Img("bootloader") # Img("fwupdate")
  BY NamesDiffer
<1>5. setup.efi \in BOOLEAN
  BY SetupFacts DEF MadeInv, StateTyped
<1> HIDE DEF P, old, new
<1>6. /\ DOMAIN AddedTo(old, new) = DOMAIN old \cup DOMAIN new
      /\ \A e \in DOMAIN old : AddedTo(old, new)[e] = old[e]
      /\ \A e \in DOMAIN new \ DOMAIN old : AddedTo(old, new)[e] = new[e]
  BY AddedToFacts
<1>7. /\ DOMAIN zip' = DOMAIN zip \cup DOMAIN new
      /\ \A e \in DOMAIN new : zip'[e] = new[e]
      /\ \A e \in DOMAIN zip : zip'[e] = old[e]
  BY <1>1, <1>2, <1>3, <1>6
<1> QED  BY <1>3, <1>4, <1>5, <1>7 DEF P, new

LEMMA FixupTypes ==
  ASSUME MadeInv, NEW v \in Variants, Fixup(v)
  PROVE  StateTyped' /\ ZipTyped' /\ ScriptTyped' /\ ChecksTyped'
<1> DEFINE P == VariantPatch(v)
<1>1. /\ pc = "made" /\ dpc = "none" /\ Len(fixed) < MaxFixups /\ ~FwuMissing(v)
      /\ checks' = checks \cup P.checks /\ script' = P.script \o script
      /\ device' = (IF device = Generic THEN v ELSE device)
      /\ fixed' = Append(fixed, v)
      /\ UNCHANGED <<setup, kind, pc, patchinfo, devVars>>
  BY DEF Fixup
<1>2. PatchFits(v, P)
  BY <1>1, VariantPatchFits
<1>3. /\ DOMAIN zip' = DOMAIN zip \cup DOMAIN P.entries
      /\ \A e \in DOMAIN P.entries : zip'[e] = P.entries[e]
      /\ \A e \in DOMAIN zip \ {Img("bootloader"), Img("fwupdate")} : zip'[e] = zip[e]
      /\ Img("bootloader") \in DOMAIN zip => zip'[Img("bootloader")] = tgt.vboot[v]
      /\ Img("fwupdate") \in DOMAIN zip =>
           zip'[Img("fwupdate")] = IF setup.efi THEN zip[Img("fwupdate")] ELSE tgt.fwu[v]
  BY FixupZip, Zenon
<1> HIDE DEF P
<1>4. StateTyped /\ ZipTyped /\ ScriptTyped /\ ChecksTyped
  BY DEF MadeInv
<1>5. tgt \in Build /\ setup.efi \in BOOLEAN
  BY <1>4, SetupFacts DEF StateTyped
<1>6. StateTyped'
  <2>1. fixed \in Seq(Variants) /\ Len(fixed) \in Nat /\ Len(fixed) <= MaxFixups
    BY <1>4 DEF StateTyped
  <2>2. fixed' \in Seq(Variants) /\ Len(fixed') <= MaxFixups /\ fixed' # <<>>
    BY <1>1, <2>1, OtaAssumption
  <2>3. fixed'[1] = IF fixed = <<>> THEN v ELSE fixed[1]
    BY <1>1, <2>1
  <2>4. fixed # <<>> => fixed[1] \in Variants
    BY <2>1
  <2>5. device' = fixed'[1]
    BY <1>1, <1>4, <2>3, <2>4, OtaAssumption DEF StateTyped
  <2> QED  BY <1>1, <1>4, <2>2, <2>5 DEF StateTyped, devVars
<1>7. ZipTyped'
  <2>1. ASSUME NEW e \in DOMAIN P.entries
        PROVE  \E l \in Files \cup {"fwupdate"} :
                 \/ e = Img(l) /\ l = "fwupdate" /\ zip'[e] \in Data
                 \/ e = File(l) /\ l \in Files /\ zip'[e] \in Data
                 \/ e = Patch(l) /\ zip'[e] \in Data \X Data
    <3>1. EntryFits(v, P, e)
      BY <1>2 DEF PatchFits
    <3>2. PICK l \in Files \cup {"fwupdate"} : EntryOf(v, P, e, l)
      BY <3>1 DEF EntryFits
    <3> QED  BY <1>3, <3>2, NamesDiffer DEF EntryOf, NamesOf
  <2>2. DOMAIN zip' \subseteq {Img(p) : p \in RawPlaces} \cup {File(f) : f \in Files}
                              \cup {Patch(l) : l \in Locs}
    <3>1. DOMAIN P.entries \subseteq {Img(p) : p \in RawPlaces} \cup {File(f) : f \in Files}
                                     \cup {Patch(l) : l \in Locs}
      BY <2>1 DEF RawPlaces, Locs
    <3> QED  BY <1>3, <1>4, <3>1 DEF ZipTyped
  <2>3. ASSUME NEW p \in Images \cup {"fwupdate"}, Img(p) \in DOMAIN zip'
        PROVE  zip'[Img(p)] \in Data \cup {Empty}
    <3>1. CASE Img(p) \in DOMAIN P.entries
      BY <2>1, <3>1, NamesDiffer
    <3>2. CASE Img(p) \in DOMAIN zip /\ p \in Images
      <4>1. p # "bootloader" /\ p # "fwupdate"
        BY <3>2, PlacesDiffer
      <4>2. Img(p) # Img("bootloader") /\ Img(p) # Img("fwupdate")
        BY <4>1, NamesDiffer
      <4> QED  BY <1>3, <1>4, <3>2, <4>2 DEF ZipTyped
    <3>3. CASE Img(p) \in DOMAIN zip /\ p = "fwupdate" /\ setup.efi
      BY <1>3, <1>4, <3>3 DEF ZipTyped
    <3>4. CASE Img(p) \in DOMAIN zip /\ p = "fwupdate" /\ ~setup.efi
      <4>1. kind = "incremental"
        <5>1. ASSUME kind = "full"
              PROVE  FALSE
          <6>1. Img("fwupdate") \in {Img(q) : q \in Images \cup {"bootloader"}}
            BY <1>4, <3>4, <5>1 DEF ZipTyped
          <6>2. "fwupdate" \in Images \cup {"bootloader"}
            BY <6>1, NamesDiffer
          <6> QED  BY <6>2, PlacesDiffer
        <5> QED  BY <1>4, <5>1 DEF StateTyped
      <4>2. tgt.fwu[v] # None
        BY <1>1, <3>4, <4>1 DEF FwuMissing, Exists
      <4> QED  BY <1>3, <1>5, <3>4, <4>2, BuildFacts
    <3> QED  BY <1>3, <1>5, <2>3, <3>1, <3>2, <3>3, <3>4
  <2>4. ASSUME Img("bootloader") \in DOMAIN zip'
        PROVE  zip'[Img("bootloader")] \in Image
    <3>1. Img("bootloader") \notin DOMAIN P.entries
      BY <2>1, NamesDiffer
    <3> QED  BY <1>3, <1>5, <2>4, <3>1, BuildFacts
  <2>5. ASSUME NEW f \in Files, File(f) \in DOMAIN zip'
        PROVE  zip'[File(f)] \in Data
    <3>1. CASE File(f) \in DOMAIN P.entries
      BY <2>1, <3>1, NamesDiffer
    <3>2. CASE File(f) \in DOMAIN zip
      <4>1. File(f) # Img("bootloader") /\ File(f) # Img("fwupdate")
        BY NamesDiffer
      <4> QED  BY <1>3, <1>4, <3>2, <4>1 DEF ZipTyped
    <3> QED  BY <1>3, <2>5, <3>1, <3>2
  <2>6. ASSUME NEW l \in Locs, Patch(l) \in DOMAIN zip'
        PROVE  zip'[Patch(l)] \in Data \X Data
    <3>1. CASE Patch(l) \in DOMAIN P.entries
      BY <2>1, <3>1, NamesDiffer
    <3>2. CASE Patch(l) \in DOMAIN zip
      <4>1. Patch(l) # Img("bootloader") /\ Patch(l) # Img("fwupdate")
        BY NamesDiffer
      <4> QED  BY <1>3, <1>4, <3>2, <4>1 DEF ZipTyped
    <3> QED  BY <1>3, <2>6, <3>1, <3>2
  <2>7. kind' = "full" => DOMAIN zip' \subseteq {Img(p) : p \in Images \cup {"bootloader"}}
    BY <1>1, <1>2, <1>3, <1>4 DEF ZipTyped, PatchFits
  <2> QED  BY <2>2, <2>3, <2>4, <2>5, <2>6, <2>7, Zenon DEF ZipTyped
<1>8. ScriptTyped'
  <2>1. script' \in Seq(Commands) /\ ToSet(script') = ToSet(P.script) \cup ToSet(script)
    BY <1>1, <1>2, <1>4, ToSetOfConcat DEF PatchFits, ScriptTyped
  <2>2. ASSUME NEW c \in ToSet(P.script), c.op = "raw"
        PROVE  Img(c.at) \in DOMAIN zip'
    <3>1. CommandFits(v, P, c)
      BY <1>2 DEF PatchFits
    <3> QED  BY <1>3, <2>2, <3>1 DEF CommandFits
  <2> QED  BY <1>3, <1>4, <2>1, <2>2 DEF ScriptTyped
<1>9. ChecksTyped'
  <2>1. \A c \in P.checks : c.at \in Locs /\ c.accepts \subseteq Data
    BY <1>2 DEF PatchFits, CheckFits
  <2> QED  BY <1>1, <1>4, <2>1 DEF ChecksTyped
<1> QED  BY <1>6, <1>7, <1>8, <1>9
(* What was right of the package for its variant is right of it still, and *)
(* what comes is right of the variant.                                     *)
LEMMA FixupStep ==
  ASSUME OtaInv, NEW v \in Variants, Fixup(v)
  PROVE  OtaInv'
<1> DEFINE P == VariantPatch(v)
<1>1. /\ pc = "made" /\ dpc = "none" /\ ~FwuMissing(v)
      /\ checks' = checks \cup P.checks /\ script' = P.script \o script
      /\ hashes' = process_hashfile(v)
      /\ device' = (IF device = Generic THEN v ELSE device)
      /\ fixed' = Append(fixed, v)
      /\ UNCHANGED <<setup, kind, pc, patchinfo, devVars>>
  BY DEF Fixup
<1>2. /\ MadeInv /\ StateTyped /\ ZipTyped /\ ScriptTyped
      /\ StateTyped' /\ ZipTyped' /\ ScriptTyped' /\ ChecksTyped'
  BY FixupTypes DEF OtaInv, MadeInv
<1>3. PatchFits(v, P)
  BY <1>1, <1>2, VariantPatchFits
<1>4. /\ DOMAIN zip' = DOMAIN zip \cup DOMAIN P.entries
      /\ \A e \in DOMAIN P.entries : zip'[e] = P.entries[e]
      /\ \A e \in DOMAIN zip \ {Img("bootloader"), Img("fwupdate")} : zip'[e] = zip[e]
      /\ Img("bootloader") \in DOMAIN zip => zip'[Img("bootloader")] = tgt.vboot[v]
      /\ Img("fwupdate") \in DOMAIN zip =>
           zip'[Img("fwupdate")] = IF setup.efi THEN zip[Img("fwupdate")] ELSE tgt.fwu[v]
  BY <1>2, FixupZip, Zenon
<1> HIDE DEF P
<1>5. setup.efi \in BOOLEAN /\ setup.fstab \subseteq Images
  BY <1>2, SetupFacts DEF StateTyped
<1>6. ToSet(script') = ToSet(P.script) \cup ToSet(script)
  BY <1>1, <1>2, <1>3, ToSetOfConcat DEF PatchFits, ScriptTyped
<1>7. src' = src /\ tgt' = tgt
  BY <1>1 DEF src, tgt
<1>8. \A l \in Files \cup {"fwupdate"} :
        /\ Img(l) \in DOMAIN P.entries =>
             /\ l = "fwupdate" /\ NamesOf(l) \cap DOMAIN zip = {}
             /\ Patch(l) \notin DOMAIN P.entries
             /\ P.entries[Img(l)] = New(v, l)
             /\ \E c \in ToSet(P.script) : c.op \in {"raw", "patch"} /\ c.at = l
        /\ File(l) \in DOMAIN P.entries =>
             /\ l \in Files \ {Capsule} /\ NamesOf(l) \cap DOMAIN zip = {}
             /\ Patch(l) \notin DOMAIN P.entries
             /\ P.entries[File(l)] = New(v, l)
             /\ \E c \in ToSet(P.script) : c.op = "unpack"
        /\ Patch(l) \in DOMAIN P.entries =>
             /\ l # Capsule /\ NamesOf(l) \cap DOMAIN zip = {}
             /\ P.entries[Patch(l)] = <<Old(v, l), New(v, l)>>
             /\ \E c \in ToSet(P.script) : c.op \in {"raw", "patch"} /\ c.at = l
  <2>1. ASSUME NEW l \in Files \cup {"fwupdate"}, NEW e \in DOMAIN P.entries, e \in NamesOf(l)
        PROVE  EntryOf(v, P, e, l)
    <3>1. PICK k \in Files \cup {"fwupdate"} : EntryOf(v, P, e, k)
      BY <1>3 DEF PatchFits, EntryFits
    <3>2. k = l
      BY <2>1, <3>1, NamesDiffer DEF EntryOf, NamesOf
    <3> QED  BY <3>1, <3>2
  <2>2. ASSUME NEW l \in Files \cup {"fwupdate"}, Img(l) \in DOMAIN P.entries
        PROVE  /\ l = "fwupdate" /\ NamesOf(l) \cap DOMAIN zip = {}
               /\ Patch(l) \notin DOMAIN P.entries
               /\ P.entries[Img(l)] = New(v, l)
               /\ \E c \in ToSet(P.script) : c.op \in {"raw", "patch"} /\ c.at = l
    <3> DEFINE e == Img(l)
    <3>1. e \in DOMAIN P.entries /\ e \in NamesOf(l)
      BY <2>2 DEF NamesOf
    <3>2. e # File(l) /\ e # Patch(l) /\ e = Img(l)
      BY NamesDiffer
    <3> HIDE DEF e
    <3>3. EntryOf(v, P, e, l)
      BY <2>1, <3>1
    <3> QED  BY <3>2, <3>3 DEF EntryOf
  <2>3. ASSUME NEW l \in Files \cup {"fwupdate"}, File(l) \in DOMAIN P.entries
        PROVE  /\ l \in Files \ {Capsule} /\ NamesOf(l) \cap DOMAIN zip = {}
               /\ Patch(l) \notin DOMAIN P.entries
               /\ P.entries[File(l)] = New(v, l)
               /\ \E c \in ToSet(P.script) : c.op = "unpack"
    <3> DEFINE e == File(l)
    <3>1. e \in DOMAIN P.entries /\ e \in NamesOf(l)
      BY <2>3 DEF NamesOf
    <3>2. e # Img(l) /\ e # Patch(l) /\ e = File(l)
      BY NamesDiffer
    <3> HIDE DEF e
    <3>3. EntryOf(v, P, e, l)
      BY <2>1, <3>1
    <3> QED  BY <3>2, <3>3 DEF EntryOf
  <2>4. ASSUME NEW l \in Files \cup {"fwupdate"}, Patch(l) \in DOMAIN P.entries
        PROVE  /\ l # Capsule /\ NamesOf(l) \cap DOMAIN zip = {}
               /\ P.entries[Patch(l)] = <<Old(v, l), New(v, l)>>
               /\ \E c \in ToSet(P.script) : c.op \in {"raw", "patch"} /\ c.at = l
    <3> DEFINE e == Patch(l)
    <3>1. e \in DOMAIN P.entries /\ e \in NamesOf(l)
      BY <2>4 DEF NamesOf
    <3>2. e # Img(l) /\ e # File(l) /\ e = Patch(l)
      BY NamesDiffer
    <3> HIDE DEF e
    <3>3. EntryOf(v, P, e, l)
      BY <2>1, <3>1
    <3> QED  BY <3>2, <3>3 DEF EntryOf
  <2> QED  BY <2>2, <2>3, <2>4
<1>9. \A l \in Locs : {Img(l), File(l), Patch(l)} \cap DOMAIN P.entries # {} =>
                        l \in Files \cup {"fwupdate"}
  <2>1. ASSUME NEW l \in Locs, NEW e \in {Img(l), File(l), Patch(l)} \cap DOMAIN P.entries
        PROVE  l \in Files \cup {"fwupdate"}
    <3>1. EntryFits(v, P, e)
      BY <1>3, <2>1 DEF PatchFits
    <3>2. PICK k \in Files \cup {"fwupdate"} : e \in NamesOf(k)
      BY <3>1 DEF EntryFits, EntryOf
    <3> QED  BY <2>1, <3>2, NamesDiffer DEF NamesOf
  <2> QED  BY <2>1
<1>10. /\ \A l \in Locs : Covered(l) => Covered(l)'
       /\ \A l \in Locs : \A c \in ToSet(P.script) :
            \/ c.op \in {"raw", "patch"} /\ c.at = l /\ l # "bootloader"
            \/ c.op = "unpack" /\ l \in Files /\ File(l) \in DOMAIN zip'
            \/ c.op = "delete" /\ l \in c.files
            => Covered(l)'
  <2>1. \A c : \A l : l \in Targets(c) => l \in Targets(c)'
    BY <1>4 DEF Targets
  <2>2. \A c : \A l : c.op \in {"raw", "patch"} /\ c.at = l /\ l # "bootloader"
                        => l \in Targets(c)'
    BY DEF Targets
  <2>3. \A c : \A l : c.op = "unpack" /\ l \in Files /\ File(l) \in DOMAIN zip'
                        => l \in Targets(c)'
    BY DEF Targets
  <2>4. \A c : \A l : c.op = "delete" /\ l \in c.files => l \in Targets(c)'
    BY DEF Targets
  <2> QED  BY <1>6, <2>1, <2>2, <2>3, <2>4 DEF Covered
<1>11. HooksInv' /\ PatchInfoInv'
  <2>1. fixed' # <<>>
    <3>1. fixed \in Seq(Variants)
      BY <1>2 DEF StateTyped
    <3> QED  BY <1>1, <3>1
  <2>2. HooksInv'
    BY <1>1, <2>1 DEF HooksInv
  <2>3. PatchInfoInv'
    BY <1>1, <1>2, <1>4, <1>7 DEF MadeInv, PatchInfoInv
  <2> QED  BY <2>2, <2>3
<1>12. OneWay'
  <2>1. ASSUME NEW l \in Locs, Patch(l) \in DOMAIN zip'
        PROVE  {File(l), Img(l)} \cap DOMAIN zip' = {}
    <3>1. CASE {Img(l), File(l), Patch(l)} \cap DOMAIN P.entries = {}
      BY <1>2, <1>4, <2>1, <3>1 DEF MadeInv, OneWay
    <3>2. CASE {Img(l), File(l), Patch(l)} \cap DOMAIN P.entries # {}
      <4>1. l \in Files \cup {"fwupdate"}
        BY <1>9, <3>2
      <4>2. {Img(l), File(l), Patch(l)} \cap DOMAIN zip = {}
        BY <1>8, <3>2, <4>1 DEF NamesOf
      <4> QED  BY <1>4, <1>8, <2>1, <4>1, <4>2
    <3> QED  BY <3>1, <3>2
  <2> QED  BY <2>1 DEF OneWay
<1>13. UsedInv'
  <2>1. ASSUME NEW f \in Files, File(f) \in DOMAIN zip' \/ Patch(f) \in DOMAIN zip'
        PROVE  Covered(f)'
    <3>1. f \in Locs /\ f # "bootloader"
      BY PlacesDiffer DEF Locs
    <3>2. CASE File(f) \in DOMAIN zip \/ Patch(f) \in DOMAIN zip
      BY <1>2, <1>10, <3>1, <3>2 DEF MadeInv, UsedInv
    <3>3. CASE File(f) \in DOMAIN P.entries
      BY <1>4, <1>8, <1>10, <3>1, <3>3
    <3>4. CASE Patch(f) \in DOMAIN P.entries
      BY <1>8, <1>10, <3>1, <3>4
    <3> QED  BY <1>4, <2>1, <3>2, <3>3, <3>4
  <2>2. ASSUME Img("fwupdate") \in DOMAIN zip' \/ Patch("fwupdate") \in DOMAIN zip'
        PROVE  Covered("fwupdate")'
    <3>1. "fwupdate" \in Locs
      BY DEF Locs
    <3>2. CASE Img("fwupdate") \in DOMAIN zip \/ Patch("fwupdate") \in DOMAIN zip
      BY <1>2, <1>10, <3>1, <3>2 DEF MadeInv, UsedInv
    <3>3. CASE Img("fwupdate") \in DOMAIN P.entries \/ Patch("fwupdate") \in DOMAIN P.entries
      BY <1>8, <1>10, <3>1, <3>3
    <3> QED  BY <1>4, <2>2, <3>2, <3>3
  <2> QED  BY <2>1, <2>2 DEF UsedInv
<1>14. DOMAIN hashes' = DOMAIN hashes
       /\ \A p \in DOMAIN hashes : hashes'[p] = IF p = "bootloader" THEN tgt.vboot[v] ELSE hashes[p]
  BY <1>1 DEF process_hashfile
<1>15. (DOMAIN hashes \subseteq Images \cup {"bootloader"})'
  BY <1>2, <1>14 DEF MadeInv
<1>16. ASSUME OneVariant'
       PROVE  (ZipInv /\ ChecksInv /\ ScriptInv /\ CoverInv /\ HashesInv)'
  <2>1. OneVariant /\ device' = v /\ v # Generic
    <3>1. fixed \in Seq(Variants) /\ DOMAIN fixed = 1..Len(fixed) /\ Len(fixed) \in Nat
      BY <1>2 DEF StateTyped
    <3>2. DOMAIN fixed' = 1..(Len(fixed) + 1) /\ fixed'[Len(fixed) + 1] = v
          /\ \A i \in 1..Len(fixed) : fixed'[i] = fixed[i]
      BY <1>1, <3>1
    <3>3. device' = v
      BY <1>16, <3>1, <3>2 DEF OneVariant
    <3>4. fixed = <<>> \/ device = v
      BY <1>1, <1>2, <3>1, <3>3, OtaAssumption DEF StateTyped
    <3>5. CASE fixed = <<>>
      BY <3>3, <3>5, OtaAssumption DEF OneVariant
    <3>6. CASE device = v
      BY <1>16, <3>1, <3>2, <3>3, <3>6, OtaAssumption DEF OneVariant
    <3> QED  BY <3>3, <3>4, <3>5, <3>6, OtaAssumption
  <2>2. /\ ZipInv /\ ChecksInv /\ ScriptInv /\ HashesInv
        /\ CoverInv
    BY <1>2, <2>1 DEF MadeInv, PackageInv
  <2>3. /\ \A l : Was(l)' = Old(v, l) /\ Want(l)' = New(v, l) /\ InPlace(l)'
        /\ \A l : InPlace(l) => Was(l)' = Was(l) /\ Want(l)' = Want(l)
    <3>1. \A l : Was(l)' = Old(v, l) /\ Want(l)' = New(v, l) /\ InPlace(l)'
      BY <1>1, <1>7, <2>1 DEF Was, Want, Old, New, Holds, InPlace
    <3>2. \A l \in Images : Old(v, l) = Was(l) /\ New(v, l) = Want(l)
      BY HoldsFacts DEF Was, Want, Old, New
    <3>3. device # Generic => device = v
      BY <1>1, <2>1
    <3>4. device = v => \A l : Old(v, l) = Was(l) /\ New(v, l) = Want(l)
      BY DEF Was, Want, Old, New
    <3> QED  BY <3>1, <3>2, <3>3, <3>4 DEF InPlace
  <2>4. /\ New(v, "fwupdate") = IF ~setup.efi THEN tgt.fwu[v] ELSE None
        /\ \A f \in Files \ {Capsule} : New(v, f) = tgt.vboot[v][f]
    BY <2>1, HoldsFacts DEF New
  <2>5. ZipInv'
    <3>1. ASSUME NEW l \in Images \cup {"fwupdate"}, Img(l) \in DOMAIN zip'
          PROVE  zip'[Img(l)] = New(v, l)
      <4>0. l \in Locs
        BY DEF Locs
      <4>1. CASE Img(l) \in DOMAIN P.entries
        BY <1>4, <1>8, <1>9, <4>0, <4>1
      <4>2. CASE Img(l) \in DOMAIN zip /\ l \in Images
        <5>1. l # "bootloader" /\ l # "fwupdate"
          BY <4>2, PlacesDiffer
        <5>2. Img(l) # Img("bootloader") /\ Img(l) # Img("fwupdate")
          BY <5>1, NamesDiffer
        <5> QED  BY <1>4, <2>2, <2>3, <4>2, <5>2 DEF ZipInv
      <4>3. CASE Img(l) \in DOMAIN zip /\ l = "fwupdate" /\ setup.efi
        BY <1>4, <2>2, <2>3, <4>3 DEF ZipInv
      <4>4. CASE Img(l) \in DOMAIN zip /\ l = "fwupdate" /\ ~setup.efi
        BY <1>4, <2>4, <4>4
      <4> QED  BY <1>4, <1>5, <3>1, <4>1, <4>2, <4>3, <4>4
    <3>2. ASSUME Img("bootloader") \in DOMAIN zip', NEW f \in Files \ {Capsule}
          PROVE  zip'[Img("bootloader")][f] = New(v, f)
      <4>1. Img("bootloader") \notin DOMAIN P.entries
        <5>1. ASSUME Img("bootloader") \in DOMAIN P.entries
              PROVE  FALSE
          <6>1. EntryFits(v, P, Img("bootloader"))
            BY <1>3, <5>1 DEF PatchFits
          <6>2. PICK k \in Files \cup {"fwupdate"} : Img("bootloader") \in NamesOf(k)
            BY <6>1 DEF EntryFits, EntryOf
          <6> QED  BY <6>2, NamesDiffer, PlacesDiffer DEF NamesOf
        <5> QED  BY <5>1
      <4> QED  BY <1>4, <2>4, <3>2, <4>1
    <3>3. ASSUME NEW f \in Files, File(f) \in DOMAIN zip'
          PROVE  f # Capsule /\ zip'[File(f)] = New(v, f)
      <4>1. CASE File(f) \in DOMAIN P.entries
        BY <1>4, <1>8, <4>1
      <4>2. CASE File(f) \in DOMAIN zip
        <5>1. File(f) # Img("bootloader") /\ File(f) # Img("fwupdate")
          BY NamesDiffer
        <5> QED  BY <1>4, <2>2, <2>3, <4>2, <5>1 DEF ZipInv
      <4> QED  BY <1>4, <3>3, <4>1, <4>2
    <3>4. ASSUME NEW l \in Locs, Patch(l) \in DOMAIN zip'
          PROVE  l # Capsule /\ zip'[Patch(l)] = <<Old(v, l), New(v, l)>>
      <4>1. CASE Patch(l) \in DOMAIN P.entries
        BY <1>4, <1>8, <1>9, <4>1
      <4>2. CASE Patch(l) \in DOMAIN zip
        <5>1. Patch(l) # Img("bootloader") /\ Patch(l) # Img("fwupdate")
          BY NamesDiffer
        <5> QED  BY <1>4, <2>2, <2>3, <4>2, <5>1 DEF ZipInv
      <4> QED  BY <1>4, <3>4, <4>1, <4>2
    <3> QED  BY <2>3, <3>1, <3>2, <3>3, <3>4 DEF ZipInv
  <2>6. ChecksInv'
    <3>1. ASSUME NEW c \in checks
          PROVE  /\ c.at # Capsule /\ Patch(c.at) \in DOMAIN zip'
                 /\ c.accepts = {Was(c.at)', Want(c.at)'}
                 /\ c.at \in Files => setup'.efi
      BY <1>1, <1>4, <2>2, <2>3, <3>1 DEF ChecksInv
    <3>2. ASSUME NEW c \in P.checks
          PROVE  /\ c.at # Capsule /\ Patch(c.at) \in DOMAIN zip'
                 /\ c.accepts = {Was(c.at)', Want(c.at)'}
                 /\ c.at \in Files => setup'.efi
      <4>1. CheckFits(v, P, c)
        BY <1>3 DEF PatchFits
      <4> QED  BY <1>1, <1>4, <2>3, <4>1 DEF CheckFits
    <3> QED  BY <1>1, <2>3, <3>1, <3>2 DEF ChecksInv
  <2>7. ScriptInv'
    <3>1. ASSUME NEW c \in ToSet(script)
          PROVE  CommandInv(c)'
      <4>1. CommandInv(c)
        BY <2>2 DEF ScriptInv
      <4> QED  BY <1>1, <1>4, <2>3, <4>1 DEF CommandInv
    <3>2. ASSUME NEW c \in ToSet(P.script)
          PROVE  CommandInv(c)'
      <4>1. CommandFits(v, P, c)
        BY <1>3 DEF PatchFits
      <4> QED  BY <1>1, <1>4, <2>3, <4>1 DEF CommandFits, CommandInv
    <3> QED  BY <1>6, <3>1, <3>2 DEF ScriptInv
  <2>8. CoverInv'
    <3>1. tgt.bootloader # None =>
            \A p \in Images \cap setup.fstab : tgt[p] # None => Covered(p)'
      BY <1>1, <1>10, <2>2 DEF CoverInv, Locs
    <3>2. tgt.bootloader # None /\ (kind = "full" \/ src.bootloader # tgt.bootloader) =>
            \A f \in Files : Covered(f)'
      BY <1>1, <1>10, <2>2 DEF CoverInv, Locs
    <3>3. ASSUME setup.efi, kind = "incremental", NEW f \in Files \ {Capsule},
                 Old(v, f) # New(v, f)
          PROVE  Covered(f)'
      <4>1. f \in Locs
        BY DEF Locs
      <4>2. \/ {File(f), Patch(f)} \cap (DOMAIN zip \cup DOMAIN P.entries) # {}
            \/ \E c \in ToSet(P.script) : c.op = "delete" /\ f \in c.files
        BY <1>3, <3>3 DEF PatchFits, NothingMissed
      <4>3. CASE {File(f), Patch(f)} \cap (DOMAIN zip \cup DOMAIN P.entries) # {}
        BY <1>4, <1>13, <4>3 DEF UsedInv
      <4>4. CASE \E c \in ToSet(P.script) : c.op = "delete" /\ f \in c.files
        BY <1>10, <4>1, <4>4
      <4> QED  BY <4>2, <4>3, <4>4
    <3>4. ASSUME SendsFirmware'
          PROVE  Covered("fwupdate")'
      <4>1. kind = "incremental" /\ ~setup.efi /\ Empty \notin {src.fwu[v], tgt.fwu[v]}
        BY <1>1, <1>7, <2>1, <3>4 DEF SendsFirmware
      <4>2. {Img("fwupdate"), Patch("fwupdate")} \cap (DOMAIN zip \cup DOMAIN P.entries) # {}
        BY <1>3, <4>1 DEF PatchFits, NothingMissed
      <4> QED  BY <1>4, <1>13, <4>2 DEF UsedInv
    <3> QED  BY <1>1, <1>7, <2>3, <3>1, <3>2, <3>3, <3>4 DEF CoverInv
  <2>9. HashesInv'
    <3>1. ASSUME NEW p \in DOMAIN hashes
          PROVE  /\ p \in Images => hashes'[p] = tgt[p] /\ tgt[p] # None
                 /\ p = "bootloader" => \A f \in Files \ {Capsule} : hashes'[p][f] = New(v, f)
      <4>1. p \in Images => p # "bootloader"
        BY PlacesDiffer
      <4> QED  BY <1>14, <2>2, <2>4, <4>1 DEF HashesInv
    <3> QED  BY <1>1, <1>7, <1>14, <2>2, <2>3, <3>1 DEF HashesInv
  <2> QED  BY <2>5, <2>6, <2>7, <2>8, <2>9
<1>17. MadeInv'
  BY <1>2, <1>11, <1>12, <1>13, <1>15, <1>16, Zenon DEF MadeInv, PackageInv
<1> QED  BY <1>1, <1>17, DeviceWaits
-----------------------------------------------------------------------------
(* The invariant.                                                          *)

LEMMA InitMakesInv == OtaInit => OtaInv
<1> SUFFICES ASSUME OtaInit
             PROVE  OtaInv
  OBVIOUS
<1>1. /\ setup \in Setups /\ kind \in {"full", "incremental"}
      /\ pc = (IF kind = "full" THEN "install_end" ELSE "verify_end")
      /\ checks = {} /\ script = <<>> /\ fixed = <<>> /\ device = Generic
      /\ dev = [l \in Locs |-> None] /\ dpc = "none" /\ at = 1 /\ interrupts = 0
      /\ zip = NoEntries /\ patchinfo = NoEntries /\ hashes = NoEntries
      /\ DOMAIN zip = {} /\ DOMAIN patchinfo = {} /\ DOMAIN hashes = {}
  BY DEF OtaInit, NoEntries
<1>2. script \in Seq(Commands) /\ ToSet(script) = {}
  BY <1>1, ToSetOfShort
<1>3. StateTyped
  BY <1>1, OtaAssumption DEF StateTyped
<1>4. ZipTyped /\ ScriptTyped /\ ChecksTyped
  BY <1>1, <1>2 DEF ZipTyped, ScriptTyped, ChecksTyped
<1>5. HooksInv /\ PatchInfoInv /\ OneWay /\ UsedInv
  BY <1>1 DEF HooksInv, PatchInfoInv, OneWay, UsedInv
<1>6. ZipInv /\ ChecksInv /\ ScriptInv /\ CoverInv /\ HashesInv
  BY <1>1, <1>2 DEF ZipInv, ChecksInv, ScriptInv, CoverInv, HashesInv
<1>7. MadeInv
  BY <1>1, <1>3, <1>4, <1>5, <1>6 DEF MadeInv, PackageInv
<1>8. DeviceTyped
  BY <1>1 DEF DeviceTyped
<1>9. UpdateInv
  BY <1>1 DEF UpdateInv
<1> QED  BY <1>7, <1>8, <1>9 DEF OtaInv

LEMMA StepKeepsInv == OtaInv /\ [OtaNext]_otaVars => OtaInv'
<1> SUFFICES ASSUME OtaInv, [OtaNext]_otaVars
             PROVE  OtaInv'
  OBVIOUS
<1>1. CASE IncrementalOTA_VerifyEnd
  BY <1>1, VerifyEndStep
<1>2. CASE NothingToInstall
  BY <1>2, AsIs, Hooks DEF NothingToInstall, OtaInv, devVars
<1>3. CASE FullOTA_InstallEnd
  BY <1>3, FullInstallEndStep
<1>4. CASE IncrementalOTA_InstallEnd
  BY <1>4, IncrementalInstallEndStep
<1>5. CASE NoPatchInfo
  BY <1>5, AsIs, Hooks DEF NoPatchInfo, OtaInv, devVars
<1>6. ASSUME NEW v \in Variants, Fixup(v)
      PROVE  OtaInv'
  BY <1>6, FixupStep
<1>7. ASSUME NEW v \in Variants, FixupFails(v)
      PROVE  OtaInv'
  BY <1>7, AsIs DEF FixupFails, devVars
<1>8. CASE Receive
  BY <1>8, ReceiveStep
<1>9. CASE Begin
  BY <1>9, BeginStep
<1>10. CASE RunCommand
  BY <1>10, RunStep
<1>11. CASE PatchAborts
  BY <1>11, PatchAbortsStep
<1>12. CASE Finish
  BY <1>12, FinishStep
<1>13. CASE Interrupt
  BY <1>13, InterruptStep
<1>14. CASE UNCHANGED otaVars
  <2>1. UNCHANGED genVars /\ UNCHANGED devVars
    BY <1>14 DEF otaVars
  <2>2. MadeInv /\ DeviceTyped /\ UpdateInv /\ StateTyped
    BY DEF OtaInv, MadeInv
  <2>3. MadeInv'
    BY <2>1, <2>2, Frozen DEF devVars, StateTyped, DeviceTyped
  <2>4. DeviceTyped'
    BY <2>1, <2>2 DEF devVars, genVars, DeviceTyped
  <2>5. Accepted' = Accepted
    BY <2>1 DEF genVars, devVars, Accepted
  <2>6. AppliedInv' <=> AppliedInv
    BY <2>1, PackageSame DEF AppliedInv, devVars
  <2>7. UpdateInv'
    BY <2>1, <2>2, <2>5, <2>6, PackageSame DEF UpdateInv, devVars
  <2> QED  BY <2>3, <2>4, <2>7 DEF OtaInv
<1> QED  BY <1>1, <1>2, <1>3, <1>4, <1>5, <1>6, <1>7, <1>8, <1>9, <1>10, <1>11,
            <1>12, <1>13, <1>14 DEF OtaNext

(* The invariant of packages, devices and what they have to do with each   *)
(* other holds in every state, for all builds and any number of fix-ups    *)
(* and interruptions (hooks of releasetools.py, ota_deployment_fixup).     *)
THEOREM UpdateInvariant == OtaSpec => []OtaInv
  BY InitMakesInv, StepKeepsInv, PTL DEF OtaSpec

(* Entries, checks and commands stay of the kinds the code makes them.     *)
THEOREM UpdateTyped == OtaSpec => []OtaTypeOK
<1>1. OtaInv => OtaTypeOK
  <2> SUFFICES ASSUME OtaInv
               PROVE  OtaTypeOK
    OBVIOUS
  <2>1. MadeInv /\ DeviceTyped /\ StateTyped /\ ZipTyped /\ ChecksTyped /\ PatchInfoInv
    BY DEF OtaInv, MadeInv
  <2>2. setup \in Setup
    BY <2>1, SetupAssumption DEF StateTyped
  <2>3. device \in Variants \cup {Generic}
    BY <2>1 DEF StateTyped
  <2>4. ASSUME NEW e \in DOMAIN zip
        PROVE  IF e[1] = "patch" THEN zip[e] \in Data \X Data
               ELSE IF e = Img("bootloader") THEN zip[e] \in Image
               ELSE zip[e] \in Data \cup {Empty}
    <3>1. \/ \E p \in RawPlaces : e = Img(p)
          \/ \E f \in Files : e = File(f)
          \/ \E l \in Locs : e = Patch(l)
      BY <2>1, Zenon DEF ZipTyped
    <3>2. CASE \E l \in Locs : e = Patch(l)
      BY <2>1, <3>2, NameParts DEF ZipTyped
    <3>3. CASE \E f \in Files : e = File(f)
      BY <2>1, <3>3, NameParts, NamesDiffer DEF ZipTyped
    <3>4. CASE \E p \in RawPlaces : e = Img(p)
      BY <2>1, <3>4, NameParts, NamesDiffer DEF ZipTyped, RawPlaces
    <3> QED  BY <3>1, <3>2, <3>3, <3>4
  <2>5. DOMAIN patchinfo \subseteq Images
    BY <2>1, ImagesAre DEF PatchInfoInv
  <2> QED  BY <2>1, <2>2, <2>3, <2>4, <2>5
           DEF OtaTypeOK, StateTyped, DeviceTyped, ChecksTyped, MadeInv
<1> QED  BY <1>1, UpdateInvariant, PTL

(* No device is left between two builds by a package for its variant:      *)
(* every patch was foreseen by a check and stays foreseen while others     *)
(* are applied.                                                            *)
THEOREM NeverBetweenBuilds == OtaSpec => []NeverHalfway
<1>1. OtaInv => NeverHalfway
  BY DEF OtaInv, DeviceTyped, UpdateInv, NeverHalfway
<1> QED  BY <1>1, UpdateInvariant, PTL

(* What a package has put on a device of its variant.                      *)
LEMMA DoneHoldsTarget ==
  ASSUME OtaInv, dpc = "done", OneVariant, KnownBuild
  PROVE  ReachesTarget
<1>1. MadeInv /\ UpdateInv /\ DeviceTyped /\ StateTyped /\ ScriptTyped /\ CoverInv /\ pc = "made"
  BY DEF OtaInv, MadeInv, PackageInv, DeviceTyped
<1>2. ASSUME NEW l \in Locs \ {Capsule}, Covered(l)
      PROVE  dev[l] = Want(l)
  <2>1. PICK c \in ToSet(script) : l \in Targets(c)
    BY <1>2 DEF Covered
  <2>2. PICK i \in DOMAIN script : c = script[i]
    BY <2>1 DEF ToSet
  <2>3. DOMAIN script = 1..Len(script) /\ Len(script) \in Nat /\ at = Len(script) + 1
    BY <1>1 DEF ScriptTyped, UpdateInv
  <2>4. i \in 1..(at - 1)
    BY <2>2, <2>3
  <2> QED  BY <1>1, <2>1, <2>2, <2>4 DEF UpdateInv, AppliedInv
<1>3. ASSUME NEW l \in Locs, ~Covered(l)
      PROVE  dev[l] \in {Was(l), Want(l)}
  BY <1>1, <1>3 DEF UpdateInv, KnownBuild, Was, Want
<1>4. /\ Images \subseteq Locs \ {Capsule} /\ Files \subseteq Locs /\ "fwupdate" \in Locs \ {Capsule}
  BY PlacesDiffer DEF Locs
<1>5. tgt.bootloader # None => \A p \in Images \cap setup.fstab : tgt[p] # None => dev[p] = Want(p)
  BY <1>1, <1>2, <1>4 DEF CoverInv
<1>6. ASSUME SendsBootloader, NEW f \in Files \ {Capsule}
      PROVE  dev[f] = Want(f)
  <2>1. f \in Locs \ {Capsule}
    BY <1>4
  <2>2. CASE Was(f) = Want(f)
    BY <1>2, <1>3, <2>1, <2>2
  <2>3. CASE setup.efi /\ kind = "incremental" /\ device # Generic
    BY <1>1, <1>2, <2>1, <2>2, <2>3 DEF CoverInv
  <2>4. CASE tgt.bootloader # None /\ (kind = "full" \/ src.bootloader # tgt.bootloader)
    BY <1>1, <1>2, <2>1, <2>4 DEF CoverInv
  <2>5. CASE /\ src.bootloader = tgt.bootloader
             /\ src.vboot = tgt.vboot
    BY <2>2, <2>5, HoldsFacts DEF Was, Want
  <2> QED  BY <1>6, <2>3, <2>4, <2>5 DEF SendsBootloader
<1>7. SendsFirmware => dev["fwupdate"] = Want("fwupdate")
  BY <1>1, <1>2, <1>4 DEF CoverInv
<1> QED  BY <1>5, <1>6, <1>7 DEF ReachesTarget, Want

(* A device of either build that has applied a package for its variant     *)
(* holds the target build wherever the hooks and the fix-up are in charge, *)
(* however often the update was cut short.                                 *)
THEOREM DevicesReachTarget == OtaSpec => []ReachesTarget
<1>1. OtaInv => ReachesTarget
  BY DoneHoldsTarget DEF ReachesTarget
<1> QED  BY <1>1, UpdateInvariant, PTL

(* A device of either build is never refused, and none is refused once its *)
(* update has begun: what an interruption tears is not what is checked.    *)
THEOREM OnlyStrangersRefused == OtaSpec => []RefusesOnlyStrangers
<1>1. ASSUME OtaInv, dpc = "refused", OneVariant,
             ~(setup.efi /\ Img("bootloader") \in DOMAIN zip)
      PROVE  interrupts = 0 /\ ~KnownBuild
  <2>1. UpdateInv /\ ChecksInv /\ ChecksTyped /\ interrupts \in 0..MaxInterrupts
    BY <1>1 DEF OtaInv, MadeInv, PackageInv, StateTyped
  <2>2. ~Accepted /\ interrupts = 0 /\ dev = began
    BY <1>1, <2>1, OtaAssumption DEF UpdateInv
  <2>3. ASSUME KnownBuild, NEW c \in checks
        PROVE  dev[c.at] \in c.accepts
    BY <2>1, <2>2, <2>3 DEF KnownBuild, ChecksInv, Was, Want
  <2> QED  BY <2>2, <2>3 DEF Accepted
<1>2. OtaInv => RefusesOnlyStrangers
  BY <1>1 DEF RefusesOnlyStrangers
<1> QED  BY <1>2, UpdateInvariant, PTL

(* The hashes of a package are those of what it leaves on a device.        *)
THEOREM HashesOfWhatIsLeft == OtaSpec => []HashesMatch
<1>1. ASSUME OtaInv, dpc = "done", OneVariant, KnownBuild, ~setup.efi,
             NEW p \in DOMAIN hashes
      PROVE  IF p = "bootloader"
             THEN SendsBootloader => \A f \in Files \ {Capsule} : dev[f] = hashes[p][f]
             ELSE p \in setup.fstab => dev[p] = hashes[p]
  <2>1. ReachesTarget
    BY <1>1, DoneHoldsTarget
  <2>2. /\ tgt.bootloader # None /\ p \in Images \cup {"bootloader"}
        /\ p \in Images => hashes[p] = tgt[p] /\ tgt[p] # None
        /\ p = "bootloader" => \A f \in Files \ {Capsule} : hashes[p][f] = Want(f)
    BY <1>1 DEF OtaInv, MadeInv, PackageInv, HashesInv
  <2>3. /\ \A q \in Images \cap setup.fstab : tgt[q] # None => dev[q] = Want(q)
        /\ SendsBootloader => \A f \in Files \ {Capsule} : dev[f] = Want(f)
    BY <1>1, <2>1, <2>2 DEF ReachesTarget, Want
  <2>4. \A q \in Images \cap setup.fstab : Want(q) = tgt[q]
    BY HoldsFacts DEF Want
  <2> QED  BY <2>2, <2>3, <2>4
<1>2. OtaInv => HashesMatch
  BY <1>1 DEF HashesMatch
<1> QED  BY <1>2, UpdateInvariant, PTL
=============================================================================
