------------------------------ MODULE OtaUpdate ------------------------------
(***************************************************************************)
(* From two builds to an updated device. The hooks of releasetools.py add  *)
(* the bootloader, multiboot, tos and vbmeta images to the package that    *)
(* the OTA generator makes; ota_deployment_fixup makes it the package of   *)
(* one variant; a device checks the package, applies it, may lose power    *)
(* and starts again.                                                       *)
(*                                                                         *)
(* A package is its entries (zip), the conditions its script checks before *)
(* anything is written (checks) and the commands behind the line "start    *)
(* making changes here" (script). What the generator itself adds for the   *)
(* system partitions is left out, and the hashes of them too.              *)
(***************************************************************************)
EXTENDS Naturals, FiniteSets, SequencesExt

CONSTANTS
  Data,           \* contents of images and files
  Big,            \* those whose patches are nearly as long as they are
  None, Torn, Empty,
  Files,          \* files of a bootloader image
  Capsule,        \* BIOSUPDATE.fv, "consumed and deleted by the firmware"
  Variants,       \* FLASHFILES_VARIANTS
  Generic,        \* a device, or a package, of no variant
  Setups,         \* pairs of builds, with the partitions of the device
  MaxFixups, MaxInterrupts

ASSUME OtaAssumption ==
  /\ Big \subseteq Data
  /\ {None, Torn, Empty} \cap Data = {}
  /\ IsFiniteSet(Files) /\ Capsule \in Files
  /\ Files \cap {"multiboot", "tos", "vbmeta", "fwupdate", "bootloader"} = {}
  /\ Generic \notin Variants
  /\ MaxFixups \in Nat /\ MaxInterrupts \in Nat

(* The partitions the hooks ask the fstab for, in their order.             *)
Order  == <<"multiboot", "tos", "vbmeta">>
Images == {Order[i] : i \in DOMAIN Order}
Locs   == Images \cup {"fwupdate"} \cup Files

Image == [Files -> Data \cup {None}]
Build == [bootloader: Image \cup {None},      \* RADIO/bootloader.img
          multiboot: Data \cup {None}, tos: Data \cup {None},
          vbmeta: Data \cup {None},
          vboot: [Variants -> Image],          \* built from provdata_<variant>
          fwu: [Variants -> Data \cup {None, Empty}]]
Setup == [efi: BOOLEAN, tools: BOOLEAN, fstab: SUBSET Images,
          src: Build, tgt: Build]

ASSUME SetupAssumption == Setups \subseteq Setup

VARIABLES
  setup, kind,    \* inputs of the generator
  pc,             \* the hook that comes next
  zip,            \* entries of the package and what they hold
  checks, script, \* the two parts of updater-script
  patchinfo,      \* the globals multiboot_patchinfo, tos_patchinfo
  hashes,         \* verify/hashesfromtgt.txt
  fixed,          \* the variants the package was fixed up for, in order
  device,         \* the ro.product.device the script asks for
  dev,            \* what the partitions of a device hold
  dpc, at,        \* where its updater is
  began,          \* what the device held before
  interrupts

genVars == <<setup, kind, pc, zip, checks, script, patchinfo, hashes, fixed, device>>
devVars == <<dev, dpc, at, began, interrupts>>
otaVars == <<genVars, devVars>>

src == setup.src
tgt == setup.tgt
NoEntries == [e \in {} |-> None]

(* Entries that are there already stay as they are.                        *)
AddedTo(entries, new) ==
  [e \in DOMAIN entries \cup DOMAIN new |->
     IF e \in DOMAIN entries THEN entries[e] ELSE new[e]]

(* "If the patch size is almost as big as the actual file".                *)
Patchable(s, t) == s = t \/ {s, t} \cap Big = {}

(* Wrong variant of PatchCheck: the target is not accepted.                *)
PatchCheckOfSource(l, s, t) == [at |-> l, accepts |-> {s}]

(* The order of the source and target hash does not matter: a check or a   *)
(* patch accepts either.                                                   *)
PatchCheck(l, s, t)    == [at |-> l, accepts |-> {s, t}]
ApplyPatch(l, s, t, e) == [op |-> "patch", at |-> l, from |-> s, to |-> t, entry |-> e]
WriteRawImage(p)       == [op |-> "raw", at |-> p]
DeleteFiles(fs)        == [op |-> "delete", files |-> fs]
UnpackPackageDir       == [op |-> "unpack"]

(* Names of package entries: an image, a file of the bootloader, a patch.  *)
Img(p)   == <<"image", p>>
File(f)  == <<"file", f>>
Patch(l) == <<"patch", l>>

-----------------------------------------------------------------------------
(* releasetools.py.                                                        *)

OtaInit ==
  /\ setup \in Setups
  /\ kind \in {"full", "incremental"}
  /\ pc = IF kind = "full" THEN "install_end" ELSE "verify_end"
  /\ zip = NoEntries
  /\ checks = {} /\ script = <<>>
  /\ patchinfo = NoEntries
  /\ hashes = NoEntries
  /\ fixed = <<>> /\ device = Generic
  /\ dev = [l \in Locs |-> None]
  /\ dpc = "none" /\ at = 1
  /\ began = dev
  /\ interrupts = 0

(* ComputeBinOrImgPatches looks in RADIO/; vbmeta.img is in IMAGES/.       *)
Radio(build, p) == IF p = "vbmeta" THEN None ELSE build[p]

(* Wrong variant of HasPatch: the source may lack the image.               *)
HasPatchOfTarget(p) ==
  /\ Radio(tgt, p) # None
  /\ Patchable(Radio(src, p), Radio(tgt, p))

HasPatch(p) ==
  /\ Radio(src, p) # None /\ Radio(tgt, p) # None
  /\ Patchable(Radio(src, p), Radio(tgt, p))

(* The first partition that is not in the fstab ends the whole try.        *)
LookedUp ==
  {Order[i] : i \in {j \in DOMAIN Order : \A k \in 1..j : Order[k] \in setup.fstab}}

(* Wrong variant of IncrementalOTA_VerifyEnd: tos.img is not checked.      *)
VerifyEndUnchecked ==
  /\ pc = "verify_end"
  /\ LET patched == {p \in LookedUp : HasPatch(p)}
     IN  /\ checks' = {PatchCheck(p, src[p], tgt[p]) : p \in patched \ {"tos"}}
         /\ patchinfo' = [p \in patched \cap {"multiboot", "tos"} |-> <<src[p], tgt[p]>>]
         /\ zip' = [e \in {Patch(p) : p \in patched} |-> <<src[e[2]], tgt[e[2]]>>]
  /\ pc' = "install_end"
  /\ UNCHANGED <<setup, kind, script, hashes, fixed, device, devVars>>

(* vbmeta_patchinfo is not declared global: InstallEnd never sees it.      *)
IncrementalOTA_VerifyEnd ==
  /\ pc = "verify_end"
  /\ LET patched == {p \in LookedUp : HasPatch(p)}
     IN  /\ checks' = {PatchCheck(p, src[p], tgt[p]) : p \in patched}
         /\ patchinfo' = [p \in patched \cap {"multiboot", "tos"} |-> <<src[p], tgt[p]>>]
         /\ zip' = [e \in {Patch(p) : p \in patched} |-> <<src[e[2]], tgt[e[2]]>>]
  /\ pc' = "install_end"
  /\ UNCHANGED <<setup, kind, script, hashes, fixed, device, devVars>>

(* The images InstallEnd has a place for, in its order.                    *)
Place(p) == IF tgt[p] # None /\ p \in setup.fstab THEN <<p>> ELSE <<>>
Installed == Place("multiboot") \o Place("tos") \o Place("vbmeta")

(* Get_verifydata: nothing without the tools. verify_multiboot stands for  *)
(* multiboot and tos together.                                             *)
VerifyData(listed) ==
  IF setup.tools
  THEN [p \in {"bootloader"} \cup {q \in listed : tgt[q] # None} |-> tgt[p]]
  ELSE NoEntries

VerifyMultiboot ==
  IF \E i \in DOMAIN Installed : Installed[i] # "vbmeta" THEN {"multiboot", "tos"} ELSE {}

(* Without a bootloader.img the hooks skip the rest.                       *)
NothingToInstall ==
  /\ pc = "install_end"
  /\ tgt.bootloader = None
  /\ pc' = "made"
  /\ UNCHANGED <<setup, kind, zip, checks, script, patchinfo, hashes, fixed,
                 device, devVars>>

FullOTA_InstallEnd ==
  /\ pc = "install_end" /\ kind = "full"
  /\ tgt.bootloader # None
  /\ LET raw == <<"bootloader">> \o Installed
     IN  /\ script' = [i \in DOMAIN raw |-> WriteRawImage(raw[i])]
         /\ zip' = [e \in {Img(raw[i]) : i \in DOMAIN raw} |-> tgt[e[2]]]
  /\ hashes' = VerifyData(VerifyMultiboot \cup ({"vbmeta"} \cap setup.fstab))
  /\ pc' = "made"
  /\ UNCHANGED <<setup, kind, checks, patchinfo, fixed, device, devVars>>

(* The patch of vbmeta is looked for under the name of that of tos.        *)
PatchEntry(p) == IF p = "vbmeta" THEN Patch("tos") ELSE Patch(p)

IncrementalOTA_InstallEnd ==
  /\ pc = "install_end" /\ kind = "incremental"
  /\ tgt.bootloader # None
  /\ \A i \in DOMAIN Installed : Installed[i] \in DOMAIN patchinfo
  /\ LET changed == src.bootloader # tgt.bootloader
         Apply(p) == ApplyPatch(p, patchinfo[p][1], patchinfo[p][2], PatchEntry(p))
     IN  /\ script' = (IF changed THEN <<WriteRawImage("bootloader")>> ELSE <<>>)
                        \o [i \in DOMAIN Installed |-> Apply(Installed[i])]
         /\ zip' = IF changed
                   THEN AddedTo(zip, [e \in {Img("bootloader")} |-> tgt.bootloader])
                   ELSE zip
  /\ hashes' = VerifyData(VerifyMultiboot)
  /\ pc' = "made"
  /\ UNCHANGED <<setup, kind, checks, patchinfo, fixed, device, devVars>>

(* Unpacking a patchinfo that is None is a TypeError nobody catches.       *)
NoPatchInfo ==
  /\ pc = "install_end" /\ kind = "incremental"
  /\ tgt.bootloader # None
  /\ \E i \in DOMAIN Installed : Installed[i] \notin DOMAIN patchinfo
  /\ pc' = "failed"
  /\ UNCHANGED <<setup, kind, zip, checks, script, patchinfo, hashes, fixed,
                 device, devVars>>

-----------------------------------------------------------------------------
(* ota_deployment_fixup. Its output appears when all of it is done.        *)

LoadBootloaderFiles(build, v) == [build.vboot[v] EXCEPT ![Capsule] = None]

(* patch_or_verbatim_exists                                                *)
Exists(plain, patch) == plain \in DOMAIN zip \/ patch \in DOMAIN zip

(* ComputeBootloaderPatch, and what the script makes of it: conditions,    *)
(* commands and entries.                                                   *)
BootloaderPatch(v) ==
  LET s == LoadBootloaderFiles(src, v)
      t == LoadBootloaderFiles(tgt, v)
      new      == {f \in Files : /\ t[f] # None /\ s[f] # t[f]
                                 /\ ~Exists(File(f), Patch(f))}
      verbatim == {f \in new : s[f] = None \/ ~Patchable(s[f], t[f])}
      patched  == new \ verbatim
      deleted  == {f \in Files : s[f] # None /\ t[f] = None}
      order    == SetToSeq(patched)
  IN  [checks  |-> {PatchCheck(f, s[f], t[f]) : f \in patched},
       script  |-> (IF deleted = {} THEN <<>> ELSE <<DeleteFiles(deleted)>>)
                   \o [i \in DOMAIN order |->
                         ApplyPatch(order[i], s[order[i]], t[order[i]], Patch(order[i]))]
                   \o (IF verbatim = {} THEN <<>> ELSE <<UnpackPackageDir>>),
       entries |-> AddedTo([e \in {File(f) : f \in verbatim} |-> t[e[2]]],
                          [e \in {Patch(f) : f \in patched} |-> <<s[e[2]], t[e[2]]>>])]

(* Wrong variant of FwuPatch: a patch that is too long is left out, and so *)
(* is the image.                                                           *)
FwuPatchOnly(v) ==
  LET s == src.fwu[v]
      t == tgt.fwu[v]
      there == Exists(Img("fwupdate"), Patch("fwupdate")) \/ Empty \in {s, t}
  IN  IF there \/ ~Patchable(s, t)
      THEN [checks |-> {}, script |-> <<>>, entries |-> NoEntries]
      ELSE [checks  |-> {PatchCheck("fwupdate", s, t)},
            script  |-> <<ApplyPatch("fwupdate", s, t, Patch("fwupdate"))>>,
            entries |-> [e \in {Patch("fwupdate")} |-> <<s, t>>]]

(* ComputeFWUpdatePatches, and what the script makes of it.                *)
FwuPatch(v) ==
  LET s == src.fwu[v]
      t == tgt.fwu[v]
  IN  IF Exists(Img("fwupdate"), Patch("fwupdate")) \/ Empty \in {s, t}
      THEN [checks |-> {}, script |-> <<>>, entries |-> NoEntries]
      ELSE IF Patchable(s, t)
      THEN [checks  |-> {PatchCheck("fwupdate", s, t)},
            script  |-> <<ApplyPatch("fwupdate", s, t, Patch("fwupdate"))>>,
            entries |-> [e \in {Patch("fwupdate")} |-> <<s, t>>]]
      ELSE [checks  |-> {},
            script  |-> <<WriteRawImage("fwupdate")>>,
            entries |-> [e \in {Img("fwupdate")} |-> t]]

VariantPatch(v) ==
  IF kind = "full" THEN [checks |-> {}, script |-> <<>>, entries |-> NoEntries]
  ELSE IF setup.efi THEN BootloaderPatch(v) ELSE FwuPatch(v)

(* Reading fwu_image.bin of an archive that has none is a KeyError; the    *)
(* target is read after a source that is not empty only.                   *)
FwuMissing(v) ==
  /\ ~setup.efi /\ kind = "incremental"
  /\ IF Exists(Img("fwupdate"), Patch("fwupdate"))
     THEN Img("fwupdate") \in DOMAIN zip /\ tgt.fwu[v] = None
     ELSE \/ src.fwu[v] = None
          \/ src.fwu[v] # Empty /\ tgt.fwu[v] = None

(* Images of the package that are replaced by those of the variant.        *)
Replaced(v) ==
  [e \in DOMAIN zip |->
     IF e = Img("bootloader") THEN tgt.vboot[v]
     ELSE IF e = Img("fwupdate") /\ ~setup.efi THEN tgt.fwu[v] ELSE zip[e]]

(* Wrong variant of process_hashfile: the hash of bootloader.img stays.    *)
process_hashfile_kept(v) == hashes

process_hashfile(v) ==
  [p \in DOMAIN hashes |-> IF p = "bootloader" THEN tgt.vboot[v] ELSE hashes[p]]

(* The name of the device is replaced where it is that of the generic one. *)
Fixup(v) ==
  /\ pc = "made" /\ dpc = "none"
  /\ Len(fixed) < MaxFixups
  /\ ~FwuMissing(v)
  /\ checks' = checks \cup VariantPatch(v).checks
  /\ script' = VariantPatch(v).script \o script      \* patch_edify_script
  /\ zip' = AddedTo(Replaced(v), VariantPatch(v).entries)
  /\ hashes' = process_hashfile(v)
  /\ device' = IF device = Generic THEN v ELSE device
  /\ fixed' = Append(fixed, v)
  /\ UNCHANGED <<setup, kind, pc, patchinfo, devVars>>

FixupFails(v) ==
  /\ pc = "made" /\ dpc = "none"
  /\ Len(fixed) < MaxFixups
  /\ FwuMissing(v)
  /\ pc' = "failed"
  /\ UNCHANGED <<setup, kind, zip, checks, script, patchinfo, hashes, fixed,
                 device, devVars>>

-----------------------------------------------------------------------------
(* The device. The updater checks all, then runs the commands in order;    *)
(* started again after a loss of power it begins anew.                     *)

(* What a device of variant v holds on a build; the firmware has consumed  *)
(* the capsule.                                                            *)
Holds(build, v) ==
  LET boot == IF v # Generic THEN build.vboot[v]
              ELSE IF build.bootloader # None THEN build.bootloader
              ELSE [f \in Files |-> None]
  IN  [l \in Locs |->
         IF l \in Images THEN IF l \in setup.fstab THEN build[l] ELSE None
         ELSE IF l = "fwupdate"
         THEN IF v # Generic /\ ~setup.efi THEN build.fwu[v] ELSE None
         ELSE IF l = Capsule THEN None ELSE boot[l]]

(* The package arrives at a device on the source build, on the target, or  *)
(* on the source with one partition or file changed since.                 *)
Receive ==
  /\ pc = "made" /\ dpc = "none"
  /\ \/ dev' = Holds(src, device)
     \/ dev' = Holds(tgt, device)
     \/ \E l \in Locs \ {Capsule}, d \in Data : dev' = [Holds(src, device) EXCEPT ![l] = d]
  /\ began' = dev'
  /\ dpc' = "idle"
  /\ UNCHANGED <<genVars, at, interrupts>>

Accepted == \A c \in checks : dev[c.at] \in c.accepts

Begin ==
  /\ dpc = "idle"
  /\ dpc' = IF Accepted THEN "applying" ELSE "refused"
  /\ at' = 1
  /\ UNCHANGED <<genVars, dev, began, interrupts>>

Over == at > Len(script)

Command == script[at]

(* The partitions and files a command writes in place, and what it writes. *)
Raw == Command.op = "raw"
Writes ==
  IF Raw THEN IF Command.at = "bootloader" THEN Files ELSE {Command.at}
  ELSE IF Command.op = "unpack" THEN {e[2] : e \in {x \in DOMAIN zip : x[1] = "file"}}
  ELSE {}
Written(l) ==
  IF Raw THEN IF Command.at = "bootloader" THEN zip[Img("bootloader")][l]
                                          ELSE zip[Img(l)]
  ELSE zip[File(l)]

Applies ==
  /\ zip[Command.entry] = <<Command.from, Command.to>>
  /\ dev[Command.at] \in {Command.from, Command.to}

RunCommand ==
  /\ dpc = "applying" /\ ~Over
  /\ \/ /\ Command.op \in {"raw", "unpack"}
        /\ dev' = [l \in Locs |-> IF l \in Writes THEN Written(l) ELSE dev[l]]
     \/ /\ Command.op = "delete"
        /\ dev' = [l \in Locs |-> IF l \in Command.files THEN None ELSE dev[l]]
     \/ /\ Command.op = "patch" /\ Applies
        /\ dev' = [dev EXCEPT ![Command.at] = Command.to]
  /\ at' = at + 1
  /\ UNCHANGED <<genVars, dpc, began, interrupts>>

(* A patch that does not fit ends the update where it is.                  *)
PatchAborts ==
  /\ dpc = "applying" /\ ~Over
  /\ Command.op = "patch" /\ ~Applies
  /\ dpc' = "aborted"
  /\ UNCHANGED <<genVars, dev, at, began, interrupts>>

Finish ==
  /\ dpc = "applying" /\ Over
  /\ dpc' = "done"
  /\ UNCHANGED <<genVars, dev, at, began, interrupts>>

(* What was being written in place is torn; a patch keeps a copy of what   *)
(* it replaces and is begun anew.                                          *)
Interrupt ==
  /\ dpc = "applying"
  /\ interrupts < MaxInterrupts
  /\ \/ dev' = dev
     \/ ~Over /\ Command.op \in {"raw", "unpack"}
        /\ dev' = [l \in Locs |-> IF l \in Writes THEN Torn ELSE dev[l]]
  /\ dpc' = "idle" /\ at' = 1
  /\ interrupts' = interrupts + 1
  /\ UNCHANGED <<genVars, began>>

OtaNext ==
  \/ IncrementalOTA_VerifyEnd
  \/ NothingToInstall \/ FullOTA_InstallEnd \/ IncrementalOTA_InstallEnd \/ NoPatchInfo
  \/ \E v \in Variants : Fixup(v) \/ FixupFails(v)
  \/ Receive \/ Begin \/ RunCommand \/ PatchAborts \/ Finish \/ Interrupt

OtaSpec == OtaInit /\ [][OtaNext]_otaVars

-----------------------------------------------------------------------------
(* Properties. They are about packages that were fixed up for one variant, *)
(* or for none: a second variant's files are not put in place of the       *)
(* first's.                                                                *)

OtaTypeOK ==
  /\ setup \in Setup
  /\ kind \in {"full", "incremental"}
  /\ pc \in {"verify_end", "install_end", "made", "failed"}
  /\ \A e \in DOMAIN zip :
       IF e[1] = "patch" THEN zip[e] \in Data \X Data
       ELSE IF e = Img("bootloader") THEN zip[e] \in Image
       ELSE zip[e] \in Data \cup {Empty}
  /\ \A c \in checks : c.at \in Locs /\ c.accepts \subseteq Data
  /\ DOMAIN patchinfo \subseteq Images
  /\ DOMAIN hashes \subseteq Images \cup {"bootloader"}
  /\ fixed \in Seq(Variants) /\ Len(fixed) <= MaxFixups
  /\ device \in Variants \cup {Generic}
  /\ dev \in [Locs -> Data \cup {None, Torn, Empty}]
  /\ dpc \in {"none", "idle", "applying", "refused", "aborted", "done"}
  /\ at \in 1..(Len(script) + 1)
  /\ interrupts \in 0..MaxInterrupts

OneVariant == \A i \in DOMAIN fixed : fixed[i] = device

KnownBuild == began \in {Holds(src, device), Holds(tgt, device)}

(* The bootloader comes as an image, or file by file. An image that is the *)
(* same in both builds is not sent, whatever those of the variants are.    *)
SendsBootloader ==
  \/ setup.efi /\ kind = "incremental" /\ device # Generic
  \/ /\ tgt.bootloader # None
     /\ kind = "full" \/ src.bootloader # tgt.bootloader \/ src.vboot = tgt.vboot

SendsFirmware ==
  /\ ~setup.efi /\ kind = "incremental" /\ device # Generic
  /\ Empty \notin {src.fwu[device], tgt.fwu[device]}

(* A device of the source build (or, again, of the target build) that has  *)
(* applied a package holds the target build in every partition the hooks   *)
(* and the fix-up are in charge of, however often the update was cut short *)
(* and the package fixed up. Without a bootloader.img in the target files  *)
(* the hooks install nothing.                                              *)
ReachesTarget ==
  dpc = "done" /\ OneVariant /\ KnownBuild =>
    LET want == Holds(tgt, device)
    IN  /\ tgt.bootloader # None =>
             \A p \in Images \cap setup.fstab : tgt[p] # None => dev[p] = want[p]
        /\ SendsBootloader => \A f \in Files \ {Capsule} : dev[f] = want[f]
        /\ SendsFirmware => dev["fwupdate"] = want["fwupdate"]

(* The conditions in front of the script foresee every patch in it: no     *)
(* device, whatever it holds, is left between two builds ("ensures         *)
(* fwupdate partition is in an expected state before the OTA system makes  *)
(* any changes").                                                          *)
NeverHalfway == OneVariant => dpc # "aborted"

(* A device of either build is never refused, not even when power is lost  *)
(* at any point and the update is started again, and no device is refused  *)
(* once its update has begun. A bootloader image torn over files that are  *)
(* checked one by one is out of the updater's hands.                       *)
RefusesOnlyStrangers ==
  dpc = "refused" /\ OneVariant /\ ~(setup.efi /\ Img("bootloader") \in DOMAIN zip) =>
    interrupts = 0 /\ ~KnownBuild

(* The hashes in the package are those of what it leaves on a device with  *)
(* an image of its bootloader: the fix-up replaces the image and the hash. *)
HashesMatch ==
  dpc = "done" /\ OneVariant /\ KnownBuild /\ ~setup.efi =>
    \A p \in DOMAIN hashes :
      IF p = "bootloader"
      THEN SendsBootloader => \A f \in Files \ {Capsule} : dev[f] = hashes[p][f]
      ELSE p \in setup.fstab => dev[p] = hashes[p]

(* "the image will be included in the OTA verbatim"                        *)
(* (ComputeBinOrImgPatches, when a patch would be nearly as long).         *)
VerbatimIncluded ==
  \A p \in LookedUp :
    /\ tgt.bootloader # None
    /\ kind = "incremental" /\ pc \in {"made", "failed"}
    /\ None \notin {Radio(src, p), Radio(tgt, p)} /\ ~HasPatch(p)
    => Img(p) \in DOMAIN zip
=============================================================================
