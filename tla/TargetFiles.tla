---------------------------- MODULE TargetFiles ----------------------------
(***************************************************************************)
(* A target-files package and the programs that change and use its boot-   *)
(* loaders: sign_target_files_efis, which signs them with other keys (once *)
(* or twice), the image tools that put them on a device, and verify_from_  *)
(* target_files, which compares a device with the package.                 *)
(*                                                                         *)
(* A package is a record: the files of RADIO/bootloader.zip and esp.zip    *)
(* (None: no such archive), of VENDOR/firmware, prebuilt boot images, the  *)
(* ramdisks to build them, the key of verity (None: off), the provdata of  *)
(* each variant (None: the one without a name), the commands of flashfiles_*)
(* fls.json, RADIO/bootloader.img and the size it is given.                *)
(***************************************************************************)
EXTENDS BootloaderImages

CONSTANTS
  Packages,     \* as they are built
  Calls,        \* options of sign_target_files_efis
  MaxSignings,  \* bound: how often a package is signed
  Coho,         \* TRUE: ro.product.system.name is "coho"
  IA32,         \* bodies of 32-bit loaders
  EcssKeys,     \* keys that are references for SignFile
  KeyLength,    \* of the file of an AVB key
  KeyRoom,      \* size of a section .oemkeys
  Board         \* the variant a device reports, or None

(* The variants of a package are for one kind of platform: CheckIfSocEFI   *)
(* looks at any of them. No file is Altered, which stands for all others.  *)
IsFlashable(fls, provdata) ==
  /\ fls \in Seq({fls[i] : i \in DOMAIN fls})
  /\ \A v, w \in DOMAIN provdata : CheckIfSocEFI(provdata[v]) <=> CheckIfSocEFI(provdata[w])
  /\ \A v \in DOMAIN provdata : \A t \in DOMAIN provdata[v].images :
        provdata[v].images[t] # "altered"

IsPackage(p) ==
  /\ DOMAIN p = {"bootloader", "esp", "vendor", "prebuilt", "ramdisks", "verity",
                 "provdata", "fls", "image", "size"}
  /\ \A archive \in {p.bootloader, p.esp} \ {None} :
        \A path \in DOMAIN archive : IsFile(archive[path])
  /\ {"fastboot.img", "tdos.img"} \subseteq DOMAIN p.prebuilt
  /\ IsFlashable(p.fls, p.provdata)

(* RADIO/bootloader.img, if there is one, is made at build time.           *)
IsBuilt(p) ==
  p.bootloader # None /\ p.image # None => p.image = GetBootloaderImageFromOut(p)

ASSUME TargetFilesAssumption ==
  /\ \A p \in Packages : IsPackage(p) /\ IsBuilt(p)
  /\ None # "SecureBlock"
  /\ \A o \in Calls : \A path \in DOMAIN o.replace : IsFile(o.replace[path])
  /\ MaxSignings \in Nat /\ KeyRoom \in Nat
  /\ \A o \in Calls : o.avb_key # None => KeyLength[o.avb_key] \in Nat

VARIABLES
  pc,              \* "idle" | "first" | "second" | "images" | "pack" | "failed"
                   \* | "installed" | "verified"
  input,           \* input_zip
  options,         \* OPTIONS, or None
  unpack_dir,      \* the unpacked input, where files are changed
  output_bootzip,  \* what has been written to it
  boot,            \* fastboot.img and tdos.img, as made
  output,          \* output_zip, or None
  signings,        \* how often a package has been signed
  device,          \* bootloader partition and those of fls files, or None
  verdict          \* of verify_from_target_files, or None

vars == <<pc, input, options, unpack_dir, output_bootzip, boot, output, signings,
          device, verdict>>

bootImages == {"fastboot.img", "tdos.img"}
fallbacks  == {"EFI/BOOT/bootx64.efi", "EFI/BOOT/bootia32.efi"}
KF4UEFI    == "EFI/INTEL/KF4UEFI.EFI"

Init ==
  /\ input \in Packages
  /\ pc = "idle" /\ options = None /\ unpack_dir = None /\ output = None
  /\ output_bootzip = NoFiles /\ boot = [name \in bootImages |-> None]
  /\ signings = 0 /\ device = None /\ verdict = None

-----------------------------------------------------------------------------
(* sign_target_files_efis                                                  *)

Fail == pc' = "failed" /\ UNCHANGED <<input, options, unpack_dir, output_bootzip,
                                      boot, output, signings, device, verdict>>

(* The loader whose keys are replaced is the first one, unless -L says.    *)
kernelflinger(o) == IF o.kernelflinger = None THEN o.first_stage ELSE o.kernelflinger

CheckedOptions(o) ==
  /\ DOMAIN o.key_map \cap DOMAIN o.replace = {}
  /\ o.oem_key # None => kernelflinger(o) \in DOMAIN o.key_map

(* The package just written is what the next call reads.                   *)
Start(o) ==
  LET package == IF output = None THEN input ELSE output
  IN  /\ pc = "idle" /\ signings < MaxSignings
      /\ input' = package /\ options' = o /\ unpack_dir' = package /\ output' = None
      /\ output_bootzip' = NoFiles
      /\ pc' = IF CheckedOptions(o) THEN "first" ELSE "failed"
      /\ UNCHANGED <<boot, signings, device, verdict>>

NewKeys(path, esp) ==
  /\ options.oem_key # None
  /\ \/ path = kernelflinger(options) /\ ~esp
     \/ path = KF4UEFI

(* Without -A there is no OPTIONS.avb_key to be looked at.                 *)
KeysFail(f) ==
  \/ options.avb_key = None
  \/ f.keys = None
  \/ KeyLength[options.avb_key] > KeyRoom

SigningFails(path) ==
  /\ path \in DOMAIN options.key_map
  /\ options.key_map[path] \in EcssKeys /\ ~options.signfile

ProcessingFails(files, esp) ==
  \E path \in DOMAIN files \ (fallbacks \cup {"shim.efi"}) :
     (NewKeys(path, esp) /\ KeysFail(files[path])) \/ SigningFails(path)

WithKeys(path, f, esp) == IF NewKeys(path, esp) THEN [f EXCEPT !.keys = options.avb_key] ELSE f

Resigned(path, f) ==
  IF path \in DOMAIN options.key_map THEN Sign(f, options.key_map[path]) ELSE f

(* Wrong variant of ProcessedFile: signed before the keys are put in.      *)
ProcessedFileSignedFirst(path, f, esp) ==
  IF path \in DOMAIN options.replace THEN options.replace[path]
  ELSE WithKeys(path, Resigned(path, f), esp)

ProcessedFile(path, f, esp) ==
  IF path \in DOMAIN options.replace THEN options.replace[path]
  ELSE Resigned(path, WithKeys(path, f, esp))

(* The first stage is put into the place of the fallback loader, too.      *)
Copies(f) ==
  IF f.body \in IA32 THEN [path \in {"EFI/BOOT/bootia32.efi"} |-> f]
  ELSE [path \in {"EFI/BOOT/bootx64.efi"} \cup (IF Coho THEN {"shim.efi"} ELSE {}) |-> f]

(* Wrong variant of process_bootzip: copies of the first stage as it was.  *)
process_bootzip_copied(files, esp) ==
  LET kept == DOMAIN files \ (fallbacks \cup {"shim.efi"})
      done == [path \in kept |-> ProcessedFile(path, files[path], esp)]
  IN  Over(IF options.first_stage \in kept THEN Copies(files[options.first_stage]) ELSE NoFiles,
           done)

process_bootzip(files, esp) ==
  LET kept == DOMAIN files \ (fallbacks \cup {"shim.efi"})
      done == [path \in kept |-> ProcessedFile(path, files[path], esp)]
  IN  Over(IF options.first_stage \in kept THEN Copies(done[options.first_stage]) ELSE NoFiles,
           done)

(* ... and over the loader of that name among the files of VENDOR.         *)
CopiedTo(vendor, loader_name, files) ==
  IF options.first_stage \in DOMAIN files /\ loader_name \in DOMAIN vendor
  THEN [vendor EXCEPT ![loader_name] = files[options.first_stage]] ELSE vendor

ProcessArchive(files, esp, loader_name, next) ==
  LET done == process_bootzip(files, esp)
  IN  /\ ~ProcessingFails(files, esp)
      /\ output_bootzip' = Over(done, output_bootzip)
      /\ unpack_dir' = [unpack_dir EXCEPT !.vendor = CopiedTo(@, loader_name, done)]
      /\ pc' = next
      /\ UNCHANGED <<input, options, boot, output, signings, device, verdict>>

ProcessEsp ==
  /\ pc = "first" /\ unpack_dir.esp # None
  /\ IF ProcessingFails(unpack_dir.esp, TRUE) THEN Fail
     ELSE ProcessArchive(unpack_dir.esp, TRUE, "kfld.efi", "second")

(* Wrong variant of ProcessBootloader: the second archive is not added to  *)
(* the first, it replaces it.                                              *)
ProcessBootloaderAlone ==
  /\ pc = "second" \/ (pc = "first" /\ unpack_dir.esp = None)
  /\ unpack_dir.bootloader # None /\ ~ProcessingFails(unpack_dir.bootloader, FALSE)
  /\ output_bootzip' = process_bootzip(unpack_dir.bootloader, FALSE)
  /\ pc' = "images"
  /\ UNCHANGED <<input, options, unpack_dir, boot, output, signings, device, verdict>>

(* bootloader.zip is the only archive, or its files are added to those of  *)
(* esp.zip. Then only the fallback loader tells the two apart.             *)
ProcessBootloader ==
  /\ pc = "second" \/ (pc = "first" /\ unpack_dir.esp = None)
  /\ IF unpack_dir.bootloader = None THEN Fail
     ELSE IF ProcessingFails(unpack_dir.bootloader, FALSE) THEN Fail
     ELSE ProcessArchive(unpack_dir.bootloader, FALSE,
            IF pc = "second" THEN "bootloader.efi" ELSE "kernelflinger.efi", "images")

(* A prebuilt image is deleted first, so that it is built again.           *)
Rebuilt(name) == BootImage([unpack_dir EXCEPT !.prebuilt[name] = None], name)

MakeBootImages ==
  /\ pc = "images"
  /\ boot' = [name \in bootImages |-> Rebuilt(name)]
  /\ pc' = "pack"
  /\ UNCHANGED <<input, options, unpack_dir, output_bootzip, output, signings, device, verdict>>

(* Loaders taken from VENDOR of unpack_dir, where they may be new.         *)
writtenBack == {"kernelflinger.efi", "kfld.efi"}

Packed ==
  [input EXCEPT
     !.bootloader = output_bootzip,
     !.esp        = IF @ = None THEN None ELSE output_bootzip,
     !.prebuilt   = boot,
     !.vendor     = [name \in DOMAIN @ |->
                       IF name \in writtenBack THEN unpack_dir.vendor[name] ELSE @[name]]]

(* An image that was there and cannot be built again ends the program.     *)
Pack ==
  /\ pc = "pack"
  /\ IF \E name \in bootImages : input.prebuilt[name] # None /\ boot[name] = None
     THEN Fail
     ELSE /\ output' = Packed
          /\ signings' = signings + 1
          /\ pc' = "idle"
          /\ UNCHANGED <<input, options, unpack_dir, output_bootzip, boot, device, verdict>>

-----------------------------------------------------------------------------
(* Installing and verifying                                                *)

Package == IF output = None THEN input ELSE output

ReadProvdata(variant) == ProvdataRead(Package, variant) \cap DOMAIN Package.provdata

(* The image tools: None if the package has no such file or no room.       *)
GetBootloaderImageFromTFP(variant, efi) ==
  LET board == IF variant = None THEN Board ELSE variant
      files == EfiFiles(Package, variant, NoFiles)
  IN  IF ~efi
      THEN IF board \in DOMAIN Package.provdata
           THEN Only("bootloader", File(Package.provdata[board].raw)) ELSE None
      ELSE IF Package.bootloader = None THEN None
      ELSE IF Fits(files, Package.size, 0) THEN files ELSE None

(* RADIO/bootloader.img, or an image made of the package. mkdosfs gives    *)
(* every image an id of its own, so one that is made again is another one. *)
(* Partitions of fls files are flashed in the order of the commands.       *)
Flash(flashed, provdata, c) ==
  Over(Only(c.partition, Extracted(provdata, c.partition, c.target)), flashed)

Flashed(fls, provdata) ==
  FoldLeft(LAMBDA flashed, c : IF c.type = "fls" /\ c.core # "smp_profiling"
                               THEN Flash(flashed, provdata, c) ELSE flashed,
           NoFiles, fls)

Install(variant, made) ==
  \E read \in ReadProvdata(variant) :
    LET efi   == CheckIfSocEFI(Package.provdata[read])
        files == IF made THEN GetBootloaderImageFromTFP(variant, efi) ELSE Package.image
        board == IF variant = None THEN Board ELSE variant
    IN  /\ pc = "idle" /\ files # None
        /\ ~efi => board \in DOMAIN Package.provdata /\ CanExtract(Package, Package.provdata[board])
        /\ device' = [files |-> files, made |-> made, variant |-> variant,
                      parts |-> IF efi THEN NoFiles
                                ELSE Flashed(Package.fls, Package.provdata[board])]
        /\ pc' = "installed"
        /\ UNCHANGED <<input, options, unpack_dir, output_bootzip, boot, output, signings, verdict>>

(* The firmware takes the capsule at its first boot.                       *)
ConsumeCapsule ==
  /\ pc = "installed" /\ "BIOSUPDATE.fv" \in DOMAIN device.files
  /\ device' = [device EXCEPT !.files = [p \in DOMAIN @ \ {"BIOSUPDATE.fv"} |-> @[p]]]
  /\ UNCHANGED <<pc, input, options, unpack_dir, output_bootzip, boot, output, signings, verdict>>

Altered == File("altered")

Alter ==
  /\ pc = "installed"
  /\ \/ \E p \in DOMAIN device.files : device' = [device EXCEPT !.files[p] = Altered]
     \/ \E p \in DOMAIN device.parts : device' = [device EXCEPT !.parts[p] = Altered]
  /\ UNCHANGED <<pc, input, options, unpack_dir, output_bootzip, boot, output, signings, verdict>>

(* What the partition is to hold as a whole is RADIO/bootloader.img.       *)
SamePartition == ~device.made /\ device.files = Package.image

SameFiles(files) ==
  \A p \in DOMAIN files \ {"BIOSUPDATE.fv"} : p \in DOMAIN device.files /\ device.files[p] = files[p]

SameParts(provdata) ==
  LET images == GetBootloaderImagesfromFls(Package, provdata)
  IN  \A p \in DOMAIN images \ {"bootloader"} :
         p \in DOMAIN device.parts /\ device.parts[p] = images[p]

Verify(variant) ==
  \E read \in ReadProvdata(variant) :
    LET efi   == CheckIfSocEFI(Package.provdata[read])
        files == GetBootloaderImageFromTFP(variant, efi)
        board == IF variant = None THEN Board ELSE variant
    IN  /\ pc = "installed" /\ files # None
        /\ ~efi => CanExtract(Package, Package.provdata[board])
        /\ verdict' = [variant |-> variant, efi |-> efi,
                       ok |-> /\ SamePartition
                              /\ IF efi THEN SameFiles(files) ELSE SameParts(Package.provdata[board])]
        /\ pc' = "verified"
        /\ UNCHANGED <<input, options, unpack_dir, output_bootzip, boot, output, signings, device>>

Next ==
  \/ \E o \in Calls : Start(o)
  \/ ProcessEsp \/ ProcessBootloader \/ MakeBootImages \/ Pack
  \/ \E variant \in Variants \cup {None}, made \in BOOLEAN : Install(variant, made)
  \/ ConsumeCapsule \/ Alter
  \/ \E variant \in Variants \cup {None} : Verify(variant)

Spec == Init /\ [][Next]_vars

-----------------------------------------------------------------------------
(* Properties                                                              *)

skipped == fallbacks \cup {"shim.efi"}

Before(path) ==
  IF path \in DOMAIN input.bootloader THEN input.bootloader[path] ELSE input.esp[path]

Paths(p) == DOMAIN p.bootloader \cup (IF p.esp = None THEN {} ELSE DOMAIN p.esp)

(* The keys of KF4UEFI.EFI are replaced with -K whether or not -k names it. *)
MappedKF4 == options.oem_key # None => KF4UEFI \in DOMAIN options.key_map

(* The signature is made last: every loader that -k names verifies under   *)
(* its key with the OEM keys it holds, no other loader loses a signature   *)
(* it had, and boot images that are built again carry the package's key    *)
(* (process_bootzip, main). Kernelflinger has the new keys, at least if it *)
(* is in bootloader.zip.                                                   *)
LoadersSigned ==
  output # None =>
    LET out == output.bootloader
    IN  /\ \A path \in (DOMAIN out \cap DOMAIN options.key_map) \ skipped :
             Verifies(out[path], options.key_map[path])
        /\ MappedKF4 => \A path \in Paths(input) \ (skipped \cup DOMAIN options.replace) :
             Verifies(Before(path), Before(path).by) => Verifies(out[path], out[path].by)
        /\ options.oem_key # None /\ kernelflinger(options) \in DOMAIN input.bootloader \ skipped
             => out[kernelflinger(options)].keys = options.avb_key
        /\ \A name \in bootImages : output.prebuilt[name] # None /\ input.verity # None
             => Verifies(output.prebuilt[name], input.verity)

(* Both archives have a path only with the same loader.                    *)
ArchivesAgree ==
  input.esp # None =>
    \A p \in (DOMAIN input.esp \cap DOMAIN input.bootloader) \ skipped :
       input.esp[p].body = input.bootloader[p].body

SameLoader(f, first) ==
  /\ f.body = first.body
  /\ options.first_stage \in DOMAIN options.key_map
       => Verifies(f, options.key_map[options.first_stage])

(* What boots without a boot entry is the first stage of the package, with *)
(* the new signature, and so are the copies on the vendor partition that   *)
(* "-F" and the description of the program promise.                        *)
FirstStageCopies ==
  output # None /\ ArchivesAgree /\ options.first_stage \in Paths(input) \ skipped =>
    LET first == output.bootloader[options.first_stage]
        width == IF first.body \in IA32 THEN "EFI/BOOT/bootia32.efi" ELSE "EFI/BOOT/bootx64.efi"
        name  == IF input.esp = None THEN "kernelflinger.efi" ELSE "kfld.efi"
        from  == IF input.esp = None THEN input.bootloader ELSE input.esp
    IN  /\ width \in DOMAIN output.bootloader /\ output.bootloader[width] = first
        /\ DOMAIN output.bootloader \cap fallbacks = {width}
        /\ name \in DOMAIN output.vendor /\ options.first_stage \in DOMAIN from
             => SameLoader(output.vendor[name], first)

(* Signing loses no loader of either archive and swaps none: what is not   *)
(* replaced has the body it had, in both archives. The copies of the first *)
(* stage are made again.                                                   *)
LoadersKept ==
  output # None /\ ArchivesAgree =>
    /\ \A path \in Paths(input) \ skipped :
         /\ path \in DOMAIN output.bootloader
         /\ path \notin DOMAIN options.replace
              => output.bootloader[path].body = Before(path).body
    /\ output.esp # None => output.esp = output.bootloader
    /\ Paths(output) \subseteq Paths(input) \cup skipped

(* "verify that the installed system exactly matches that build": whoever  *)
(* passes has in every place what the package has, and a device that was   *)
(* given RADIO/bootloader.img of the package passes, if it is what the     *)
(* tools would make of the package (it is not once loaders are signed or   *)
(* for a variant with files of its own) and nothing has changed since, not *)
(* even by a capsule that is taken. Images of modems and the like are not  *)
(* compared.                                                               *)
Untouched ==
  /\ ~device.made /\ device.variant = verdict.variant
  /\ "BIOSUPDATE.fv" \in DOMAIN Package.image => "BIOSUPDATE.fv" \in DOMAIN device.files
  /\ \A p \in DOMAIN device.files : device.files[p] # Altered
  /\ \A p \in DOMAIN device.parts : device.parts[p] # Altered

NoOwnFiles(variant) == variant = None \/ OwnFiles(Package.provdata[variant]) = NoFiles

InstalledVerifies ==
  verdict # None =>
    LET files == GetBootloaderImageFromTFP(verdict.variant, verdict.efi)
    IN  /\ verdict.ok => /\ device.files = Package.image
                         /\ \A p \in DOMAIN device.parts \cap get_bootloader_list(Package) :
                              p # "bootloader" => device.parts[p] # Altered
                         /\ verdict.efi => \A p \in DOMAIN files \ {"BIOSUPDATE.fv"} :
                              device.files[p] = files[p]
        /\ Untouched /\ signings = 0 /\ (verdict.efi => NoOwnFiles(verdict.variant)) => verdict.ok
=============================================================================
