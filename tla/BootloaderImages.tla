-------------------------- MODULE BootloaderImages --------------------------
(***************************************************************************)
(* The bootloader images that intel_common.py builds of target files, as   *)
(* operators on a package. They have no state; TargetFiles uses them.      *)
(*                                                                         *)
(* A file is a record: its body, the OEM keys inside (None: no section for *)
(* them), who signed it last and what was signed. A tree of files and an   *)
(* archive are functions from paths to files: an archive may hold a path   *)
(* twice, and who unpacks it gets the later one.                           *)
(***************************************************************************)
EXTENDS Integers, FiniteSetsExt, SequencesExt

CONSTANTS
  None,
  Variants,     \* names of variants, those of boards that report one too
  Size,         \* KiB of a file, by its body
  Track         \* 32: "sectors per track"

ASSUME ImagesAssumption ==
  /\ None \notin Variants
  /\ Track \in Nat \ {0}
  /\ \A body \in DOMAIN Size : Size[body] \in Nat

NoFiles == [path \in {} |-> None]

(* Files put over others, as @@ does it; proofs cannot expand @@.          *)
Over(files, others) ==
  [path \in DOMAIN files \cup DOMAIN others |->
     IF path \in DOMAIN files THEN files[path] ELSE others[path]]

IsFile(f) == DOMAIN f = {"body", "keys", "by", "covers"}

File(body) == [body |-> body, keys |-> None, by |-> None, covers |-> <<None, None>>]

Sign(f, key) == [f EXCEPT !.by = key, !.covers = <<f.body, f.keys>>]

Verifies(f, key) == f.by = key /\ f.covers = <<f.body, f.keys>>

-----------------------------------------------------------------------------
(* Boot images of target files: the prebuilt one, or one built of its      *)
(* ramdisk and signed if the package has verity.                           *)

BootImage(pkg, name) ==
  CASE pkg.prebuilt[name] # None  -> pkg.prebuilt[name]
    [] name \notin pkg.ramdisks   -> None
    [] OTHER -> IF pkg.verity = None THEN File(name) ELSE Sign(File(name), pkg.verity)

GetFastbootImage(pkg) == BootImage(pkg, "fastboot.img")
GetTdosImage(pkg)     == BootImage(pkg, "tdos.img")

Only(path, f) == [p \in {path} |-> f]
Under(path, f) == IF f = None THEN NoFiles ELSE Only(path, f)

-----------------------------------------------------------------------------
(* The kind of platform, from the provdata of the variant, or of any of    *)
(* them, as the directory lists it.                                        *)

get_provdata_variants(pkg) == DOMAIN pkg.provdata \ {None}

(* The provdata CheckIfSocEFI may read.                                    *)
ProvdataRead(pkg, variant) ==
  IF variant # None THEN {variant}
  ELSE IF get_provdata_variants(pkg) = {} THEN {None} ELSE get_provdata_variants(pkg)

CheckIfSocEFI(provdata) == provdata.soc \notin {"slb", "abl", "sbl", "vsbl"}
SofiaLte(provdata)      == provdata.soc = "slb" /\ provdata.secpack

-----------------------------------------------------------------------------
(* MakeVFATFilesystem: extra files over those of the archive, later ones   *)
(* over earlier ones; with no size given, room for all and a little more.  *)

Total(files) == MapThenSumSet(LAMBDA p : Size[files[p].body], DOMAIN files)

RoundUp(n, unit) == ((n + unit - 1) \div unit) * unit

VFATSize(files, size, extra_size) ==
  LET total == Total(files)
      given == IF size # 0 THEN size ELSE total + Max({total \div 100, Track})
  IN  RoundUp(given + extra_size, Track)

(* mcopy fails when the filesystem is full. What FAT itself takes up is    *)
(* left out.                                                               *)
Fits(files, size, extra_size) == Total(files) <= VFATSize(files, size, extra_size)

(* What a variant puts on top: its capsule twice, and a tree of its own.   *)
OwnFiles(provdata) ==
  Over(provdata.tree, Over(Under("BIOSUPDATE.fv", provdata.capsule),
                           Under("capsules/current.fv", provdata.capsule)))

(* The boot images lie beside the files of the archive.                    *)
BootImages(pkg, files) ==
  Over(Under("tdos.img", GetTdosImage(pkg)), Over(Under("fastboot.img", GetFastbootImage(pkg)), files))

(* The files of the image of an EFI platform.                              *)
EfiFiles(pkg, variant, extra_files) ==
  LET own == IF variant = None THEN NoFiles ELSE OwnFiles(pkg.provdata[variant])
  IN  BootImages(pkg, Over(own, Over(extra_files, pkg.bootloader)))

(* Made at build time.                                                     *)
GetBootloaderImageFromOut(pkg) == BootImages(pkg, pkg.bootloader)

-----------------------------------------------------------------------------
(* Other platforms: the image is a file of provdata, the loaders are in    *)
(* fls files, one for each partition that flashfiles_fls.json names.       *)

FlsCommands(pkg) == {i \in DOMAIN pkg.fls : pkg.fls[i].type = "fls"}

get_bootloader_list(pkg) ==
  {pkg.fls[i].partition : i \in {j \in FlsCommands(pkg) : pkg.fls[j].source = "provdatazip"}}
    \ {"oem", "modem", "vrl"}

(* Those whose files are flashed: images for profiling aside.              *)
Flashing(pkg) == {i \in FlsCommands(pkg) : pkg.fls[i].core # "smp_profiling"}

CommandsOf(pkg, p) == {i \in Flashing(pkg) : pkg.fls[i].partition = p}

(* Wrong variant of get_partition_target_hash: the first of a partition.   *)
get_partition_target_hash_first(pkg) ==
  [p \in {pkg.fls[i].partition : i \in Flashing(pkg)} |->
     pkg.fls[Min(CommandsOf(pkg, p))].target]

(* The last one of a partition.                                            *)
get_partition_target_hash(pkg) ==
  [p \in {pkg.fls[i].partition : i \in Flashing(pkg)} |->
     pkg.fls[Max(CommandsOf(pkg, p))].target]

(* The load map of an fls file; Sofia LTE puts a secure block before it,   *)
(* except where the boot ROM or the file itself has one.                   *)
Extracted(provdata, partition, target) ==
  LET map == File(provdata.images[target])
  IN  IF SofiaLte(provdata) /\ partition \notin {"psi", "bootloader"}
      THEN Sign(map, "SecureBlock") ELSE map

(* Every partition needs a target, and that file a load map.               *)
CanExtract(pkg, provdata) ==
  LET targets == get_partition_target_hash(pkg)
  IN  \A p \in get_bootloader_list(pkg) : /\ p \in DOMAIN targets
                                          /\ targets[p] \in DOMAIN provdata.images

GetBootloaderImagesfromFls(pkg, provdata) ==
  [p \in get_bootloader_list(pkg) |->
     Extracted(provdata, p, get_partition_target_hash(pkg)[p])]
=============================================================================
