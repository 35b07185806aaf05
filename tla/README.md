# A verification project for device-intel-build

The repository holds the programs that turn an Android build for Intel devices
into what is flashed and sent to them: partitioned images, signed boot
containers, signed UEFI variables, OTA packages and flash files. Most of them
are sequential Python programs; what makes them hard is not parallelism but
layouts computed in several passes, files written in pieces and patched
afterwards, state that one hook leaves for a later one, and packages that a
device applies under conditions the program never sees. One program,
`generate_otas`, is concurrent.

This directory holds TLA+ models of the parts with the most behaviour of their
own, TLC configurations that check them, and proofs checked by TLAPS.

    tlc -workers 2 -config MCGptImage.cfg MCGptImage
    tlapm GptImageProofs.tla
    tlapm GenerateOtasProofs.tla
    tlapm TargetFilesProofs.tla
    tlapm OtaUpdateProofs.tla
    tlapm SequenceFacts.tla
    tlapm ContainerProofs.tla
    tlapm FlashFilesProofs.tla
    tlapm FlashJsonProofs.tla

## The system

| Part | State | Operations | Interacts with |
|---|---|---|---|
| Partition layout (`create_gpt_image.py`, `TLBInfos`, `GPTHeaderInfos`) | the list of entries, the running start LBA | read the ini groups and slots, size the open entry, move the entries behind it | image writer: the list |
| Image writer (`create_gpt_image.py`, `GPTImage`) | the image file | headers, tables, binaries, checksums, read back | layout; the binaries of the build |
| Container tool (`containertool/`) | the container in memory, container files | create, replace, extract, sign, view | key store; compression tools; layout files it reads and writes |
| Key store (`SingleSign.py`) | key files | resolve, sign, public key | openssl |
| OTA batch (`generate_otas`) | threads, processes, two shared lists, output directory | build, fix up, wait, release; SIGINT | `ota_from_target_files` (AOSP), `ota_deployment_fixup` |
| OTA hooks (`test/releasetools.py`, `intel_common.py`) | globals between hooks, updater script, package | VerifyEnd, InstallEnd, verify data | AOSP OTA generator, updater on the device |
| Fix-up of packages (`ota_deployment_fixup`) | a temporary zip | metadata, script, hashes, bootloader patch, sign | `generate_otas`, `intel_common.py` |
| Signed variables (`generate_bios_oemvars`, `generate_blpolicy_oemvars`) | two text files | sign to set, sign to clear | fastboot, UEFI variable services |
| Flash files (`flashfiles_from_target_files`, `flash_cmd_generator.py`, `iniparser.py`, `flashxml.py`, `flashflsxml.py`) | ini sections, command lists that outputs share, the zip | variants, commands, images, merge | target files |
| Resigning (`sign_target_files_efis`) | the unpacked package, one archive of loaders being written | replace keys, sign, copy the first stage, rebuild boot images, pack | sbsign, `intel_common.py` |
| Bootloader images (`intel_common.py`) | - | a FAT image of an archive, boot images and files of a variant; images taken out of fls files | target files, flash files, OTA fix-up, verifier |
| Verification of a device (`verify_from_target_files`) | hashes the device reports | compare | fastboot, bootloader images |
| Verification of boot images (`verifybootimg`, `verified_boot_common.py`) | - | parse, check signatures | openssl |
| Factory images, rules, scripts, test tools | - | fixed sequences of external commands | - |

`PROJECT.json` lists every part under "components", with what is modelled of
it or why it is not, and under "hazards" the places of the code where something
can go wrong that a test would hardly reach.

What makes each part correct:

* layout: partitions never overlap, fill the image, stay between the tables;
* image: both partition tables survive everything written after them, binaries
  arrive whole, a failed run leaves nothing that looks valid;
* container: what is written is what is read, regions are disjoint and aligned,
  signatures cover what is finally in the file, replacing one component leaves
  the others alone, extract and create are inverse;
* OTA batch: a released package is a whole package of this run, released only
  when its type succeeded; no process is left behind; the program ends;
* OTA hooks and fix-up: whatever package is made brings a device from the
  source build to the target build, also when the update is interrupted and
  started again;
* signed variables: the clearing file clears;
* flash files: every command finds the file its row names, for the right
  variant, in the order of the ini file; one configuration is the default; the
  parts that `installer.cmd` names exist;
* resigning: a signature covers the loader and the keys that are finally in the
  package, the copies of the first stage are the signed one, no loader is lost;
* verification: a device passes exactly when it holds what the package has.

## Modules

| Module | Models | Composed of |
|---|---|---|
| `GptLayout` | reading and laying out the partition list | - |
| `GptImage` | a run of `--create`, the file as a sequence of cells | extends `GptLayout`: its steps come first |
| `GptImageProofs` | the theorems of both | extends `GptImage` |
| `Container` | create, replace, extract, read | - |
| `ContainerProofs` | its theorems | extends `Container` and `SequenceFacts` |
| `SequenceFacts` | lemmas about sequences, folds and multiples, and induction over numbers | extends `SequencesExt` only |
| `OtaBatch` | what `generate_otas` promises (abstract) | - |
| `GenerateOtas` | its threads, processes and signal handler | refines `OtaBatch` |
| `GenerateOtasProofs` | its theorems, the refinement among them | extends `GenerateOtas` |
| `OemVars` | the signed variables and a device that receives them | - |
| `OtaUpdate` | the OTA hooks, the fix-up of a package and a device that applies it | hooks, fix-up and updater in one behaviour |
| `OtaUpdateProofs` | its theorems | extends `OtaUpdate` |
| `FlashFiles` | from ini files to command files, zip and ISO | generator, variants, images and the ISO rule in one behaviour |
| `FlashFilesProofs` | its theorems | extends `FlashFiles` and `SequenceFacts` |
| `FlashJson` | the two older formats of instructions | extends `FlashFiles`: images, results and ISO are its steps |
| `FlashJsonProofs` | its theorems | extends `FlashJson` and `FlashFilesProofs` |
| `BootloaderImages` | what bootloader images are made of, as operators on a package | - |
| `TargetFiles` | signing a package, installing it, verifying a device | extends `BootloaderImages` |
| `TargetFilesProofs` | its theorems, those on verification among them | extends `TargetFiles` and `SequenceFacts` |
| `MC...` | constants for TLC | extend the module of that name |

Some definitions are called "Wrong variant of ...". They stand before the
definition they vary, are used nowhere, and are there to try the properties:
put in place of the right one, each makes a property fail.

### GptLayout

`cfg` is the parsed ini file, `tlb` the list, `start_lba` the running start.
`pc` walks the groups start, bsp, aosp, end (`ReadPart` for a part,
`ReadGroupPart` for one slot of a group), then `compute_last_size_entry`
(`MeasureEntry` for each entry, `FillLast` or `NothingOpen`/`ImageTooSmall`),
then `_recompute_partition_begin` (`RecomputeEntry`). One step is one turn of
the loop in the code. Sizes are integers; constants give the block size, the
MiB, the reserve and the table length.

The `tbl` format of partition files is not modelled: its reader matches a `str`
pattern against lines of a file opened in binary mode and ends in a TypeError.

### GptImage

Adds `disk`, the image as a sequence of cells, `image` (none, the one of an
earlier run, the new one) and `binaries`. The order of writes is the code's:
MBR and headers, primary table, backup table, each binary, checksums. A
checksum is a cell that holds what was summed, so it is right exactly when the
contents have not changed. `read()` unpacks the image and compares nothing,
though a comment says it checks the CRC32; that is what `ReadBack` does.
The process is sequential and nothing blocks: weak fairness of its next step.

### Container

`create` is one step per row (`BuildComponent`), one per placed component
(`PlaceComponent`), `SignAll` for the monolithic `_SG_` entry, `WriteContainer`.
`Parse` is `CONTAINER_HDR` of a buffer; `GetData` is `get_data`. `Replace` and
`ExtractAndCreate` start from the file only, as the commands do. A file is a
sequence of cells; a structure is one cell with its contents and as many more
as its size. A signature is a cell that holds the key and what was signed, a
hash one that holds what was hashed. `data_offset` keeps its width
(`OffsetLimit`). Which row it is at, the program counts in `index`; `origin`
is what an extracted layout is compared with.

### GenerateOtas and OtaBatch

`thread`, `child`, `processes`, `ota_list`, `dir` and the handler of SIGINT, each
critical section of the code one step. The refinement maps the end of a thread
to "made", its death to "failed", the writing of `metadata.json` or of the
file of `-f` to the release. The program is Python 2: a signal handler runs in
the main thread and not while it is blocked in a join; `terminate` of a process
somebody waited for raises. Fairness: the main thread and the two other
threads are scheduled, and a child process exits some day; without the last the
program may wait for ever, and the code has no timeout. Interrupts are not fair.

### OemVars

The two tools, the files they write and a device that takes a variable if its
signer is trusted and its stamp is later. Only the order of stamps matters; a
second is a unit of time and an hour has `HourLength` of them.

### OtaUpdate

One behaviour is the life of one package: `IncrementalOTA_VerifyEnd` and the
two `InstallEnd` hooks make it, `Fixup` makes it the package of a variant (up
to `MaxFixups` times), `Receive` brings it to a device on the source build, on
the target build or on something else, then `Begin`, `RunCommand`, `Finish` and
`PatchAborts` are the updater and `Interrupt` the loss of power, after which
the script is begun again from its first check. The package is its entries
(`zip`), the conditions before "start making changes here" (`checks`) and the
commands behind it (`script`); `patchinfo` are the globals that one hook
leaves for the other. An image is its contents, a bootloader image a function
from files to contents, a patch the pair it leads from and to; whether a
patch is "almost as big as the actual file" depends on the pair (`Patchable`).
The updater is not in the repository: what it does is modelled from the
commands the hooks give it and from the arguments they pass (a check and a
patch accept the source or the target hash), and is marked external in
`PROJECT.json`.

The flags `verify_*` and what they list of other partitions (recovery, acpi,
system, ...), fingerprints, extra edify scripts and signatures are left out, as
is all that the OTA generator itself adds for the system partitions.

### FlashFiles

One behaviour is one call of `flashfiles_from_target_files` and the make rule
behind it, in the phases of `main`: `ParseOutput` for each output of each ini
file (`parse_config`, once for the generic file, again for the variants' files),
`GenerateVariantIp` for each variant, `ProcessImage` for each file and variant
(both the zip and the `--fast` one), `WriteResults`, `MakeIso`. An ini file is a
record with its commands as rows, configurations and outputs; a file name is a
pair of the name and the variant in it, a json file the record of its
parameters, configurations and commands. `setup` holds the inputs: options, ini
files, sizes of images, what each `provdata` zip has, the interpreter. The
scripts run under either Python: under 3 `merge_jsons` fails for every two
files, under 2 a dictionary has no order, so the outputs come in any (`Orders`).

`IsSetup` says what the inputs look like, for any number of rows, outputs and
variants: an output has its name once in a file, the kind of an output follows
from its name, one without configurations has none to rename, and the image of
a bootloader is among the files of variants.

`Content` is what a source has under a name. The two ways to collect images put
the same into an entry but for one thing: the zip takes the bootloader of a
variant with that variant's files, `--fast` makes the generic one for each
(`process_image_fast` calls `GetBootloaderImageFromOut` without the variant).
`CommandsFlashTheirFiles` asks for what `Wanted` says, which names that
exception: of the bootloader in a `--fast` run it compares source and name, of
every other file the variant too.

Left out: groups, preconditions, options of tools, `remove_option`, and `-U`
where no variant exists, as the make rule passes it only if there are some. Only
files of `provdata` can be missing: images and what a bootloader is made of are
there.

### FlashJson

The same program when there is no `flashfiles.ini`. `ParseJsonOutput` makes one
output of `flashfiles.json` (`flashxml.py`) or `flashfiles_fls.json`
(`flashflsxml.py`), then `ProcessImage` and the rest of `FlashFiles` go on.
`commands` is a variable because outputs share it: a json output makes lists of
the targets (`WithLists`), of which `installer.cmd` takes the first element. A
cmd output in front of every json output takes the first letter of a name and
an xml output always fails (bytes written into a text), so an output list with
one makes no flash files. `Added` is `add_file`: a file is added once by its
name, from whatever source comes first. `FlashJsonAssumption` says what
instructions look like: lists, outputs with names of their own, and groups of
commands that are there where a configuration names them. A short name that two files have means the last one
here, the first one in `flash_cmd_generator.py`; names are unique in the
property. With `-V` these formats end in a NameError (`ip`).

### BootloaderImages and TargetFiles

A file is its body, the OEM keys in it (`None`: no section for them), who signed
it and what was signed: `Verifies` compares that with what is in it now. A tree
of files and an archive are functions from paths to files; an archive may hold
a path twice, and whoever unpacks it gets the later one.

`Start` is one call of `sign_target_files_efis` with its option checks,
`ProcessEsp` and `ProcessBootloader` are `process_bootzip` for the two archives
(a call works on one file and is not observed before `Pack`, so the loop over
paths is one step), `MakeBootImages` deletes and builds `fastboot.img` and
`tdos.img`, `Pack` writes the output. The next call reads what the last one
wrote. `Install` puts `RADIO/bootloader.img`, or an image made of the package,
on a device, with the partitions of fls files in the order of their commands;
the firmware may consume the capsule, files may change, and `Verify` is
`verify_from_target_files`. Images that `mkdosfs` makes have an id of their own,
so an image that is made again is another one as a whole (`made`).

Seen while modelling, and left out by premises or stated by the model as it is:

* `-K` without `-A` always fails: `OPTIONS.avb_key` is not set anywhere, so
  `replace_pem_keys` is out of reach. `signed_from_target_files` calls it so.
* `KF4UEFI.EFI` gets the new keys whether or not `-k` names it, and then carries
  a signature that does not cover it (`MappedKF4`).
* `RADIO/esp.zip` and `RADIO/bootloader.zip` both become the merged archive. If
  they have different loaders under one path, that of `esp.zip` is lost, and a
  second call writes the other one to `VENDOR/firmware/kfld.efi` (`ArchivesAgree`).
* Only `kernelflinger.efi` and `kfld.efi` of `VENDOR/firmware` are written back;
  `bootloader.efi`, also replaced in the unpacked files, keeps the old signature.
  Loaders in the `BOOTLOADER` tree of a variant are not signed at all.
* The fallback loader is dropped and not made again if `-F` names no loader of
  the archives (its default is `loader.efi`).
* `RADIO/bootloader.img` is not made again, so no device with the signed
  package verifies; neither does one that has consumed its capsule, though the
  comparison of files leaves the capsule out.
* `base_variant` is used after `CheckIfSocEFI` has failed on the missing
  provdata, so it is never used.

## Runs

| Run | What it shows | Bounds, and why they are enough |
|---|---|---|
| `gpt_image` | no overlap, the image is filled, partitions stay between the tables, only the open entry changes size; tables and binaries intact, failures leave nothing valid, lost images explained, every run ends | two sets of partition files: up to three partitions before the open one with slots, pinned parts, several open ones, and images that are too small (each loop runs at least twice and every branch fires); and images of 22 blocks of 4 cells, so headers, tables and the checksums have room to collide, with binaries that are absent, missing, short, exact and too long |
| `fit_is_checked` (violation) | a binary up to a block too long is written over its neighbour | as above |
| `backup_table_found` (violation) | with larger blocks the backup table is not where its header says | as above, larger blocks |
| `container` | seven properties of containers, below | up to three components of two sizes; alignments below, at and above that of the header; all kinds of authentication; keys that do not match; regions too small; header alignment that wraps `data_offset` |
| `generate_otas` | what is released is true and whole, no orphans, ends, refines `OtaBatch` | both types, no or two variants, any process may fail, an interrupt at any time; two variants are needed for one to fail while another runs, more add nothing the loops distinguish |
| `otas_each_variant` (violation) | all variants of a type get the same final name | as above |
| `oemvars_unlock` (violation) | the clearing file may carry the earlier stamp | every second of two days of short hours |
| `ota_update` | an applied package leads to the target build, hashes fit, no device is left halfway or refused for the update's own sake | two contents and a third too different for patches; every mix of fstab, images present in source and target, bootloader changed or not; three files, one the capsule; two variants, interchangeable (symmetry), and two fix-ups, so a package is fixed up again for the same variant or for another; one loss of power, as a second starts from a state the first can leave |
| `ota_verbatim` (violation) | an image that needs to go verbatim is in no package | as above, without a device |
| `flash_files` | commands and files agree in all three formats, one default, additional files are there, parts are on the ISO | up to three rows, and one more of each variant, with files of all sources, the bootloader of all or of one variant included, in a zip and with `--fast`, a name that clashes and rows for other builds and tools; two configurations in one or two outputs; no, one or two variants in both orders; images below, at and above the limit and above twice; files that are missing; of the older formats, two groups and three configurations, commands for other builds, platforms, subgroups and outputs, commands with two targets, outputs in both orders |
| `target_files` | signatures, copies of the first stage, no loader lost, verification | nine packages: one archive, two with paths disjoint, equal or in conflict, none of one of them, a variant with a capsule, no room, two of another platform; twelve calls with each option, two that contradict, keys too long; two calls, as the third reads what the second could |
| `flash_mega` (violation) | no flash files for two variants under Python 3 | as `flash_files` |

The deadlock check is off where a program really stops. "Violation" runs each
check one statement of a comment or message of the code, and `PROJECT.json`
quotes it under "findings".

Premises that properties have, because the code promises nothing without
them: an open partition or no pinned ones (`NoOverlap`), partitions inside the
usable area, no longer list than the table (`TablesIntact`), a block at least
for a partition without binary (`MarksFit`: one of no blocks is marked with a
zero in its neighbour), `data_offset` that
does not wrap, keys of the type their row says and alignments of at least four
bytes (`Readable`); for `OtaUpdate` that a package is fixed up for one variant
only (`OneVariant`), that the builds send the bootloader at all
(`SendsBootloader`: a generic bootloader that did not change is not sent) and,
for refusals, that a raw bootloader image is not written over files checked
one by one; for `FlashFiles` that names keep to one file, that a variant adds
no file the generic ini file does not name and drops none a command needs, and
that an output names a configuration once (`Consistent`), that the bootloader
of a `--fast` run is the generic one (`Wanted`), that a variant
replaces no additional file by one of the same name from another source
(`AdditionalThere`), that installer.cmd is the second of two outputs and that
images are whole blocks, that none has exactly 4 GiB or more parts than a
block has bytes (`InstallerFindsFiles`); for
`FlashJson` unique short names, a json output first and, in the fls format,
outputs that name the same files; for `TargetFiles` those of the list above, a
kernelflinger in `bootloader.zip`, and `-k` for none of the fallback loaders,
which are never looked at.

Three more things seen while modelling `Container`, which the premises of its
properties leave out: offsets are aligned from the begin of the file but stored
relative to the first component, so with a first component of another alignment
than the header's none needs to be aligned (`AlignedAsGenerated` has equal
alignments as its premise); a header alignment of 64 KiB makes `data_offset`
wrap to 0, and the components are appended behind the header, where no entry
leads (`Sane` is the premise without which no property speaks of offsets); and
an entry keeps the authentication type of its row when the signature is made
with a key of another type.

And one of `FlashFiles`: with `--fast`, `bootloader_<variant>` is the generic
image under the variant's name, without the capsule and the `BOOTLOADER` tree of
`provdata_<variant>.zip` that the zip has in it.

## Proofs

A theorem holds for all values of the constants that the named assumptions of
its module allow: any partition file, any number of variants, files, fix-ups
and interruptions. Each proof has an inductive invariant, one lemma for every
action that shows the action keeps it, and short theorems that draw the
properties of the runs from it. The assumptions say of which kind the constants
are; those that say more are named below.

### The layout

The first half of `GptImageProofs` proves, for every partition file, image size, block size and
reserve:

* `LayoutTyping`: `LayoutSpec => []TypeOK`;
* `LayoutInvariant`: the inductive invariant `IInv`;
* `LayoutNoOverlap`, `LayoutFillsImage`, `LayoutInsideUsable`;
* `LayoutOnlyOpenSizeChanges`: `LayoutSpec => OnlyOpenSizeChanges`, from typing
  and the lemmas `AppendKeeps` and `ReplaceKeeps` on the only two ways the list
  is changed.

`NoOverlap` speaks of the finished list only. While the list is read, entries
may have begins that are recomputed later; what holds all along is that begins
grow as long as nothing is pinned (`ReadInv`). In the second pass `remaining` is
the capacity less the sizes seen (`MeasureInv`), stated with a function of
partial sums that exists rather than one that is computed, as recursive
operators are out of the provers' reach. In the third pass the entries up to
the cursor follow each other without gaps and the sum of all sizes is the
capacity (`RecomputeInv`). The three parts hand over at `FillLast` and
`NothingOpen`; `LaidInv` is what is left at the end, and implies the three
properties. `LayoutInsideUsable` needs an arithmetic lemma, `FloorSum`, on
divisions by the block size. The existential sums cannot be evaluated by TLC;
the run checks the properties they imply.

### The image

The second half follows three things through all writes: the cells of both
headers, those of both tables, and those of the binaries written so far
(`ImgInv`). While the list is read and laid out `ImgInv` contains `IInv` of the
layout, so `GptImage` inherits the theorems of `GptLayout` though its state is
larger.

* `ImageInvariant`, `ImageTyping`;
* `TablesSurvive`: the stray copy of the table, the binaries and the checksums,
  all written later, hit no cell of a table or a header. It supposes that the
  literal 32 in the code is the length of the table in blocks (`TableOfBlocks`);
  the run `backup_table_found` shows what happens with other blocks;
* `BinariesSurvive`: each binary is whole in the partition it is for;
* `LayoutIsKept`: the premises on the list are met. With an open entry or
  nothing pinned no partitions overlap, and with an open entry, when the first
  partition begins in the first MiB, all are between the tables;
* `NoHalfImage`: before the checksums no header has a cell that is a checksum;
* `LossExplained`.

`MarksFit` came out of a proof that did not go through. A partition without a
binary gets a zero at its begin. If it has no blocks this is a cell of the
next one, or of the backup table. `MCGptImage` has such a partition (`Mark`).

### The OTA batch

`GenerateOtasProofs`, for any number of types and variants, of processes that
fail and any moment of an interrupt: `OtasInvariant`, `OtasTyping`,
`GenericIsKept`, `MetadataTruth`, `OutputWhole`, `PassedStopped`, `NoOrphans`,
and the refinement `ImplementsBatch`: every behaviour is one of `OtaBatch`
under the mapping of the module.

The properties are about the end of a run and rest on all of it, so `OtasInv`
has a part for each thing that one thread leaves for another: how far the
processes of a thread are, given where its loop stands (`ChildrenInv`), that a
process is registered only after it was started (`RegisteredInv`), which files
are whole and until when (`DirInv`), and what is in `ota_list` (`ListInv`). A
thread extends the list at once, so the last output of its type stands behind
its others; as all outputs of a type are renamed to one name, this decides
which of them is found under it (`PublishedInv`).

### Resigning

`TargetFilesProofs`, for all packages, calls and keys: `PackageInvariant`,
`SigningKeepsLoaders`, `SigningSigns`, `CopiesAreFirstStage`. The program is a
chain of phases. `PackageInv` says of each what has been made of the input so
far, as a function of the input and the options, and of the output how it came
about; the properties follow from that without looking at a step. A second
call is covered because nothing is supposed of the input. The assumptions on
`Packages` and on the files that a call brings in (`IsPackage`, `IsFile`) say
which fields these records have.

The device and its verdict have an invariant of their own, `DeviceInv`: a device
has what it was given, or something on it is altered, or its capsule was taken
(`Held`), and a verdict is what the program computes from what it reads
(`Judged`). `VerdictIsRight` draws `InstalledVerifies` from it. The partitions of
a device without EFI are a fold over the commands of its fls files, in which
later commands overwrite earlier ones, and `verify_from_target_files` takes the
last one for a partition by another way. That both agree is shown by induction
over the commands (`FlashTo`).

### Updates

`OtaUpdateProofs`, for all pairs of builds, files and variants and any number
of fix-ups and interruptions: `UpdateInvariant`, `UpdateTyped`,
`DevicesReachTarget`, `NeverBetweenBuilds`, `OnlyStrangersRefused`,
`HashesOfWhatIsLeft`. The four properties have the premises that stand in
their definitions, the first of them that a package is for one variant.

The argument is about what commands write and not about their order, as the
order is what interruptions make useless:

* every command puts into a place what the target build of the variant has
  there (`Want`), or is about the capsule (`ScriptInv`, `ZipInv`); so what was
  reached is never spoilt by a later command, nor by the same one again;
* every patch leads from what the source build has (`Was`) to that, and there
  is a check of the same place that accepts these two (`ChecksInv`,
  `CommandInv`); so a patch finds what was checked or what it would make;
* nothing is both patched and sent as a whole (`OneWay`); so what an
  interruption tears is not what the checks look at when the script is begun
  again, except where a raw bootloader image is written over checked files,
  which is a premise of `RefusesOnlyStrangers`;
* what differs between the builds is in the package and what is in the package
  is used (`CoverInv`, `UsedInv`); so all of the target is reached.

`PackageInv` states this of the package while hooks and fix-ups make it,
`UpdateInv` of a device that applies it; in between the package does not change
(`Frozen`). The hard step is `FixupStep`: a fix-up adds entries, checks and
commands to a package that has some already, perhaps from a fix-up for the same
variant. `VariantPatchFits` says that the patch it adds agrees with all of them.
That files are finitely many and have other names than partitions are
assumptions of the module. All parts of the invariant were checked with TLC on
the instance of `ota_update` first.

### Containers

`ContainerProofs`, for all layouts, contents, alignments, sizes of structures and
any number of replacements: `ContainerInvariant`, `ContainerTypes`,
`ContainerRegions`, `ContainerParses`, `ContainerSigned`, `ContainerAligned`, and
the action properties `ContainerKeepsOthers` and `ContainerRebuilt`.
`ContainerAssumption` says what files and layouts look like and that LZ headers and hashes are as long as the padding
demands.

The argument has two halves. One is about bytes and not about steps:

* the components that `get_data` appends one after the other lie where their
  entries say, if the regions have room (`Laid`, `Roomy`), by induction over the
  components: the fold has a value for each number of them;
* `CONTAINER_HDR`, which walks over the entries with steps as long as each hash,
  finds every entry of such a file (`ReadBack`), and every component too if a
  reader can tell its parts (`ReadAll`, `Tidy`);
* two files agree wherever the same component lies in both, or none
  (`LaidAgree`).

The other is the invariant: what is made of the rows so far (`BuiltInv`), that
the components placed so far are apart and aligned, those before the first place
included (`PlacedInv`), what the monolithic component is about to sign
(`SignedInv`), and that the header in the file is tidy, with hashes and
signatures of what is in the file (`WrittenInv`). `replace` keeps the last part:
what it does to a component is what `create` would have done, and `LaidAgree`
says that no other region notices. `ParseInverts` is needed for it and follows
from it, as `replace` and `extract` begin with a parse of the file.

### Flash files

`FlashFilesProofs`, for all ini files that `IsSetup` admits, any number of
variants, outputs, configurations and images, both interpreters and every order
of a dictionary: `FlashInvariant`, `FlashTypes`, `CommandsFlash`,
`OneDefaultOfAll`, `AdditionalFilesThere`, `InstallerFinds`.

The program works on lists, in two rounds of parsing with a round of copying
and renaming in between. `FlashIInv` forgets the order of the rounds:

* the ini files are a function of the inputs, the default configuration that was
  kept in the first of them included (`InputInv`, `Gen`), and with variants no
  configuration is in two outputs (`OnceInv`);
* a result is what the outputs of that name are merged of, and nothing else: each
  parameter, configuration and command of it is that of one of them (`BodyOf`,
  `ResultsFor`). A merge with one more keeps that as long as the bodies of
  different variants are apart (`MergeKeeps`, `BodiesApart`), which the variant
  in the names of their configurations gives;
* what is listed are the files the outputs name, and their additional ones
  (`ParseInv`, `FilesInv`);
* an entry of the zip is the target of a job and holds what that job was for
  (`ZipInv`), the parts in the second result are of the images in it that are
  cut, and the ISO is what the make rule makes of it (`PartsInv`).

`CommandsFlash` then needs order again: the commands of a configuration in a
merged file are, in their order, those of its ini file, though commands of other
configurations and variants may stand around them. `Window` says that of a
sequence and a set, and concatenation keeps it. A command leads by its short
name, by the options of the parameter and by the configuration's choice to a
name in the zip (`TargetOf`); that this is the entry of its row, and that it was
not skipped for the sake of another variant, is `TargetNamed` and `InZip`; that
the entry holds what the row asks for, with the exception of the `--fast`
bootloader, is `WantedIs`.
`OneDefaultOfAll` counts: the defaults of all results are one pair or none.
`InstallerFinds` rests on an arithmetic fact, `AsMany`: rounding up by one byte
less than the limit and rounding down by the limit and adding one agree for
whole blocks, as long as the parts are not more than a block has bytes.

The model selects from lists and puts one function over another with operators
of its own (`Select`, `Over`), as provers know nothing of `SelectSeq` and `@@`.

### The older flash files

`FlashJsonProofs`, for all instructions that `FlashJsonAssumption` admits, both
formats, any build, platform and order of outputs, groups and configurations:
`AllInvariant` and `JsonFilesFlashed`.

`AllSpec` is `FlashFiles` or the older instructions, and a run never changes from
one to the other: with an ini file it never gets to the steps of `FlashJson`,
without one never to those that need it. So the invariant is one of two,
`FlashIInv` or `JsonIInv`. The theorems of the last section are of `FlashSpec`,
the first of the two; `flash_files` checks the same properties in both. The
parts of `JsonIInv`:

* the commands that outputs share are those of the instructions but for their
  mark as a list, and all that pass have it once there is a json output
  (`CommandsInv`), so a later output filters what the first one filtered;
* a result does what the instructions ask for (`ResultsInv`): for each
  configuration its entries are as many as the commands meant and have the short
  names of their targets (`JsonDoes`, `FlsDoes`), the lines of `installer.cmd` have
  the names of those of its commands (`CmdDoes`);
* the list of files names every file of a command that passes, from one of its
  sources (`ListInv`), and an entry of the zip is that of a file in the list
  (`EntriesInv`).

At the end, with unique short names, a file has one source (`OneFile`), so the
zip holds the right content under each name (`AllFilled`), the parameters lead to
it (`AllMean`), and what an entry flashes is what its command means, place by
place (`NeedStands`, `TargetsStand`).

The hard part is order. A command becomes an entry by a filter for builds, one
for types, concatenation over groups in the order of a dictionary, a filter for
entries with configurations and one for the configuration; what is meant is one
filter of one group. `SelectPicks` says that a filter takes what is at some
places in their order, `EnumUnique` that places can be counted in one way, and
from these that two filters are one (`SelectTwice`), that like lists filter alike
(`SelectAlike`), and that a filter for one part of a concatenation is a filter
of that part (`SelectOnePart`).

### Induction

The library states induction for an operator, which the provers cannot
instantiate. `SequenceFacts` states it for a set of numbers (`SetInduction`, from
`WFMin` and the order of the naturals): a proof defines the set of those numbers
for which its claim is right. What a recursive function or a fold of the
community modules computes is then within reach; `RECURSIVE` operators are not.

### Only model-checked

* Liveness (`Ends`, `Terminates`): out of the provers' reach, as is ENABLED.
* `OemVars` has one run, which finds a violation.

## Plan

In this order; a later step uses the earlier ones.

1. Done: `GptLayout`, `GptImage`, `GenerateOtas`/`OtaBatch`, `OemVars`,
   `Container`, the proofs of the layout.
2. Done: `OtaUpdate`, the hooks, the fix-up and a device as one pipeline.
3. Done: `FlashFiles`, ini files, variants, command files, the zip, the ISO.
4. Done: `TargetFiles` and `BootloaderImages`, signing, installing, verifying;
   `FlashJson`.
5. Done: proofs of `GptImage`, of `GenerateOtas` and its refinement, of
   `TargetFiles` and of `OtaUpdate`.
6. Done: proofs of `Container`, `FlashFiles` and `FlashJson`, and of the
   verification in `TargetFiles`.

## Not modelled

`verifybootimg` with `verified_boot_common.py` cannot run: the first is Python 2,
the second a SyntaxError before Python 3.5 (a keyword behind `**kwargs`), so
there is no state of it to model. `SingleSign.py` resolves key names and calls
openssl; `Container` uses what it promises. `checkvendor.py` is one pass that
prints a report. `bootloader_from_target_files` and `bootloader_from_zip` parse
options and call what `BootloaderImages` models. Factory images, make rules,
scripts that flash devices, the device test tools and data have no behaviour
beyond a fixed list of commands; each is listed in `PROJECT.json` with its
reason. Of `test/releasetools.py` the case of a device with `/vbmeta` in its
fstab is modelled as it is: `vbmeta_patchinfo` is not global where it is set, so
no incremental package is made for it.
