------------------------- MODULE TargetFilesProofs -------------------------
(***************************************************************************)
(* Proofs about TargetFiles, for all packages, calls and keys: what the    *)
(* two archives become on their way through sign_target_files_efis, and    *)
(* with it what its output holds.                                          *)
(*                                                                         *)
(* The program is a chain of phases. The invariant says of each what has   *)
(* been made of the input so far; of the output it says how it came about, *)
(* and the three properties follow from that without looking at a step.    *)
(* A second invariant is about a device that gets the package, and the     *)
(* verdict of verify_from_target_files.                                    *)
(***************************************************************************)
EXTENDS TargetFiles, SequenceFacts

signing == {"first", "second", "images", "pack"}

EspDone  == process_bootzip(input.esp, TRUE)
BootDone == process_bootzip(input.bootloader, FALSE)

(* The call under way is one that passed the checks of the options.        *)
CallInv == options \in Calls /\ CheckedOptions(options)

(* Only files of VENDOR change in the unpacked input, and none comes or    *)
(* goes.                                                                   *)
UnpackInv ==
  /\ DOMAIN unpack_dir = DOMAIN input
  /\ unpack_dir.bootloader = input.bootloader /\ unpack_dir.esp = input.esp
  /\ unpack_dir.verity = input.verity
  /\ bootImages \subseteq DOMAIN unpack_dir.prebuilt
  /\ DOMAIN unpack_dir.vendor = DOMAIN input.vendor

(* The copy of the first stage among the files of VENDOR.                  *)
CopyInv(files, name) ==
  options.first_stage \in DOMAIN files /\ name \in DOMAIN unpack_dir.vendor
    => unpack_dir.vendor[name] = files[options.first_stage]

EspInv ==
  /\ input.esp # None
  /\ output_bootzip = Over(EspDone, NoFiles)
  /\ CopyInv(EspDone, "kfld.efi")

ArchivesInv ==
  /\ input.bootloader # None
  /\ output_bootzip = Over(BootDone, IF input.esp = None THEN NoFiles ELSE Over(EspDone, NoFiles))
  /\ IF input.esp = None THEN CopyInv(BootDone, "kernelflinger.efi")
     ELSE CopyInv(EspDone, "kfld.efi")

BootInv == boot = [name \in bootImages |-> Rebuilt(name)]

OutInv ==
  /\ pc \in {"idle", "installed", "verified"}
  /\ IsPackage(output) /\ output = Packed

PackageInv ==
  /\ IsPackage(input)
  /\ (pc \in signing \/ output # None) => CallInv /\ UnpackInv
  /\ pc = "first" => output_bootzip = NoFiles
  /\ pc = "second" => EspInv
  /\ (pc \in {"images", "pack"} \/ output # None) => ArchivesInv
  /\ (pc = "pack" \/ output # None) => BootInv
  /\ pc \in signing => output = None
  /\ output # None => OutInv
-----------------------------------------------------------------------------
(* What the operators do.                                                  *)

LEMMA OverFacts ==
  ASSUME NEW f, NEW g
  PROVE  /\ DOMAIN Over(f, g) = DOMAIN f \cup DOMAIN g
         /\ \A x \in DOMAIN f : Over(f, g)[x] = f[x]
         /\ \A x \in DOMAIN g \ DOMAIN f : Over(f, g)[x] = g[x]
  BY DEF Over

LEMMA SignFacts ==
  ASSUME NEW f, IsFile(f), NEW key
  PROVE  /\ IsFile(Sign(f, key)) /\ Verifies(Sign(f, key), key)
         /\ Sign(f, key).body = f.body /\ Sign(f, key).keys = f.keys
  BY DEF IsFile, Sign, Verifies

(* A file keeps its body unless it is replaced, is signed if -k names it,  *)
(* and is as it was if neither the keys in it nor it are concerned.        *)
Processed(path, f, esp, done) ==
  /\ IsFile(done)
  /\ path \in DOMAIN options.replace => done = options.replace[path]
  /\ path \notin DOMAIN options.replace => done.body = f.body
  /\ path \in DOMAIN options.key_map => Verifies(done, options.key_map[path])
  /\ path \in DOMAIN options.key_map /\ NewKeys(path, esp) => done.keys = options.avb_key
  /\ path \notin DOMAIN options.replace \cup DOMAIN options.key_map /\ ~NewKeys(path, esp)
       => done = f

LEMMA ProcessedFacts ==
  ASSUME NEW path, NEW f, NEW esp, IsFile(f), CallInv
  PROVE  Processed(path, f, esp, ProcessedFile(path, f, esp))
  <1> DEFINE k == WithKeys(path, f, esp)
             done == ProcessedFile(path, f, esp)
  <1>1. /\ IsFile(k) /\ k.body = f.body
        /\ NewKeys(path, esp) => k.keys = options.avb_key
        /\ ~NewKeys(path, esp) => k = f
    BY DEF WithKeys, IsFile
  <1>2. CASE path \in DOMAIN options.replace
    <2>1. IsFile(options.replace[path]) /\ path \notin DOMAIN options.key_map
      BY <1>2, TargetFilesAssumption DEF CallInv, CheckedOptions
    <2>2. done = options.replace[path]
      BY <1>2 DEF ProcessedFile
    <2> QED BY <1>2, <2>1, <2>2 DEF IsFile, Processed
  <1>3. CASE path \notin DOMAIN options.replace
    <2>1. done = Resigned(path, k)
      BY <1>3 DEF ProcessedFile
    <2> HIDE DEF k
    <2>2. CASE path \in DOMAIN options.key_map
      <3>1. done = Sign(k, options.key_map[path])
        BY <2>1, <2>2 DEF Resigned
      <3>2. /\ IsFile(done) /\ Verifies(done, options.key_map[path])
            /\ done.body = k.body /\ done.keys = k.keys
        BY <1>1, <3>1, SignFacts
      <3> QED BY <1>1, <1>3, <2>2, <3>2 DEF Processed
    <2>3. CASE path \notin DOMAIN options.key_map
      <3>1. done = k
        BY <2>1, <2>3 DEF Resigned
      <3> QED BY <1>1, <1>3, <2>3, <3>1 DEF IsFile, Processed
    <2> QED BY <2>2, <2>3
  <1> QED BY <1>2, <1>3

Width(f) == IF f.body \in IA32 THEN "EFI/BOOT/bootia32.efi" ELSE "EFI/BOOT/bootx64.efi"

LEMMA CopiesFacts ==
  ASSUME NEW f
  PROVE  /\ DOMAIN Copies(f) \subseteq skipped
         /\ DOMAIN Copies(f) \cap fallbacks = {Width(f)}
         /\ \A x \in DOMAIN Copies(f) : Copies(f)[x] = f
  BY DEF Copies, skipped, fallbacks, Width, NoFiles

(* An archive after process_bootzip: every loader that is not a copy, and  *)
(* new copies of the first stage if it is among them.                      *)
Done(files, esp, done) ==
  /\ DOMAIN done \ skipped = DOMAIN files \ skipped
  /\ \A path \in DOMAIN files \ skipped : done[path] = ProcessedFile(path, files[path], esp)
  /\ options.first_stage \in DOMAIN files \ skipped
       => /\ DOMAIN done \cap fallbacks = {Width(done[options.first_stage])}
          /\ \A path \in DOMAIN done \cap skipped : done[path] = done[options.first_stage]
  /\ options.first_stage \notin DOMAIN files \ skipped => DOMAIN done \cap skipped = {}

LEMMA BootzipFacts ==
  ASSUME NEW files, NEW esp
  PROVE  Done(files, esp, process_bootzip(files, esp))
  <1> DEFINE kept   == DOMAIN files \ skipped
             done   == [path \in kept |-> ProcessedFile(path, files[path], esp)]
             copies == IF options.first_stage \in kept THEN Copies(done[options.first_stage])
                       ELSE NoFiles
             out    == process_bootzip(files, esp)
  <1>1. out = Over(copies, done)
    BY DEF process_bootzip, skipped
  <1>2. DOMAIN done = kept /\ \A path \in kept : done[path] = ProcessedFile(path, files[path], esp)
    OBVIOUS
  <1>3. CASE options.first_stage \in kept
    <2>1. copies = Copies(done[options.first_stage])
      BY <1>3
    <2> HIDE DEF done, copies, out
    <2> DEFINE first == done[options.first_stage]
    <2>2. /\ DOMAIN copies \subseteq skipped
          /\ DOMAIN copies \cap fallbacks = {Width(first)}
          /\ \A x \in DOMAIN copies : copies[x] = first
      BY <2>1, CopiesFacts
    <2>3. /\ DOMAIN out = DOMAIN copies \cup kept
          /\ \A x \in DOMAIN copies : out[x] = copies[x]
          /\ \A x \in kept \ DOMAIN copies : out[x] = done[x]
      <3>1. /\ DOMAIN Over(copies, done) = DOMAIN copies \cup DOMAIN done
            /\ \A x \in DOMAIN copies : Over(copies, done)[x] = copies[x]
            /\ \A x \in DOMAIN done \ DOMAIN copies : Over(copies, done)[x] = done[x]
        BY OverFacts
      <3> QED BY <1>1, <1>2, <3>1
    <2>4. \A x \in kept : out[x] = done[x]
      BY <2>2, <2>3
    <2>5. out[options.first_stage] = first
      BY <1>3, <2>4
    <2>6. fallbacks \subseteq skipped
      BY DEF skipped
    <2>7. DOMAIN out \ skipped = kept
      BY <2>2, <2>3
    <2>8. DOMAIN out \cap fallbacks = {Width(out[options.first_stage])}
      BY <2>2, <2>3, <2>5, <2>6
    <2>9. \A path \in DOMAIN out \cap skipped : out[path] = out[options.first_stage]
      BY <2>2, <2>3, <2>5
    <2>10. \A path \in kept : out[path] = ProcessedFile(path, files[path], esp)
      BY <1>2, <2>4
    <2> QED BY <1>3, <2>7, <2>8, <2>9, <2>10 DEF Done, out
  <1>4. CASE options.first_stage \notin kept
    <2>1. copies = NoFiles /\ DOMAIN copies = {}
      BY <1>4 DEF NoFiles
    <2> HIDE DEF done, copies, out
    <2>2. DOMAIN out = kept /\ \A x \in kept : out[x] = done[x]
      <3>1. /\ DOMAIN Over(copies, done) = DOMAIN copies \cup DOMAIN done
            /\ \A x \in DOMAIN done \ DOMAIN copies : Over(copies, done)[x] = done[x]
        BY OverFacts
      <3> QED BY <1>1, <1>2, <2>1, <3>1
    <2>3. \A path \in kept : out[path] = ProcessedFile(path, files[path], esp)
      BY <1>2, <2>2
    <2> QED BY <1>4, <2>2, <2>3 DEF Done, out
  <1> QED BY <1>3, <1>4

(* Whatever comes of an archive of files is a file.                        *)
LEMMA DoneFiles ==
  ASSUME NEW files, NEW esp, NEW done, Done(files, esp, done), CallInv,
         \A path \in DOMAIN files : IsFile(files[path])
  PROVE  \A path \in DOMAIN done : IsFile(done[path])
  <1>1. ASSUME NEW path \in DOMAIN files \ skipped PROVE IsFile(done[path])
    <2>1. done[path] = ProcessedFile(path, files[path], esp) /\ IsFile(files[path])
      BY DEF Done
    <2> QED BY <2>1, ProcessedFacts DEF Processed
  <1>2. ASSUME NEW path \in DOMAIN done PROVE IsFile(done[path])
    <2>1. CASE path \notin skipped
      BY <1>1, <2>1 DEF Done
    <2>2. CASE path \in skipped
      <3>1. /\ options.first_stage \in DOMAIN files \ skipped
            /\ done[path] = done[options.first_stage]
        BY <2>2 DEF Done
      <3> QED BY <1>1, <3>1
    <2> QED BY <2>1, <2>2
  <1> QED BY <1>2

(* What becomes of an archive depends on the archive and the call alone.   *)
LEMMA DoneKept ==
  ASSUME UNCHANGED <<input, options>>
  PROVE  EspDone' = EspDone /\ BootDone' = BootDone
  BY DEF EspDone, BootDone, process_bootzip, ProcessedFile, Resigned, WithKeys, NewKeys,
         kernelflinger
-----------------------------------------------------------------------------
(* The invariant: initially, and step by step.                             *)

LEMMA PackageInit ==
  Init => PackageInv
  BY TargetFilesAssumption DEF Init, PackageInv, signing

LEMMA StartStep ==
  ASSUME PackageInv, NEW o \in Calls, Start(o)
  PROVE  PackageInv'
  <1> DEFINE package == IF output = None THEN input ELSE output
  <1>1. /\ input' = package /\ options' = o /\ unpack_dir' = package /\ output' = None
        /\ output_bootzip' = NoFiles
        /\ pc' = IF CheckedOptions(o) THEN "first" ELSE "failed"
    BY DEF Start
  <1>2. IsPackage(package)
    BY DEF PackageInv, OutInv
  <1> HIDE DEF package
  <1>3. IsPackage(input)'
    BY <1>1, <1>2 DEF IsPackage
  <1>4. pc' = "first" => CallInv'
    BY <1>1 DEF CallInv, CheckedOptions, kernelflinger
  <1>5. UnpackInv'
    BY <1>1, <1>2 DEF UnpackInv, IsPackage, bootImages
  <1> QED BY <1>1, <1>3, <1>4, <1>5 DEF PackageInv, signing

LEMMA FailStep ==
  ASSUME PackageInv, pc \in signing, Fail
  PROVE  PackageInv'
  BY DEF PackageInv, signing, Fail, IsPackage

(* The input of the program and the call are those of the step before.     *)
LEMMA CallKept ==
  ASSUME PackageInv, pc \in signing, UNCHANGED <<input, options>>
  PROVE  IsPackage(input)' /\ CallInv'
  BY DEF PackageInv, IsPackage, CallInv, CheckedOptions, kernelflinger

(* Only the first stage's copy among the files of VENDOR is exchanged.     *)
LEMMA ArchiveUnpacked ==
  ASSUME PackageInv, pc \in signing, UNCHANGED <<input, options>>, NEW name, NEW done,
         unpack_dir' = [unpack_dir EXCEPT !.vendor = CopiedTo(@, name, done)]
  PROVE  /\ UnpackInv'
         /\ options.first_stage \in DOMAIN done /\ name \in DOMAIN unpack_dir'.vendor
              => unpack_dir'.vendor[name] = done[options.first_stage]
         /\ \A other \in DOMAIN unpack_dir.vendor \ {name} :
              unpack_dir'.vendor[other] = unpack_dir.vendor[other]
  <1>1. UnpackInv /\ IsPackage(input)
    BY DEF PackageInv
  <1> DEFINE vendor == CopiedTo(unpack_dir.vendor, name, done)
  <1>2. /\ DOMAIN vendor = DOMAIN unpack_dir.vendor
        /\ options.first_stage \in DOMAIN done /\ name \in DOMAIN vendor
             => vendor[name] = done[options.first_stage]
        /\ \A other \in DOMAIN vendor : other # name => vendor[other] = unpack_dir.vendor[other]
    BY DEF CopiedTo
  <1> HIDE DEF vendor
  <1>3. /\ unpack_dir'.vendor = vendor /\ DOMAIN unpack_dir' = DOMAIN unpack_dir
        /\ \A field \in DOMAIN unpack_dir \ {"vendor"} : unpack_dir'[field] = unpack_dir[field]
    BY <1>1 DEF vendor, UnpackInv, IsPackage
  <1>4. UnpackInv'
    BY <1>1, <1>2, <1>3 DEF UnpackInv, IsPackage
  <1> QED BY <1>2, <1>3, <1>4
LEMMA EspStep ==
  ASSUME PackageInv, ProcessEsp
  PROVE  PackageInv'
  <1>1. pc = "first" /\ pc \in signing /\ input.esp = unpack_dir.esp /\ input.esp # None
        /\ output_bootzip = NoFiles /\ output = None
    BY DEF ProcessEsp, PackageInv, UnpackInv, signing
  <1>2. CASE Fail
    BY <1>1, <1>2, FailStep
  <1>3. CASE ProcessArchive(unpack_dir.esp, TRUE, "kfld.efi", "second")
    <2>1. /\ output_bootzip' = Over(EspDone, output_bootzip)
          /\ unpack_dir' = [unpack_dir EXCEPT !.vendor = CopiedTo(@, "kfld.efi", EspDone)]
          /\ pc' = "second" /\ UNCHANGED <<input, options, output>>
      BY <1>1, <1>3 DEF ProcessArchive, EspDone
    <2>2. IsPackage(input)' /\ CallInv' /\ EspDone' = EspDone
      BY <1>1, <2>1, CallKept, DoneKept
    <2>3. /\ UnpackInv'
          /\ options.first_stage \in DOMAIN EspDone /\ "kfld.efi" \in DOMAIN unpack_dir'.vendor
               => unpack_dir'.vendor["kfld.efi"] = EspDone[options.first_stage]
      BY <1>1, <2>1, ArchiveUnpacked
    <2>4. CopyInv(EspDone, "kfld.efi")'
      BY <2>1, <2>2, <2>3 DEF CopyInv
    <2>5. EspInv'
      BY <1>1, <2>1, <2>2, <2>4 DEF EspInv
    <2> QED BY <1>1, <2>1, <2>2, <2>3, <2>5 DEF PackageInv, signing
  <1> QED BY <1>1, <1>2, <1>3 DEF ProcessEsp

LEMMA BootloaderStep ==
  ASSUME PackageInv, ProcessBootloader
  PROVE  PackageInv'
  <1> DEFINE name == IF pc = "second" THEN "bootloader.efi" ELSE "kernelflinger.efi"
  <1>1. /\ pc \in signing /\ output = None
        /\ input.bootloader = unpack_dir.bootloader /\ input.esp = unpack_dir.esp
    BY DEF ProcessBootloader, PackageInv, UnpackInv, signing
  <1>2. CASE Fail
    BY <1>1, <1>2, FailStep
  <1>3. CASE unpack_dir.bootloader # None /\ ProcessArchive(unpack_dir.bootloader, FALSE, name, "images")
    <2>1. /\ output_bootzip' = Over(BootDone, output_bootzip)
          /\ unpack_dir' = [unpack_dir EXCEPT !.vendor = CopiedTo(@, name, BootDone)]
          /\ pc' = "images" /\ UNCHANGED <<input, options, output>>
      BY <1>1, <1>3 DEF ProcessArchive, BootDone
    <2> HIDE DEF name
    <2>2. /\ IsPackage(input)' /\ CallInv'
          /\ EspDone' = EspDone /\ BootDone' = BootDone
      BY <1>1, <2>1, CallKept, DoneKept
    <2>3. /\ UnpackInv' /\ UnpackInv
          /\ options.first_stage \in DOMAIN BootDone /\ name \in DOMAIN unpack_dir'.vendor
               => unpack_dir'.vendor[name] = BootDone[options.first_stage]
          /\ \A other \in DOMAIN unpack_dir.vendor \ {name} :
               unpack_dir'.vendor[other] = unpack_dir.vendor[other]
      BY <1>1, <2>1, ArchiveUnpacked DEF PackageInv
    <2>4. CASE pc = "second"
      <3>1. EspInv /\ name = "bootloader.efi"
        BY <2>4 DEF PackageInv, name
      <3>2. CopyInv(EspDone, "kfld.efi")'
        <4>1. DOMAIN unpack_dir'.vendor = DOMAIN unpack_dir.vendor
          BY <2>1, <2>3 DEF UnpackInv
        <4> QED BY <2>1, <2>2, <2>3, <3>1, <4>1 DEF EspInv, CopyInv
      <3>3. ArchivesInv'
        BY <1>1, <1>3, <2>1, <2>2, <3>1, <3>2 DEF EspInv, ArchivesInv
      <3> QED BY <1>1, <2>1, <2>2, <2>3, <3>3 DEF PackageInv, signing
    <2>5. CASE pc # "second"
      <3>1. /\ input.esp = None /\ output_bootzip = NoFiles /\ name = "kernelflinger.efi"
        BY <1>1, <2>5 DEF ProcessBootloader, PackageInv, name
      <3>2. CopyInv(BootDone, "kernelflinger.efi")'
        BY <2>1, <2>2, <2>3, <3>1 DEF CopyInv
      <3>3. ArchivesInv'
        BY <1>1, <1>3, <2>1, <2>2, <3>1, <3>2 DEF ArchivesInv
      <3> QED BY <1>1, <2>1, <2>2, <2>3, <3>3 DEF PackageInv, signing
    <2> QED BY <2>4, <2>5
  <1> QED BY <1>2, <1>3 DEF ProcessBootloader

(* What has been made of both archives holds files only, all of them new   *)
(* or of the input.                                                        *)
LEMMA ArchivesFiles ==
  ASSUME IsPackage(input), CallInv, ArchivesInv
  PROVE  /\ Done(input.bootloader, FALSE, BootDone)
         /\ \A path \in DOMAIN BootDone : output_bootzip[path] = BootDone[path]
         /\ input.esp = None => DOMAIN output_bootzip = DOMAIN BootDone
         /\ input.esp # None =>
              /\ Done(input.esp, TRUE, EspDone)
              /\ DOMAIN output_bootzip = DOMAIN BootDone \cup DOMAIN EspDone
              /\ \A path \in DOMAIN EspDone \ DOMAIN BootDone :
                   output_bootzip[path] = EspDone[path]
         /\ \A path \in DOMAIN output_bootzip : IsFile(output_bootzip[path])
  <1>1. Done(input.bootloader, FALSE, BootDone)
    BY BootzipFacts DEF BootDone
  <1>2. \A path \in DOMAIN BootDone : IsFile(BootDone[path])
    <2>1. \A path \in DOMAIN input.bootloader : IsFile(input.bootloader[path])
      BY DEF IsPackage, ArchivesInv
    <2> QED BY <1>1, <2>1, DoneFiles
  <1>3. CASE input.esp = None
    <2>1. output_bootzip = Over(BootDone, NoFiles) /\ DOMAIN NoFiles = {}
      BY <1>3 DEF ArchivesInv, NoFiles
    <2>2. DOMAIN output_bootzip = DOMAIN BootDone
          /\ \A path \in DOMAIN BootDone : output_bootzip[path] = BootDone[path]
      <3>1. /\ DOMAIN Over(BootDone, NoFiles) = DOMAIN BootDone \cup DOMAIN NoFiles
            /\ \A path \in DOMAIN BootDone : Over(BootDone, NoFiles)[path] = BootDone[path]
        BY OverFacts
      <3> QED BY <2>1, <3>1
    <2> QED BY <1>1, <1>2, <1>3, <2>2 DEF IsFile
  <1>4. CASE input.esp # None
    <2>1. Done(input.esp, TRUE, EspDone)
      BY BootzipFacts DEF EspDone
    <2>2. \A path \in DOMAIN EspDone : IsFile(EspDone[path])
      <3>1. \A path \in DOMAIN input.esp : IsFile(input.esp[path])
        BY <1>4 DEF IsPackage
      <3> QED BY <2>1, <3>1, DoneFiles
    <2> DEFINE esp == Over(EspDone, NoFiles)
    <2>3. DOMAIN esp = DOMAIN EspDone /\ \A path \in DOMAIN EspDone : esp[path] = EspDone[path]
      <3>1. DOMAIN NoFiles = {}
        BY DEF NoFiles
      <3>2. /\ DOMAIN Over(EspDone, NoFiles) = DOMAIN EspDone \cup DOMAIN NoFiles
            /\ \A path \in DOMAIN EspDone : Over(EspDone, NoFiles)[path] = EspDone[path]
        BY OverFacts
      <3> QED BY <3>1, <3>2
    <2>4. output_bootzip = Over(BootDone, esp)
      BY <1>4 DEF ArchivesInv
    <2> HIDE DEF esp
    <2>5. /\ DOMAIN output_bootzip = DOMAIN BootDone \cup DOMAIN EspDone
          /\ \A path \in DOMAIN BootDone : output_bootzip[path] = BootDone[path]
          /\ \A path \in DOMAIN EspDone \ DOMAIN BootDone : output_bootzip[path] = EspDone[path]
      <3>1. /\ DOMAIN Over(BootDone, esp) = DOMAIN BootDone \cup DOMAIN esp
            /\ \A path \in DOMAIN BootDone : Over(BootDone, esp)[path] = BootDone[path]
            /\ \A path \in DOMAIN esp \ DOMAIN BootDone : Over(BootDone, esp)[path] = esp[path]
        BY OverFacts
      <3> QED BY <2>3, <2>4, <3>1
    <2> QED BY <1>1, <1>2, <1>4, <2>1, <2>2, <2>5 DEF IsFile
  <1> QED BY <1>3, <1>4
(* Nothing an archive was made of changes, so all that was said still is.  *)
LEMMA ArchivesKept ==
  ASSUME PackageInv, pc \in signing,
         UNCHANGED <<input, options, unpack_dir, output_bootzip>>
  PROVE  /\ IsPackage(input)' /\ CallInv' /\ UnpackInv'
         /\ ArchivesInv => ArchivesInv'
  <1>1. IsPackage(input)' /\ CallInv' /\ EspDone' = EspDone /\ BootDone' = BootDone
    BY CallKept, DoneKept
  <1>2. UnpackInv'
    BY DEF PackageInv, UnpackInv
  <1>3. ArchivesInv => ArchivesInv'
    BY <1>1 DEF ArchivesInv, CopyInv
  <1> QED BY <1>1, <1>2, <1>3

LEMMA BootImagesStep ==
  ASSUME PackageInv, MakeBootImages
  PROVE  PackageInv'
  <1>1. /\ pc = "images" /\ pc \in signing /\ pc' = "pack" /\ output = None
        /\ UNCHANGED <<input, options, unpack_dir, output_bootzip, output>>
        /\ boot' = [name \in bootImages |-> Rebuilt(name)]
    BY DEF MakeBootImages, PackageInv, signing
  <1>2. IsPackage(input)' /\ CallInv' /\ UnpackInv' /\ ArchivesInv'
    BY <1>1, ArchivesKept DEF PackageInv
  <1>3. BootInv'
    BY <1>1 DEF BootInv, Rebuilt
  <1> QED BY <1>1, <1>2, <1>3 DEF PackageInv, signing

(* The output is a package again, so that it can be signed once more.      *)
LEMMA PackStep ==
  ASSUME PackageInv, Pack
  PROVE  PackageInv'
  <1>1. pc = "pack" /\ pc \in signing /\ IsPackage(input) /\ CallInv /\ ArchivesInv /\ BootInv
    BY DEF Pack, PackageInv, signing
  <1>2. CASE Fail
    BY <1>1, <1>2, FailStep
  <1>3. CASE ~Fail
    <2>1. /\ output' = Packed /\ pc' = "idle"
          /\ UNCHANGED <<input, options, unpack_dir, output_bootzip, boot>>
      BY <1>3 DEF Pack
    <2>2. IsPackage(input)' /\ CallInv' /\ UnpackInv' /\ ArchivesInv'
      BY <1>1, <2>1, ArchivesKept
    <2>3. BootInv' /\ Packed' = Packed
      BY <1>1, <2>1 DEF BootInv, Rebuilt, Packed
    <2>4. IsPackage(Packed)
      <3>1. /\ DOMAIN Packed = DOMAIN input /\ Packed.prebuilt = boot
            /\ Packed.bootloader = output_bootzip
            /\ Packed.esp = IF input.esp = None THEN None ELSE output_bootzip
        BY <1>1 DEF Packed, IsPackage
      <3>2. DOMAIN boot = {"fastboot.img", "tdos.img"}
        BY <1>1 DEF BootInv, bootImages
      <3>3. \A path \in DOMAIN output_bootzip : IsFile(output_bootzip[path])
        BY <1>1, ArchivesFiles
      <3>4. Packed.fls = input.fls /\ Packed.provdata = input.provdata
        BY <1>1 DEF Packed, IsPackage
      <3> QED BY <1>1, <3>1, <3>2, <3>3, <3>4 DEF IsPackage
    <2>5. OutInv'
      BY <2>1, <2>3, <2>4 DEF OutInv, IsPackage
    <2> QED BY <2>1, <2>2, <2>3, <2>5 DEF PackageInv, signing
  <1> QED BY <1>2, <1>3

(* Installing and verifying leave what was signed alone.                   *)
LEMMA DeviceStep ==
  ASSUME PackageInv, pc \notin signing, pc' \notin signing,
         output # None => pc' \in {"idle", "installed", "verified"},
         UNCHANGED <<input, options, unpack_dir, output_bootzip, boot, output>>
  PROVE  PackageInv'
  <1>1. IsPackage(input)' /\ EspDone' = EspDone /\ BootDone' = BootDone
    BY DoneKept DEF PackageInv, IsPackage
  <1>2. ASSUME output # None
        PROVE  CallInv' /\ UnpackInv' /\ ArchivesInv' /\ BootInv' /\ OutInv'
    <2>1. CallInv' /\ UnpackInv'
      BY <1>2 DEF PackageInv, CallInv, CheckedOptions, kernelflinger, UnpackInv
    <2>2. ArchivesInv'
      BY <1>1, <1>2 DEF PackageInv, ArchivesInv, CopyInv
    <2>3. BootInv'
      BY <1>2 DEF PackageInv, BootInv, Rebuilt
    <2>4. OutInv'
      BY <1>2 DEF PackageInv, OutInv, Packed, IsPackage
    <2> QED BY <2>1, <2>2, <2>3, <2>4
  <1> QED BY <1>1, <1>2 DEF PackageInv, signing

LEMMA PackageStep ==
  PackageInv /\ [Next]_vars => PackageInv'
  <1> SUFFICES ASSUME PackageInv, [Next]_vars PROVE PackageInv'
    OBVIOUS
  <1>1. CASE \E o \in Calls : Start(o)
    BY <1>1, StartStep
  <1>2. CASE ProcessEsp
    BY <1>2, EspStep
  <1>3. CASE ProcessBootloader
    BY <1>3, BootloaderStep
  <1>4. CASE MakeBootImages
    BY <1>4, BootImagesStep
  <1>5. CASE Pack
    BY <1>5, PackStep
  <1>6. CASE \E variant \in Variants \cup {None}, made \in BOOLEAN : Install(variant, made)
    BY <1>6, DeviceStep DEF Install, signing
  <1>7. CASE ConsumeCapsule
    BY <1>7, DeviceStep DEF ConsumeCapsule, signing
  <1>8. CASE Alter
    BY <1>8, DeviceStep DEF Alter, signing
  <1>9. CASE \E variant \in Variants \cup {None} : Verify(variant)
    BY <1>9, DeviceStep DEF Verify, signing
  <1>10. CASE UNCHANGED vars
    <2>1. CASE pc \in signing
      <3>1. UNCHANGED <<pc, input, options, unpack_dir, output_bootzip, boot, output>>
        BY <1>10 DEF vars
      <3>2. IsPackage(input)' /\ CallInv' /\ UnpackInv' /\ (ArchivesInv => ArchivesInv')
            /\ EspDone' = EspDone
        BY <2>1, <3>1, ArchivesKept, DoneKept
      <3>3. (EspInv => EspInv') /\ (BootInv => BootInv')
        BY <3>1, <3>2 DEF EspInv, CopyInv, BootInv, Rebuilt
      <3> QED BY <2>1, <3>1, <3>2, <3>3 DEF PackageInv, signing
    <2>2. CASE pc \notin signing
      BY <1>10, <2>2, DeviceStep DEF vars, PackageInv, OutInv
    <2> QED BY <2>1, <2>2
  <1> QED BY <1>1, <1>2, <1>3, <1>4, <1>5, <1>6, <1>7, <1>8, <1>9, <1>10 DEF Next

(* In every state, what has been made of the package is what the phase     *)
(* says.                                                                   *)
THEOREM PackageInvariant == Spec => []PackageInv
  BY PackageInit, PackageStep, PTL DEF Spec
-----------------------------------------------------------------------------
(* What the output holds.                                                  *)

LEMMA OutputFacts ==
  ASSUME PackageInv, output # None
  PROVE  /\ CallInv /\ UnpackInv /\ ArchivesInv /\ IsPackage(input)
         /\ output.bootloader = output_bootzip
         /\ output.esp = IF input.esp = None THEN None ELSE output_bootzip
         /\ output.prebuilt = [name \in bootImages |-> Rebuilt(name)]
         /\ output.vendor = [name \in DOMAIN input.vendor |->
                               IF name \in writtenBack THEN unpack_dir.vendor[name]
                               ELSE input.vendor[name]]
  <1>1. /\ CallInv /\ UnpackInv /\ ArchivesInv /\ IsPackage(input) /\ BootInv
        /\ output = Packed
    BY DEF PackageInv, OutInv
  <1> QED BY <1>1 DEF Packed, IsPackage, BootInv

(* Where a loader of the output comes from: bootloader.zip, or esp.zip if  *)
(* it is not there.                                                        *)
LEMMA LoaderFacts ==
  ASSUME PackageInv, output # None, NEW path \in Paths(input) \ skipped
  PROVE  /\ path \in DOMAIN output.bootloader
         /\ \E esp \in BOOLEAN :
              /\ path \in DOMAIN input.bootloader => ~esp
              /\ Processed(path, Before(path), esp, output.bootloader[path])
  <1>1. /\ CallInv /\ ArchivesInv /\ IsPackage(input) /\ output.bootloader = output_bootzip
    BY OutputFacts
  <1>2. CASE path \in DOMAIN input.bootloader
    <2>1. IsFile(input.bootloader[path]) /\ Before(path) = input.bootloader[path]
      BY <1>1, <1>2 DEF IsPackage, ArchivesInv, Before
    <2>2. /\ path \in DOMAIN BootDone
          /\ BootDone[path] = ProcessedFile(path, input.bootloader[path], FALSE)
      BY <1>1, <1>2, ArchivesFiles DEF Done
    <2>3. path \in DOMAIN output_bootzip /\ output_bootzip[path] = BootDone[path]
      BY <1>1, <2>2, ArchivesFiles
    <2>4. Processed(path, Before(path), FALSE, ProcessedFile(path, Before(path), FALSE))
      BY <1>1, <2>1, ProcessedFacts
    <2> QED BY <1>1, <2>1, <2>2, <2>3, <2>4
  <1>3. CASE path \notin DOMAIN input.bootloader
    <2>1. input.esp # None /\ path \in DOMAIN input.esp
      BY <1>3 DEF Paths
    <2>2. IsFile(input.esp[path]) /\ Before(path) = input.esp[path]
      BY <1>1, <1>3, <2>1 DEF IsPackage, Before
    <2>3. /\ path \in DOMAIN EspDone \ DOMAIN BootDone
          /\ EspDone[path] = ProcessedFile(path, input.esp[path], TRUE)
      BY <1>1, <1>3, <2>1, ArchivesFiles DEF Done
    <2>4. path \in DOMAIN output_bootzip /\ output_bootzip[path] = EspDone[path]
      BY <1>1, <2>1, <2>3, ArchivesFiles
    <2>5. Processed(path, Before(path), TRUE, ProcessedFile(path, Before(path), TRUE))
      BY <1>1, <2>2, ProcessedFacts
    <2> QED BY <1>1, <1>3, <2>2, <2>3, <2>4, <2>5
  <1> QED BY <1>2, <1>3

LEMMA InvKept == PackageInv => LoadersKept
  <1> SUFFICES ASSUME PackageInv, output # None PROVE LoadersKept
    BY DEF LoadersKept
  <1>1. /\ CallInv /\ ArchivesInv /\ IsPackage(input) /\ output.bootloader = output_bootzip
        /\ output.esp = IF input.esp = None THEN None ELSE output_bootzip
    BY OutputFacts
  <1>2. ASSUME NEW path \in Paths(input) \ skipped
        PROVE  /\ path \in DOMAIN output.bootloader
               /\ path \notin DOMAIN options.replace
                    => output.bootloader[path].body = Before(path).body
    BY LoaderFacts DEF Processed
  <1>3. output.esp # None => output.esp = output.bootloader
    BY <1>1
  <1>4. Paths(output) \subseteq Paths(input) \cup skipped
    <2>1. Paths(output) = DOMAIN output_bootzip
      BY <1>1 DEF Paths
    <2>2. DOMAIN BootDone \subseteq DOMAIN input.bootloader \cup skipped
      BY <1>1, ArchivesFiles DEF Done
    <2>3. CASE input.esp = None
      BY <1>1, <2>1, <2>2, <2>3, ArchivesFiles DEF Paths
    <2>4. CASE input.esp # None
      <3>1. /\ DOMAIN EspDone \subseteq DOMAIN input.esp \cup skipped
            /\ DOMAIN output_bootzip = DOMAIN BootDone \cup DOMAIN EspDone
        BY <1>1, <2>4, ArchivesFiles DEF Done
      <3> QED BY <2>1, <2>2, <2>4, <3>1 DEF Paths
    <2> QED BY <2>3, <2>4
  <1> QED BY <1>2, <1>3, <1>4 DEF LoadersKept

LEMMA InvSigned == PackageInv => LoadersSigned
  <1> SUFFICES ASSUME PackageInv, output # None PROVE LoadersSigned
    BY DEF LoadersSigned
  <1>1. /\ CallInv /\ UnpackInv /\ ArchivesInv /\ IsPackage(input)
        /\ output.bootloader = output_bootzip
        /\ output.prebuilt = [name \in bootImages |-> Rebuilt(name)]
    BY OutputFacts
  <1>2. DOMAIN options.key_map \cap DOMAIN options.replace = {}
        /\ (options.oem_key # None => kernelflinger(options) \in DOMAIN options.key_map)
    BY <1>1 DEF CallInv, CheckedOptions
  <1>3. ASSUME NEW path \in (DOMAIN output.bootloader \cap DOMAIN options.key_map) \ skipped
        PROVE  Verifies(output.bootloader[path], options.key_map[path])
    <2>1. path \in Paths(input) \ skipped
      <3>1. path \in DOMAIN BootDone \/ (input.esp # None /\ path \in DOMAIN EspDone)
        BY <1>1, ArchivesFiles
      <3> QED BY <1>1, <3>1, ArchivesFiles DEF Done, Paths
    <2> QED BY <2>1, LoaderFacts DEF Processed
  <1>4. ASSUME MappedKF4, NEW path \in Paths(input) \ (skipped \cup DOMAIN options.replace),
               Verifies(Before(path), Before(path).by)
        PROVE  Verifies(output.bootloader[path], output.bootloader[path].by)
    <2>1. CASE path \in DOMAIN options.key_map
      <3>1. path \in DOMAIN output.bootloader
        BY LoaderFacts
      <3>2. Verifies(output.bootloader[path], options.key_map[path])
        BY <1>3, <2>1, <3>1
      <3> QED BY <3>2 DEF Verifies
    <2>2. CASE path \notin DOMAIN options.key_map
      <3>1. ASSUME NEW esp PROVE ~NewKeys(path, esp)
        BY <1>2, <1>4, <2>2 DEF NewKeys, MappedKF4
      <3>2. output.bootloader[path] = Before(path)
        BY <1>4, <2>2, <3>1, LoaderFacts DEF Processed
      <3> QED BY <1>4, <3>2
    <2> QED BY <2>1, <2>2
  <1>5. ASSUME options.oem_key # None,
               kernelflinger(options) \in DOMAIN input.bootloader \ skipped
        PROVE  output.bootloader[kernelflinger(options)].keys = options.avb_key
    <2> DEFINE path == kernelflinger(options)
    <2>1. path \in DOMAIN options.key_map /\ NewKeys(path, FALSE) /\ path \in Paths(input) \ skipped
      BY <1>2, <1>5 DEF NewKeys, Paths
    <2>2. Processed(path, Before(path), FALSE, output.bootloader[path])
      BY <1>5, <2>1, LoaderFacts
    <2> QED BY <2>1, <2>2 DEF Processed
  <1>6. ASSUME NEW name \in bootImages, output.prebuilt[name] # None, input.verity # None
        PROVE  Verifies(output.prebuilt[name], input.verity)
    <2> DEFINE pkg == [unpack_dir EXCEPT !.prebuilt[name] = None]
    <2>1. output.prebuilt[name] = BootImage(pkg, name)
      BY <1>1 DEF Rebuilt
    <2>2. pkg.prebuilt[name] = None /\ pkg.verity = input.verity
      BY <1>1 DEF UnpackInv, IsPackage
    <2> HIDE DEF pkg
    <2>3. output.prebuilt[name] = Sign(File(name), input.verity)
      BY <1>6, <2>1, <2>2 DEF BootImage
    <2> QED BY <2>3, SignFacts DEF File, IsFile
  <1> QED BY <1>3, <1>4, <1>5, <1>6 DEF LoadersSigned
(* The first stage of either archive: the same loader, and the one that    *)
(* its copies in that archive are made of.                                 *)
LEMMA FirstStageFacts ==
  ASSUME PackageInv, output # None, ArchivesAgree,
         options.first_stage \in Paths(input) \ skipped
  PROVE  LET fs    == options.first_stage
             first == output.bootloader[fs]
         IN  /\ fs \in DOMAIN input.bootloader => first = BootDone[fs]
             /\ input.esp # None /\ fs \in DOMAIN input.esp => SameLoader(EspDone[fs], first)
             /\ fs \notin DOMAIN input.bootloader => first = EspDone[fs]
             /\ SameLoader(first, first)
  <1> DEFINE fs    == options.first_stage
             first == output.bootloader[fs]
  <1>1. /\ CallInv /\ ArchivesInv /\ IsPackage(input) /\ output.bootloader = output_bootzip
    BY OutputFacts
  <1>2. fs \in DOMAIN input.bootloader => fs \in DOMAIN BootDone /\ first = BootDone[fs]
    BY <1>1, ArchivesFiles DEF Done
  <1>3. fs \notin DOMAIN input.bootloader =>
          /\ input.esp # None /\ fs \in DOMAIN input.esp /\ first = EspDone[fs]
    <2> SUFFICES ASSUME fs \notin DOMAIN input.bootloader
                 PROVE  input.esp # None /\ fs \in DOMAIN input.esp /\ first = EspDone[fs]
      OBVIOUS
    <2>1. input.esp # None /\ fs \in DOMAIN input.esp
      BY DEF Paths
    <2>2. fs \in DOMAIN EspDone \ DOMAIN BootDone
      BY <1>1, <2>1, ArchivesFiles DEF Done
    <2> QED BY <1>1, <2>1, <2>2, ArchivesFiles
  <1>4. PICK esp \in BOOLEAN : Processed(fs, Before(fs), esp, first)
    BY LoaderFacts
  <1>5. SameLoader(first, first)
    BY <1>4 DEF SameLoader, Processed
  <1>6. ASSUME input.esp # None, fs \in DOMAIN input.esp
        PROVE  SameLoader(EspDone[fs], first)
    <2>1. Processed(fs, input.esp[fs], TRUE, EspDone[fs])
      <3>1. EspDone[fs] = ProcessedFile(fs, input.esp[fs], TRUE)
        BY <1>1, <1>6, ArchivesFiles DEF Done
      <3>2. IsFile(input.esp[fs])
        BY <1>1, <1>6 DEF IsPackage
      <3> QED BY <1>1, <3>1, <3>2, ProcessedFacts
    <2>2. input.esp[fs].body = Before(fs).body
      BY <1>6 DEF ArchivesAgree, Before
    <2>3. EspDone[fs].body = first.body
      BY <1>4, <2>1, <2>2 DEF Processed
    <2> QED BY <2>1, <2>3 DEF SameLoader, Processed
  <1> QED BY <1>2, <1>3, <1>5, <1>6

LEMMA InvCopies == PackageInv => FirstStageCopies
  <1> SUFFICES ASSUME PackageInv, output # None, ArchivesAgree,
                      options.first_stage \in Paths(input) \ skipped
               PROVE  FirstStageCopies
    BY DEF FirstStageCopies
  <1> DEFINE fs    == options.first_stage
             first == output.bootloader[fs]
             name  == IF input.esp = None THEN "kernelflinger.efi" ELSE "kfld.efi"
             from  == IF input.esp = None THEN input.bootloader ELSE input.esp
  <1>1. /\ CallInv /\ UnpackInv /\ ArchivesInv /\ IsPackage(input)
        /\ output.bootloader = output_bootzip
        /\ output.vendor = [n \in DOMAIN input.vendor |->
                              IF n \in writtenBack THEN unpack_dir.vendor[n] ELSE input.vendor[n]]
    BY OutputFacts
  <1>2. /\ fs \in DOMAIN input.bootloader => first = BootDone[fs]
        /\ input.esp # None /\ fs \in DOMAIN input.esp => SameLoader(EspDone[fs], first)
        /\ fs \notin DOMAIN input.bootloader => first = EspDone[fs]
        /\ SameLoader(first, first)
    BY FirstStageFacts
  <1>3. /\ Done(input.bootloader, FALSE, BootDone)
        /\ input.esp # None => Done(input.esp, TRUE, EspDone)
    BY <1>1, ArchivesFiles
  <1>4. fs \notin skipped /\ fallbacks \subseteq skipped
    BY DEF skipped
  <1> HIDE DEF first
  <1>5. /\ Width(first) \in DOMAIN output.bootloader
        /\ output.bootloader[Width(first)] = first
        /\ DOMAIN output.bootloader \cap fallbacks = {Width(first)}
    <2>1. CASE fs \in DOMAIN input.bootloader
      <3>1. /\ DOMAIN BootDone \cap fallbacks = {Width(first)}
            /\ \A path \in DOMAIN BootDone \cap skipped : BootDone[path] = first
        BY <1>2, <1>3, <1>4, <2>1 DEF Done
      <3>2. Width(first) \in DOMAIN BootDone /\ BootDone[Width(first)] = first
        BY <1>4, <3>1
      <3>3. input.esp # None => DOMAIN EspDone \cap fallbacks \subseteq {Width(first)}
        <4>1. CASE input.esp # None /\ fs \in DOMAIN input.esp
          <5>1. DOMAIN EspDone \cap fallbacks = {Width(EspDone[fs])}
            BY <1>3, <1>4, <4>1 DEF Done
          <5>2. EspDone[fs].body = first.body
            BY <1>2, <4>1 DEF SameLoader
          <5> QED BY <5>1, <5>2 DEF Width
        <4>2. CASE input.esp # None /\ fs \notin DOMAIN input.esp
          BY <1>3, <1>4, <4>2 DEF Done
        <4> QED BY <4>1, <4>2
      <3>4. /\ Width(first) \in DOMAIN output_bootzip
            /\ output_bootzip[Width(first)] = BootDone[Width(first)]
            /\ DOMAIN output_bootzip \cap fallbacks = {Width(first)}
        BY <1>1, <3>1, <3>2, <3>3, ArchivesFiles
      <3> QED BY <1>1, <3>2, <3>4
    <2>2. CASE fs \notin DOMAIN input.bootloader
      <3>1. input.esp # None /\ fs \in DOMAIN input.esp
        BY <2>2 DEF Paths
      <3>2. /\ DOMAIN EspDone \cap fallbacks = {Width(first)}
            /\ \A path \in DOMAIN EspDone \cap skipped : EspDone[path] = first
        BY <1>2, <1>3, <1>4, <2>2, <3>1 DEF Done
      <3>3. DOMAIN BootDone \cap skipped = {}
        BY <1>3, <2>2 DEF Done
      <3>4. Width(first) \in DOMAIN EspDone \ DOMAIN BootDone /\ EspDone[Width(first)] = first
        BY <1>4, <3>2, <3>3
      <3>5. /\ DOMAIN output_bootzip = DOMAIN BootDone \cup DOMAIN EspDone
            /\ output_bootzip[Width(first)] = EspDone[Width(first)]
        BY <1>1, <3>1, <3>4, ArchivesFiles
      <3> QED BY <1>1, <1>4, <3>2, <3>3, <3>4, <3>5
    <2> QED BY <2>1, <2>2
  <1>6. ASSUME name \in DOMAIN output.vendor, fs \in DOMAIN from
        PROVE  SameLoader(output.vendor[name], first)
    <2>1. output.vendor[name] = unpack_dir.vendor[name] /\ name \in DOMAIN unpack_dir.vendor
      BY <1>1, <1>6 DEF writtenBack, UnpackInv
    <2>2. CASE input.esp = None
      <3>1. fs \in DOMAIN BootDone
        BY <1>3, <1>4, <1>6, <2>2 DEF Done
      <3>2. unpack_dir.vendor[name] = BootDone[fs]
        BY <1>1, <2>1, <2>2, <3>1 DEF ArchivesInv, CopyInv
      <3> QED BY <1>2, <1>6, <2>1, <2>2, <3>2
    <2>3. CASE input.esp # None
      <3>1. fs \in DOMAIN EspDone
        BY <1>3, <1>4, <1>6, <2>3 DEF Done
      <3>2. unpack_dir.vendor[name] = EspDone[fs]
        BY <1>1, <2>1, <2>3, <3>1 DEF ArchivesInv, CopyInv
      <3> QED BY <1>2, <1>6, <2>1, <2>3, <3>2
    <2> QED BY <2>2, <2>3
  <1> QED BY <1>5, <1>6 DEF FirstStageCopies, Width, first

(* Signing loses no loader of either archive and swaps none.               *)
THEOREM SigningKeepsLoaders == Spec => []LoadersKept
  BY PackageInvariant, InvKept, PTL

(* Every loader that -k names verifies under its key, with the OEM keys it *)
(* holds, no other loses its signature, and boot images are signed with    *)
(* the key of the package.                                                 *)
THEOREM SigningSigns == Spec => []LoadersSigned
  BY PackageInvariant, InvSigned, PTL

(* All that boots without a boot entry is the signed first stage of the    *)
(* package.                                                                *)
THEOREM CopiesAreFirstStage == Spec => []FirstStageCopies
  BY PackageInvariant, InvCopies, PTL
-----------------------------------------------------------------------------
(* A device and the package it is verified with. Flashing goes through the *)
(* commands one by one, the list of what a partition is to hold through    *)
(* all of them: that both say the same needs an induction over them.       *)

FlashOne(flashed, provdata, c) ==
  IF c.type = "fls" /\ c.core # "smp_profiling" THEN Flash(flashed, provdata, c) ELSE flashed

FlashTo(provdata, f, n) ==
  f = [T \in SUBSET (1..n) |->
         IF T = {} THEN NoFiles
         ELSE FlashOne(f[T \ {Max(T)}], provdata, Package.fls[Max(T)])]

(* There is a function that obeys the recursion of the fold.               *)
LEMMA FlashExists ==
  ASSUME NEW provdata, NEW n \in Nat
  PROVE  \E f : FlashTo(provdata, f, n)
  <1> DEFINE S == {m \in Nat : \E f : FlashTo(provdata, f, m)}
  <1>1. 0 \in S
    <2>1. FlashTo(provdata, [T \in SUBSET (1..0) |-> NoFiles], 0)
      BY DEF FlashTo
    <2> QED BY <2>1
  <1>2. ASSUME NEW m \in Nat, m \in S
        PROVE  m + 1 \in S
    <2>1. PICK f : FlashTo(provdata, f, m)
      BY <1>2
    <2> DEFINE g == [T \in SUBSET (1..(m + 1)) |->
                       IF T \subseteq 1..m THEN f[T]
                       ELSE FlashOne(f[T \ {m + 1}], provdata, Package.fls[m + 1])]
    <2>2. ASSUME NEW T \in SUBSET (1..(m + 1))
          PROVE  g[T] = IF T = {} THEN NoFiles
                        ELSE FlashOne(g[T \ {Max(T)}], provdata, Package.fls[Max(T)])
      <3>1. CASE T \subseteq 1..m
        <4>1. f[T] = IF T = {} THEN NoFiles
                     ELSE FlashOne(f[T \ {Max(T)}], provdata, Package.fls[Max(T)])
          BY <2>1, <3>1 DEF FlashTo
        <4>2. g[T] = f[T] /\ g[T \ {Max(T)}] = f[T \ {Max(T)}]
          BY <3>1
        <4> HIDE DEF g
        <4> QED BY <4>1, <4>2
      <3>2. CASE ~(T \subseteq 1..m)
        <4>1. m + 1 \in T /\ T \subseteq Nat /\ \A k \in T : k <= m + 1
          BY <3>2
        <4>2. Max(T) = m + 1
          BY <4>1, MaxOf
        <4>3. g[T] = FlashOne(f[T \ {m + 1}], provdata, Package.fls[m + 1])
          BY <3>2
        <4>4. T \ {m + 1} \in SUBSET (1..m)
          OBVIOUS
        <4>5. g[T \ {m + 1}] = f[T \ {m + 1}]
          BY <4>4
        <4>6. T # {}
          BY <4>1
        <4> HIDE DEF g
        <4> QED BY <4>2, <4>3, <4>5, <4>6
      <3> QED BY <3>1, <3>2
    <2>3. g = [T \in SUBSET (1..(m + 1)) |->
                 IF T = {} THEN NoFiles
                 ELSE FlashOne(g[T \ {Max(T)}], provdata, Package.fls[Max(T)])]
      BY <2>2
    <2> HIDE DEF g
    <2>4. FlashTo(provdata, g, m + 1)
      BY <2>3 DEF FlashTo
    <2> QED BY <2>4
  <1> HIDE DEF S
  <1>3. n \in S
    BY <1>1, <1>2, SetInduction
  <1> QED BY <1>3 DEF S

(* Flashing command by command.                                            *)
LEMMA FlashedUnfolds ==
  ASSUME NEW provdata, IsSeq(Package.fls)
  PROVE  \E g : /\ g[0] = NoFiles
                /\ \A m \in 1..Len(Package.fls) :
                     g[m] = FlashOne(g[m - 1], provdata, Package.fls[m])
                /\ Flashed(Package.fls, provdata) = g[Len(Package.fls)]
  <1> DEFINE n == Len(Package.fls)
  <1>1. n \in Nat /\ DOMAIN Package.fls = 1..n
    BY SeqShape
  <1> DEFINE F == CHOOSE f : f = [T \in SUBSET (1..n) |->
                    IF T = {} THEN NoFiles
                    ELSE FlashOne(f[T \ {Max(T)}], provdata, Package.fls[Max(T)])]
  <1>2. F = [T \in SUBSET (1..n) |->
               IF T = {} THEN NoFiles
               ELSE FlashOne(F[T \ {Max(T)}], provdata, Package.fls[Max(T)])]
    <2>1. \E f : f = [T \in SUBSET (1..n) |->
               IF T = {} THEN NoFiles
               ELSE FlashOne(f[T \ {Max(T)}], provdata, Package.fls[Max(T)])]
      BY <1>1, FlashExists DEF FlashTo
    <2> QED BY <2>1
  <1>3. Flashed(Package.fls, provdata) = F[1..n]
    BY <1>1, Zenon DEF Flashed, FoldLeft, MapThenFoldSet, FlashOne
  <1> HIDE DEF F
  <1> DEFINE g == [m \in 0..n |-> F[1..m]]
  <1>4. g[0] = NoFiles
    <2>1. 1..0 = {} /\ {} \in SUBSET (1..n)
      OBVIOUS
    <2>2. F[{}] = NoFiles
      BY <1>2, <2>1
    <2> QED BY <1>1, <2>1, <2>2
  <1>5. ASSUME NEW m \in 1..n
        PROVE  g[m] = FlashOne(g[m - 1], provdata, Package.fls[m])
    <2>1. m - 1 \in Nat /\ (m - 1) + 1 = m
      BY <1>1
    <2>2. Max(1..m) = m /\ (1..m) \ {m} = 1..(m - 1)
      BY <2>1, MaxOfFirst
    <2>3. 1..m \in SUBSET (1..n) /\ 1..m # {}
      BY <1>1
    <2>4. F[1..m] = FlashOne(F[1..(m - 1)], provdata, Package.fls[m])
      BY <1>2, <2>2, <2>3
    <2>5. g[m] = F[1..m] /\ g[m - 1] = F[1..(m - 1)]
      BY <1>1
    <2> HIDE DEF g
    <2> QED BY <2>4, <2>5
  <1>6. g[n] = F[1..n]
    BY <1>1
  <1> HIDE DEF g
  <1> QED BY <1>3, <1>4, <1>5, <1>6

(* After the first m commands: a partition holds the file of the last of   *)
(* them that is for it.                                                    *)
FirstOf(m, p) == {i \in 1..m : i \in CommandsOf(Package, p)}

FlashedOf(provdata, flashed, m) ==
  /\ \A p : p \in DOMAIN flashed <=> FirstOf(m, p) # {}
  /\ \A p : FirstOf(m, p) # {} =>
       flashed[p] = Extracted(provdata, p, Package.fls[Max(FirstOf(m, p))].target)

(* One more command.                                                       *)
LEMMA FlashedOneMore ==
  ASSUME NEW provdata, IsSeq(Package.fls), NEW m \in Nat, m + 1 \in 1..Len(Package.fls),
         NEW flashed, FlashedOf(provdata, flashed, m)
  PROVE  FlashedOf(provdata, FlashOne(flashed, provdata, Package.fls[m + 1]), m + 1)
  <1> DEFINE c    == Package.fls[m + 1]
             done == FlashOne(flashed, provdata, c)
  <1>1. DOMAIN Package.fls = 1..Len(Package.fls)
    BY SeqShape
  <1>2. m + 1 \in Flashing(Package) <=> c.type = "fls" /\ c.core # "smp_profiling"
    BY <1>1 DEF Flashing, FlsCommands
  <1>3. ASSUME NEW p
        PROVE  FirstOf(m + 1, p) = IF m + 1 \in CommandsOf(Package, p)
                                   THEN FirstOf(m, p) \cup {m + 1} ELSE FirstOf(m, p)
    BY DEF FirstOf
  <1>4. CASE m + 1 \notin Flashing(Package)
    <2>1. done = flashed
      BY <1>2, <1>4 DEF FlashOne
    <2>2. \A p : FirstOf(m + 1, p) = FirstOf(m, p)
      BY <1>3, <1>4 DEF CommandsOf
    <2> HIDE DEF done
    <2> QED BY <2>1, <2>2 DEF FlashedOf, done
  <1>5. CASE m + 1 \in Flashing(Package)
    <2>1. done = Over(Only(c.partition, Extracted(provdata, c.partition, c.target)), flashed)
      BY <1>2, <1>5 DEF FlashOne, Flash
    <2>2. /\ DOMAIN done = {c.partition} \cup DOMAIN flashed
          /\ done[c.partition] = Extracted(provdata, c.partition, c.target)
          /\ \A p \in DOMAIN flashed : p # c.partition => done[p] = flashed[p]
      <3> DEFINE one == Only(c.partition, Extracted(provdata, c.partition, c.target))
      <3>1. DOMAIN one = {c.partition} /\ one[c.partition] = Extracted(provdata, c.partition, c.target)
        BY DEF Only
      <3>2. done = Over(one, flashed)
        BY <2>1
      <3> HIDE DEF one, done
      <3>3. /\ DOMAIN Over(one, flashed) = DOMAIN one \cup DOMAIN flashed
            /\ \A x \in DOMAIN one : Over(one, flashed)[x] = one[x]
            /\ \A x \in DOMAIN flashed \ DOMAIN one : Over(one, flashed)[x] = flashed[x]
        BY OverFacts
      <3> QED BY <3>1, <3>2, <3>3
    <2> HIDE DEF done
    <2>3. \A p : m + 1 \in CommandsOf(Package, p) <=> p = c.partition
      BY <1>5 DEF CommandsOf
    <2>4. Max(FirstOf(m + 1, c.partition)) = m + 1 /\ FirstOf(m + 1, c.partition) # {}
      <3> DEFINE T == FirstOf(m + 1, c.partition)
      <3>1. T \subseteq 1..(m + 1) /\ m + 1 \in T
        BY <1>3, <2>3 DEF FirstOf
      <3> HIDE DEF T
      <3>2. m + 1 \in T /\ T \subseteq Nat /\ \A k \in T : k <= m + 1
        BY <3>1
      <3> QED BY <3>2, MaxOf DEF T
    <2>5. \A p : p # c.partition => FirstOf(m + 1, p) = FirstOf(m, p)
      BY <1>3, <2>3
    <2>6. ASSUME NEW p
          PROVE  /\ p \in DOMAIN done <=> FirstOf(m + 1, p) # {}
                 /\ FirstOf(m + 1, p) # {} =>
                      done[p] = Extracted(provdata, p, Package.fls[Max(FirstOf(m + 1, p))].target)
      <3>1. CASE p = c.partition
        BY <2>2, <2>4, <3>1
      <3>2. CASE p # c.partition
        BY <2>2, <2>5, <3>2 DEF FlashedOf
      <3> QED BY <3>1, <3>2
    <2> QED BY <2>6 DEF FlashedOf, done
  <1> QED BY <1>4, <1>5

(* What is flashed is what get_partition_target_hash says.                 *)
LEMMA FlashedFacts ==
  ASSUME NEW provdata, IsSeq(Package.fls)
  PROVE  /\ DOMAIN Flashed(Package.fls, provdata) = DOMAIN get_partition_target_hash(Package)
         /\ \A p \in DOMAIN Flashed(Package.fls, provdata) :
              Flashed(Package.fls, provdata)[p]
                = Extracted(provdata, p, get_partition_target_hash(Package)[p])
  <1> DEFINE n == Len(Package.fls)
  <1>1. n \in Nat /\ DOMAIN Package.fls = 1..n
    BY SeqShape
  <1>2. PICK g : /\ g[0] = NoFiles
                 /\ \A m \in 1..n : g[m] = FlashOne(g[m - 1], provdata, Package.fls[m])
                 /\ Flashed(Package.fls, provdata) = g[n]
    BY FlashedUnfolds
  <1> DEFINE S == {m \in Nat : m <= n => FlashedOf(provdata, g[m], m)}
  <1>3. 0 \in S
    <2>1. \A p : FirstOf(0, p) = {}
      BY DEF FirstOf
    <2>2. DOMAIN g[0] = {}
      BY <1>2 DEF NoFiles
    <2>3. FlashedOf(provdata, g[0], 0)
      BY <2>1, <2>2 DEF FlashedOf
    <2> QED BY <2>3
  <1>4. ASSUME NEW m \in Nat, m \in S
        PROVE  m + 1 \in S
    <2>1. SUFFICES ASSUME m + 1 <= n PROVE FlashedOf(provdata, g[m + 1], m + 1)
      OBVIOUS
    <2>2. m + 1 \in 1..n /\ (m + 1) - 1 = m /\ m <= n
      BY <1>1, <2>1
    <2>3. g[m + 1] = FlashOne(g[m], provdata, Package.fls[m + 1])
      BY <1>2, <2>2
    <2>4. FlashedOf(provdata, g[m], m)
      BY <1>4, <2>2
    <2> QED BY <2>2, <2>3, <2>4, FlashedOneMore
  <1>5. FlashedOf(provdata, Flashed(Package.fls, provdata), n)
    <2> HIDE DEF S
    <2>1. n \in S
      BY <1>1, <1>3, <1>4, SetInduction
    <2> QED BY <1>1, <1>2, <2>1 DEF S
  <1>6. \A p : FirstOf(n, p) = CommandsOf(Package, p)
    BY <1>1 DEF FirstOf, CommandsOf, Flashing, FlsCommands
  <1>7. /\ \A p : p \in DOMAIN get_partition_target_hash(Package) <=> CommandsOf(Package, p) # {}
        /\ \A p \in DOMAIN get_partition_target_hash(Package) :
             get_partition_target_hash(Package)[p] = Package.fls[Max(CommandsOf(Package, p))].target
    BY DEF get_partition_target_hash, CommandsOf
  <1> QED BY <1>5, <1>6, <1>7 DEF FlashedOf
(* Where it is not an EFI platform, the partitions that are flashed.       *)
OnEfi == \E v \in DOMAIN Package.provdata : CheckIfSocEFI(Package.provdata[v])

BoardOf(variant) == IF variant = None THEN Board ELSE variant

PartsOf(variant) ==
  IF OnEfi THEN NoFiles ELSE Flashed(Package.fls, Package.provdata[BoardOf(variant)])

(* A device after whatever has happened to it: it has what it was given,   *)
(* or something is altered, or a capsule has been taken.                   *)
Held ==
  /\ device = [files |-> device.files, made |-> device.made, variant |-> device.variant,
               parts |-> device.parts]
  /\ ~device.made =>
       /\ Package.image # None /\ DOMAIN device.files \subseteq DOMAIN Package.image
       /\ \/ device.files = Package.image
          \/ \E p \in DOMAIN device.files : device.files[p] = Altered
          \/ /\ "BIOSUPDATE.fv" \in DOMAIN Package.image
             /\ "BIOSUPDATE.fv" \notin DOMAIN device.files
  /\ DOMAIN device.parts = DOMAIN PartsOf(device.variant)
  /\ \/ device.parts = PartsOf(device.variant)
     \/ \E p \in DOMAIN device.parts : device.parts[p] = Altered

(* The verdict is what verify_from_target_files has computed.              *)
Judged(variant, read) ==
  LET efi   == CheckIfSocEFI(Package.provdata[read])
      files == GetBootloaderImageFromTFP(variant, efi)
  IN  /\ files # None
      /\ ~efi => CanExtract(Package, Package.provdata[BoardOf(variant)])
      /\ verdict = [variant |-> variant, efi |-> efi,
                    ok |-> /\ SamePartition
                           /\ IF efi THEN SameFiles(files)
                              ELSE SameParts(Package.provdata[BoardOf(variant)])]

DeviceInv ==
  /\ signings \in Nat
  /\ signings = 0 => output = None /\ input \in Packages
  /\ verdict # None =>
       /\ pc = "verified"
       /\ \E variant \in Variants \cup {None} : \E read \in ReadProvdata(variant) :
            Judged(variant, read)
  /\ pc \in {"installed", "verified"} => Held
  /\ pc \in {"idle", "first", "second", "images", "pack", "failed", "installed", "verified"}

-----------------------------------------------------------------------------
(* All variants are for one kind of platform.                              *)
LEMMA OneKind ==
  ASSUME IsPackage(Package), NEW v \in DOMAIN Package.provdata
  PROVE  CheckIfSocEFI(Package.provdata[v]) <=> OnEfi
  BY DEF IsPackage, IsFlashable, OnEfi

(* The package stays the same while there is a device.                     *)
LEMMA DeviceKept ==
  ASSUME UNCHANGED <<input, output>>
  PROVE  /\ Package' = Package
         /\ \A variant : PartsOf(variant)' = PartsOf(variant)
         /\ (device' = device /\ Held) => Held'
         /\ (signings' = signings) => (signings = 0 => output = None /\ input \in Packages)
              = (signings = 0 => output = None /\ input \in Packages)'
  <1>1. Package' = Package
    BY DEF Package
  <1>3. \A variant : PartsOf(variant)' = PartsOf(variant)
    BY <1>1 DEF PartsOf, OnEfi, BoardOf
  <1>4. (device' = device /\ Held) => Held'
    BY <1>1, <1>3 DEF Held
  <1> QED BY <1>1, <1>3, <1>4

(* Nothing is flashed or judged at first.                                  *)
LEMMA DeviceInit == Init => DeviceInv
  BY DEF Init, DeviceInv

(* Signing has to do with no device.                                       *)
LEMMA SigningKeepsDevice ==
  ASSUME DeviceInv, pc \notin {"installed", "verified"}, pc' \notin {"installed", "verified"},
         pc' \in {"idle", "first", "second", "images", "pack", "failed"},
         verdict' = verdict,
         \/ signings' = signings /\ output' \in {output, None}
              /\ input' = IF output = None THEN input ELSE output
         \/ signings' = signings /\ UNCHANGED <<input, output>>
         \/ signings' = signings + 1
  PROVE  DeviceInv'
  BY DEF DeviceInv

(* A device gets an image and the files of the partitions.                 *)
LEMMA InstallStep ==
  ASSUME DeviceInv, IsPackage(Package), NEW variant, NEW made, Install(variant, made)
  PROVE  DeviceInv'
  <1>1. PICK read \in ReadProvdata(variant) :
          LET efi   == CheckIfSocEFI(Package.provdata[read])
              files == IF made THEN GetBootloaderImageFromTFP(variant, efi) ELSE Package.image
          IN  /\ pc = "idle" /\ files # None
              /\ device' = [files |-> files, made |-> made, variant |-> variant,
                            parts |-> IF efi THEN NoFiles
                                      ELSE Flashed(Package.fls, Package.provdata[BoardOf(variant)])]
              /\ pc' = "installed"
              /\ UNCHANGED <<input, options, unpack_dir, output_bootzip, boot, output,
                             signings, verdict>>
    BY DEF Install, BoardOf
  <1>2. read \in DOMAIN Package.provdata
    BY DEF ReadProvdata
  <1>3. CheckIfSocEFI(Package.provdata[read]) <=> OnEfi
    BY <1>2, OneKind
  <1>4. device'.parts = PartsOf(variant) /\ device'.variant = variant /\ device'.made = made
    BY <1>1, <1>3 DEF PartsOf
  <1>5. ~made => device'.files = Package.image /\ Package.image # None
    BY <1>1
  <1>6. device' = [files |-> device'.files, made |-> device'.made, variant |-> device'.variant,
                   parts |-> device'.parts]
    BY <1>1
  <1>7. Package' = Package /\ \A v : PartsOf(v)' = PartsOf(v)
    BY <1>1, DeviceKept
  <1>8. Held'
    BY <1>4, <1>5, <1>6, <1>7 DEF Held
  <1> QED BY <1>1, <1>8 DEF DeviceInv

(* The capsule is taken: the third alternative of Held.                    *)
LEMMA CapsuleStep ==
  ASSUME DeviceInv, ConsumeCapsule
  PROVE  DeviceInv'
  <1>1. /\ pc = "installed" /\ "BIOSUPDATE.fv" \in DOMAIN device.files
        /\ UNCHANGED <<pc, input, output, signings, verdict>> /\ Held
    BY DEF ConsumeCapsule, DeviceInv
  <1> DEFINE left == [p \in DOMAIN device.files \ {"BIOSUPDATE.fv"} |-> device.files[p]]
  <1>2. device' = [device EXCEPT !.files = left]
    BY DEF ConsumeCapsule
  <1>3. DOMAIN left = DOMAIN device.files \ {"BIOSUPDATE.fv"}
    OBVIOUS
  <1> HIDE DEF left
  <1>4. device' = [files |-> left, made |-> device.made, variant |-> device.variant,
                   parts |-> device.parts]
    BY <1>1, <1>2 DEF Held
  <1>5. /\ device'.files = left /\ device'.made = device.made
        /\ device'.variant = device.variant /\ device'.parts = device.parts
    BY <1>4
  <1>6. Package' = Package /\ \A v : PartsOf(v)' = PartsOf(v)
    BY <1>1, DeviceKept
  <1>7. Held'
    BY <1>1, <1>3, <1>4, <1>5, <1>6 DEF Held
  <1> QED BY <1>1, <1>7 DEF DeviceInv

(* A file is altered: the second alternative of Held.                      *)
LEMMA AlterStep ==
  ASSUME DeviceInv, Alter
  PROVE  DeviceInv'
  <1>1. /\ pc = "installed" /\ UNCHANGED <<pc, input, output, signings, verdict>> /\ Held
    BY DEF Alter, DeviceInv
  <1>2. Package' = Package /\ \A v : PartsOf(v)' = PartsOf(v)
    BY <1>1, DeviceKept
  <1>3. CASE \E p \in DOMAIN device.files : device' = [device EXCEPT !.files[p] = Altered]
    <2>1. PICK p \in DOMAIN device.files : device' = [device EXCEPT !.files[p] = Altered]
      BY <1>3
    <2> DEFINE files == [device.files EXCEPT ![p] = Altered]
    <2>2. device' = [files |-> files, made |-> device.made, variant |-> device.variant,
                     parts |-> device.parts]
      BY <1>1, <2>1 DEF Held
    <2>3. DOMAIN files = DOMAIN device.files /\ files[p] = Altered
      OBVIOUS
    <2> HIDE DEF files
    <2>4. /\ device'.files = files /\ device'.made = device.made
          /\ device'.variant = device.variant /\ device'.parts = device.parts
      BY <2>2
    <2>5. Held'
      BY <1>1, <1>2, <2>1, <2>2, <2>3, <2>4 DEF Held
    <2> QED BY <1>1, <2>5 DEF DeviceInv
  <1>4. CASE \E p \in DOMAIN device.parts : device' = [device EXCEPT !.parts[p] = Altered]
    <2>1. PICK p \in DOMAIN device.parts : device' = [device EXCEPT !.parts[p] = Altered]
      BY <1>4
    <2> DEFINE parts == [device.parts EXCEPT ![p] = Altered]
    <2>2. device' = [files |-> device.files, made |-> device.made, variant |-> device.variant,
                     parts |-> parts]
      BY <1>1, <2>1 DEF Held
    <2>3. DOMAIN parts = DOMAIN device.parts /\ parts[p] = Altered
      OBVIOUS
    <2> HIDE DEF parts
    <2>4. /\ device'.files = device.files /\ device'.made = device.made
          /\ device'.variant = device.variant /\ device'.parts = parts
      BY <2>2
    <2>5. Held'
      BY <1>1, <1>2, <2>1, <2>2, <2>3, <2>4 DEF Held
    <2> QED BY <1>1, <2>5 DEF DeviceInv
  <1> QED BY <1>3, <1>4 DEF Alter

(* The verdict is about the package and the device as they stay.           *)
LEMMA JudgedKept ==
  ASSUME NEW variant, NEW read, UNCHANGED <<input, output, device, verdict>>
  PROVE  Judged(variant, read)' = Judged(variant, read)
  <1>1. Package' = Package
    BY DEF Package
  <1>2. \A efi : GetBootloaderImageFromTFP(variant, efi)' = GetBootloaderImageFromTFP(variant, efi)
    BY <1>1 DEF GetBootloaderImageFromTFP
  <1>3. SamePartition' = SamePartition
    BY <1>1 DEF SamePartition
  <1>4. \A files : SameFiles(files)' = SameFiles(files)
    BY DEF SameFiles
  <1>5. \A provdata : SameParts(provdata)' = SameParts(provdata)
    BY <1>1 DEF SameParts
  <1> QED BY <1>1, <1>2, <1>3, <1>4, <1>5 DEF Judged, BoardOf

(* The verdict is made of the device as it is.                             *)
LEMMA VerifyStep ==
  ASSUME DeviceInv, NEW variant \in Variants \cup {None}, Verify(variant)
  PROVE  DeviceInv'
  <1>1. /\ pc = "installed" /\ pc' = "verified" /\ Held
        /\ UNCHANGED <<input, output, signings, device>>
    BY DEF Verify, DeviceInv
  <1>2. PICK read \in ReadProvdata(variant) :
          LET efi   == CheckIfSocEFI(Package.provdata[read])
              files == GetBootloaderImageFromTFP(variant, efi)
          IN  /\ files # None
              /\ ~efi => CanExtract(Package, Package.provdata[BoardOf(variant)])
              /\ verdict' = [variant |-> variant, efi |-> efi,
                             ok |-> /\ SamePartition
                                    /\ IF efi THEN SameFiles(files)
                                       ELSE SameParts(Package.provdata[BoardOf(variant)])]
    BY DEF Verify, BoardOf
  <1>3. Package' = Package
    BY <1>1 DEF Package
  <1>4. \A efi : GetBootloaderImageFromTFP(variant, efi)' = GetBootloaderImageFromTFP(variant, efi)
    BY <1>3 DEF GetBootloaderImageFromTFP
  <1>5. SamePartition' = SamePartition
    BY <1>1, <1>3 DEF SamePartition
  <1>6. \A files : SameFiles(files)' = SameFiles(files)
    BY <1>1 DEF SameFiles
  <1>7. \A provdata : SameParts(provdata)' = SameParts(provdata)
    BY <1>1, <1>3 DEF SameParts
  <1>8. Judged(variant, read)'
    BY <1>2, <1>3, <1>4, <1>5, <1>6, <1>7 DEF Judged, BoardOf
  <1>9. read \in ReadProvdata(variant)'
    BY <1>2, <1>3 DEF ReadProvdata
  <1>10. Held'
    BY <1>1, DeviceKept
  <1> QED BY <1>1, <1>8, <1>9, <1>10 DEF DeviceInv

(* Every step keeps the invariant of the device.                           *)
LEMMA DeviceInvStep ==
  DeviceInv /\ PackageInv /\ [Next]_vars => DeviceInv'
  <1> SUFFICES ASSUME DeviceInv, PackageInv, [Next]_vars PROVE DeviceInv'
    OBVIOUS
  <1>1. IsPackage(Package)
    BY DEF PackageInv, OutInv, Package
  <1>2. CASE \E o \in Calls : Start(o)
    BY <1>2, SigningKeepsDevice DEF Start
  <1>3. CASE ProcessEsp
    BY <1>3, SigningKeepsDevice DEF ProcessEsp, ProcessArchive, Fail
  <1>4. CASE ProcessBootloader
    BY <1>4, SigningKeepsDevice DEF ProcessBootloader, ProcessArchive, Fail
  <1>5. CASE MakeBootImages
    BY <1>5, SigningKeepsDevice DEF MakeBootImages
  <1>6. CASE Pack
    BY <1>6, SigningKeepsDevice DEF Pack, Fail
  <1>7. CASE \E variant \in Variants \cup {None}, made \in BOOLEAN : Install(variant, made)
    BY <1>1, <1>7, InstallStep
  <1>8. CASE ConsumeCapsule
    BY <1>8, CapsuleStep
  <1>9. CASE Alter
    BY <1>9, AlterStep
  <1>10. CASE \E variant \in Variants \cup {None} : Verify(variant)
    BY <1>10, VerifyStep
  <1>11. CASE UNCHANGED vars
    <2>1. UNCHANGED <<pc, input, output, signings, device, verdict>>
      BY <1>11 DEF vars
    <2>2. Held => Held'
      BY <2>1, DeviceKept
    <2>3. \A variant : ReadProvdata(variant)' = ReadProvdata(variant)
      BY <2>1 DEF ReadProvdata, Package
    <2>4. \A variant, read : Judged(variant, read)' = Judged(variant, read)
      BY <2>1, JudgedKept
    <2> QED BY <2>1, <2>2, <2>3, <2>4 DEF DeviceInv
  <1> QED BY <1>2, <1>3, <1>4, <1>5, <1>6, <1>7, <1>8, <1>9, <1>10, <1>11 DEF Next

(* A device holds what it was given until something happens to it, and a   *)
(* verdict is about the device and the package as they are.                *)
THEOREM DeviceInvariant == Spec => []DeviceInv
  BY DeviceInit, DeviceInvStep, PackageInvariant, PTL DEF Spec

-----------------------------------------------------------------------------
(* What a verdict says.                                                    *)

(* What an fls file holds for a partition is a file that nobody altered.   *)
LEMMA ExtractedFacts ==
  ASSUME IsPackage(Package), NEW v \in DOMAIN Package.provdata, CanExtract(Package, Package.provdata[v]),
         NEW p \in get_bootloader_list(Package)
  PROVE  /\ p \in DOMAIN get_partition_target_hash(Package)
         /\ GetBootloaderImagesfromFls(Package, Package.provdata[v])[p] # Altered
         /\ GetBootloaderImagesfromFls(Package, Package.provdata[v])[p]
              = Extracted(Package.provdata[v], p, get_partition_target_hash(Package)[p])
  <1> DEFINE provdata == Package.provdata[v]
             t == get_partition_target_hash(Package)[p]
  <1>1. p \in DOMAIN get_partition_target_hash(Package) /\ t \in DOMAIN provdata.images
    BY DEF CanExtract
  <1>2. provdata.images[t] # "altered"
    BY <1>1 DEF IsPackage, IsFlashable
  <1>3. Extracted(provdata, p, t) \in {File(provdata.images[t]), Sign(File(provdata.images[t]), "SecureBlock")}
    BY DEF Extracted
  <1>4. File(provdata.images[t]) # Altered
    <2>1. File(provdata.images[t]).body = provdata.images[t] /\ Altered.body = "altered"
      BY DEF File, Altered
    <2> QED BY <1>2, <2>1
  <1>5. Sign(File(provdata.images[t]), "SecureBlock") # Altered
    <2>1. Altered.by = None /\ Sign(File(provdata.images[t]), "SecureBlock").by = "SecureBlock"
      BY DEF File, Altered, Sign
    <2> QED BY <2>1, TargetFilesAssumption
  <1>6. GetBootloaderImagesfromFls(Package, provdata)[p] = Extracted(provdata, p, t)
    BY DEF GetBootloaderImagesfromFls
  <1> QED BY <1>1, <1>3, <1>4, <1>5, <1>6

(* With nothing of its own, a variant gets what is made at build time.     *)
LEMMA NothingOnTop ==
  ASSUME NEW pkg, NEW variant, variant = None \/ OwnFiles(pkg.provdata[variant]) = NoFiles
  PROVE  /\ DOMAIN EfiFiles(pkg, variant, NoFiles) = DOMAIN GetBootloaderImageFromOut(pkg)
         /\ \A p \in DOMAIN EfiFiles(pkg, variant, NoFiles) :
              EfiFiles(pkg, variant, NoFiles)[p] = GetBootloaderImageFromOut(pkg)[p]
  <1> DEFINE rest == Over(NoFiles, Over(NoFiles, pkg.bootloader))
  <1>1. EfiFiles(pkg, variant, NoFiles) = BootImages(pkg, rest)
    BY DEF EfiFiles
  <1>2. DOMAIN rest = DOMAIN pkg.bootloader /\ \A p \in DOMAIN rest : rest[p] = pkg.bootloader[p]
    BY DEF Over, NoFiles
  <1> HIDE DEF rest
  <1>3. \A f : Over(f, rest) = Over(f, pkg.bootloader)
    BY <1>2 DEF Over
  <1>4. BootImages(pkg, rest) = BootImages(pkg, pkg.bootloader)
    BY <1>3 DEF BootImages
  <1> QED BY <1>1, <1>4 DEF GetBootloaderImageFromOut

(* The partitions of a device that was given what the package has.         *)
LEMMA PartsFacts ==
  ASSUME IsPackage(Package), ~OnEfi, NEW variant, BoardOf(variant) \in DOMAIN Package.provdata,
         CanExtract(Package, Package.provdata[BoardOf(variant)])
  PROVE  \A p \in get_bootloader_list(Package) :
           /\ p \in DOMAIN PartsOf(variant)
           /\ PartsOf(variant)[p]
                = GetBootloaderImagesfromFls(Package, Package.provdata[BoardOf(variant)])[p]
  <1> DEFINE provdata == Package.provdata[BoardOf(variant)]
  <1>1. IsSeq(Package.fls)
    BY DEF IsPackage, IsFlashable, IsSeq
  <1>2. PartsOf(variant) = Flashed(Package.fls, provdata)
    BY DEF PartsOf
  <1>3. TAKE p \in get_bootloader_list(Package)
  <1>4. /\ p \in DOMAIN get_partition_target_hash(Package)
        /\ GetBootloaderImagesfromFls(Package, provdata)[p]
             = Extracted(provdata, p, get_partition_target_hash(Package)[p])
    BY ExtractedFacts
  <1> QED BY <1>1, <1>2, <1>4, FlashedFacts

(* The invariants say what the verdict is worth.                           *)
LEMMA InvVerifies == PackageInv /\ DeviceInv => InstalledVerifies
  <1> SUFFICES ASSUME PackageInv, DeviceInv, verdict # None
               PROVE  InstalledVerifies
    BY DEF InstalledVerifies
  <1>1. IsPackage(Package) /\ Held
    BY DEF PackageInv, OutInv, Package, DeviceInv
  <1>2. PICK variant \in Variants \cup {None} : \E read \in ReadProvdata(variant) :
          Judged(variant, read)
    BY DEF DeviceInv
  <1>3. PICK read \in ReadProvdata(variant) : Judged(variant, read)
    BY <1>2
  <1> DEFINE efi      == CheckIfSocEFI(Package.provdata[read])
             files    == GetBootloaderImageFromTFP(variant, efi)
             provdata == Package.provdata[BoardOf(variant)]
             onEfi    == EfiFiles(Package, variant, NoFiles)
  <1>4. efi \in BOOLEAN /\ (efi <=> OnEfi)
    <2>1. read \in DOMAIN Package.provdata
      BY DEF ReadProvdata
    <2> QED BY <1>1, <2>1, OneKind DEF CheckIfSocEFI
  <1>5. /\ verdict.variant = variant /\ verdict.efi = efi /\ files # None
        /\ ~efi => CanExtract(Package, provdata)
        /\ verdict.ok = (SamePartition /\ IF efi THEN SameFiles(files) ELSE SameParts(provdata))
    BY <1>3 DEF Judged
  <1>6. efi => Package.bootloader # None /\ files = onEfi
    BY <1>5 DEF GetBootloaderImageFromTFP
  <1>7. ~efi => BoardOf(variant) \in DOMAIN Package.provdata
    BY <1>5 DEF GetBootloaderImageFromTFP, BoardOf
  <1>8. ASSUME verdict.ok
        PROVE  /\ device.files = Package.image
               /\ \A p \in DOMAIN device.parts \cap get_bootloader_list(Package) :
                    p # "bootloader" => device.parts[p] # Altered
               /\ efi => \A p \in DOMAIN files \ {"BIOSUPDATE.fv"} : device.files[p] = files[p]
    <2>1. device.files = Package.image
      BY <1>5, <1>8 DEF SamePartition
    <2>2. CASE efi
      <3>1. SameFiles(files)
        BY <1>5, <1>8, <2>2
      <3>2. DOMAIN device.parts = {}
        BY <1>1, <1>4, <2>2 DEF Held, PartsOf, NoFiles
      <3> HIDE DEF files, efi
      <3> QED BY <2>1, <3>1, <3>2 DEF SameFiles
    <2>3. CASE ~efi
      <3>1. SameParts(provdata)
        BY <1>5, <1>8, <2>3
      <3>2. ASSUME NEW p \in get_bootloader_list(Package), p # "bootloader"
            PROVE  device.parts[p] # Altered
        <4>1. DOMAIN GetBootloaderImagesfromFls(Package, provdata) = get_bootloader_list(Package)
          BY DEF GetBootloaderImagesfromFls
        <4>2. device.parts[p] = GetBootloaderImagesfromFls(Package, provdata)[p]
          BY <3>1, <3>2, <4>1 DEF SameParts
        <4>3. GetBootloaderImagesfromFls(Package, provdata)[p] # Altered
          BY <1>1, <1>5, <1>7, <2>3, ExtractedFacts
        <4> QED BY <4>2, <4>3
      <3> QED BY <2>1, <2>3, <3>2
    <2> QED BY <1>4, <2>2, <2>3
  <1>9. ASSUME Untouched, signings = 0, efi => NoOwnFiles(variant)
        PROVE  verdict.ok
    <2>1. ~device.made /\ device.variant = variant
      BY <1>5, <1>9 DEF Untouched
    <2>2. device.files = Package.image /\ Package.image # None
      BY <1>1, <1>9, <2>1 DEF Untouched, Held
    <2>3. device.parts = PartsOf(variant)
      BY <1>1, <1>9, <2>1 DEF Untouched, Held
    <2>4. SamePartition
      BY <2>1, <2>2 DEF SamePartition
    <2>5. CASE efi
      <3>1. Package \in Packages
        BY <1>9 DEF DeviceInv, Package
      <3>2. Package.image = GetBootloaderImageFromOut(Package)
        BY <1>6, <2>2, <2>5, <3>1, TargetFilesAssumption DEF IsBuilt
      <3>3. variant = None \/ OwnFiles(Package.provdata[variant]) = NoFiles
        BY <1>9, <2>5 DEF NoOwnFiles
      <3>4. /\ DOMAIN onEfi = DOMAIN GetBootloaderImageFromOut(Package)
            /\ \A p \in DOMAIN onEfi : onEfi[p] = GetBootloaderImageFromOut(Package)[p]
        BY <3>3, NothingOnTop
      <3>5. files = onEfi
        BY <1>6, <2>5
      <3>6. SameFiles(files)
        <4> HIDE DEF onEfi, files
        <4> QED BY <2>2, <3>2, <3>4, <3>5 DEF SameFiles
      <3> QED BY <1>5, <2>4, <2>5, <3>6
    <2>6. CASE ~efi
      <3>1. \A p \in get_bootloader_list(Package) :
              /\ p \in DOMAIN PartsOf(variant)
              /\ PartsOf(variant)[p] = GetBootloaderImagesfromFls(Package, provdata)[p]
        BY <1>1, <1>4, <1>5, <1>7, <2>6, PartsFacts
      <3>2. DOMAIN GetBootloaderImagesfromFls(Package, provdata) = get_bootloader_list(Package)
        BY DEF GetBootloaderImagesfromFls
      <3>3. SameParts(provdata)
        BY <2>3, <3>1, <3>2 DEF SameParts
      <3> QED BY <1>5, <2>4, <2>6, <3>3
    <2> QED BY <1>4, <2>5, <2>6
  <1> HIDE DEF efi
  <1> QED BY <1>5, <1>8, <1>9 DEF InstalledVerifies

(* Who passes verify_from_target_files has in every place what the package *)
(* has, and a device with the package's bootloader image passes as long as *)
(* nothing has changed.                                                    *)
THEOREM VerdictIsRight == Spec => []InstalledVerifies
  BY PackageInvariant, DeviceInvariant, InvVerifies, PTL
=============================================================================
