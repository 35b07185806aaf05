--------------------------- MODULE MCTargetFiles ---------------------------
(* Packages with one archive or two, that share paths or not, of EFI and   *)
(* other platforms; calls with each option and with those that contradict. *)
EXTENDS TargetFiles, TLC

MCSize == [b \in {"kf", "kfld", "kf4", "second", "ms", "ms32", "fastboot.img", "tdos.img",
                  "cap", "blob", "map1", "map2", "map3"} |-> 40]
MCKeyLength == [k \in {"avb", "long", "oem0"} |-> IF k = "long" THEN 9 ELSE 4]
MCIA32 == {"ms32"}

Key(f, key) == [f EXCEPT !.keys = key]
Old(body) == Sign(File(body), "dev")
KF == Sign(Key(File("kf"), "oem0"), "dev")
KF4 == Sign(Key(File("kf4"), "oem0"), "dev")
Fallback(f) == "EFI/BOOT/bootx64.efi" :> f

plain == [soc |-> "none", secpack |-> FALSE, capsule |-> None, tree |-> NoFiles,
          images |-> NoFiles, raw |-> "blob"]
capsule == [plain EXCEPT !.capsule = File("cap"), !.tree = "tree.efi" :> Old("second")]

Base ==
  [bootloader |-> Fallback(KF) @@ ("loader.efi" :> KF) @@ ("second.efi" :> Old("second")),
   esp |-> None,
   vendor |-> ("kernelflinger.efi" :> KF) @@ ("bootloader.efi" :> KF),
   prebuilt |-> [n \in bootImages |-> IF n = "fastboot.img" THEN Old(n) ELSE None],
   ramdisks |-> bootImages, verity |-> "verity",
   provdata |-> (None :> plain), fls |-> <<>>, image |-> None, size |-> 0]

Variant == [Base EXCEPT !.provdata = ("v" :> capsule), !.verity = None, !.size = 320]
Small   == [Base EXCEPT !.size = 64, !.ramdisks = {"tdos.img"}]
Disjoint ==
  [Base EXCEPT
     !.esp = Fallback(Old("kfld")) @@ ("kfld.efi" :> Old("kfld")) @@ ("EFI/INTEL/KF4UEFI.EFI" :> KF4),
     !.vendor = ("kfld.efi" :> Old("kfld")) @@ ("bootloader.efi" :> KF),
     !.prebuilt = [n \in bootImages |-> None], !.ramdisks = {}, !.verity = None]
Agreeing == [Disjoint EXCEPT !.esp = Fallback(KF) @@ ("loader.efi" :> KF),
                             !.vendor = ("kfld.efi" :> KF)]
Conflicting == [Disjoint EXCEPT !.esp = Fallback(Old("kfld")) @@ ("loader.efi" :> Old("kfld"))]
EspOnly == [Disjoint EXCEPT !.bootloader = None]

fls(p, t, c) == [type |-> "fls", source |-> "provdatazip", partition |-> p, target |-> t, core |-> c]
Sofia(secpack) ==
  [Base EXCEPT
     !.bootloader = None, !.vendor = NoFiles, !.prebuilt = [n \in bootImages |-> None],
     !.provdata = (None :> [plain EXCEPT !.soc = "slb", !.secpack = secpack,
                       !.images = ("a.fls" :> "map1") @@ ("b.fls" :> "map2") @@ ("c.fls" :> "map3")]),
     !.fls = <<fls("psi", "a.fls", None), fls("slb", "a.fls", None), fls("slb", "b.fls", None),
               fls("slb", "c.fls", "smp_profiling"), fls("vrl", "c.fls", None)>>]

(* RADIO/bootloader.img as it is made at build time, of the same files.    *)
Built(p) == [p EXCEPT !.image = IF p.bootloader = None THEN "bootloader" :> File("blob")
                                ELSE GetBootloaderImageFromOut(p)]

MCPackages == {Built(p) : p \in {Base, Variant, Small, Disjoint, Agreeing, Conflicting, EspOnly,
                                 Sofia(TRUE), Sofia(FALSE)}}

NoMap == [path \in {} |-> None]
Call == [key_map |-> ("loader.efi" :> "DB"), avb_key |-> None, oem_key |-> None, replace |-> NoMap,
         first_stage |-> "loader.efi", kernelflinger |-> None, signfile |-> FALSE]
Oem  == [Call EXCEPT !.oem_key = "verity", !.avb_key = "avb"]

MCCalls ==
  { Call, Oem,
    [Oem EXCEPT !.avb_key = None],
    [Oem EXCEPT !.avb_key = "long"],
    [Oem EXCEPT !.key_map = ("loader.efi" :> "DB") @@ ("EFI/INTEL/KF4UEFI.EFI" :> "DB")],
    [Oem EXCEPT !.kernelflinger = "second.efi"],
    [Call EXCEPT !.replace = ("loader.efi" :> Sign(File("ms"), "MS"))],
    [Call EXCEPT !.key_map = NoMap, !.replace = ("loader.efi" :> Sign(File("ms"), "MS"))],
    [Call EXCEPT !.key_map = NoMap, !.replace = ("loader.efi" :> Sign(File("ms32"), "MS"))],
    [Call EXCEPT !.key_map = ("second.efi" :> "DB") @@ ("kfld.efi" :> "DB"), !.first_stage = "kfld.efi"],
    [Call EXCEPT !.key_map = ("loader.efi" :> "ecss"), !.signfile = TRUE],
    [Call EXCEPT !.key_map = ("loader.efi" :> "ecss")] }
=============================================================================
