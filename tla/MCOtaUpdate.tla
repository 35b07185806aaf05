----------------------------- MODULE MCOtaUpdate -----------------------------
(* Two builds: one device with images for all its partitions, one with a   *)
(* bootloader of files, one with two variants whose bootloaders differ.    *)
EXTENDS OtaUpdate

(* Sound: the set of setups does not change when the variants swap, and no *)
(* definition tells one variant from another.                              *)
VariantSymmetry == Permutations(Variants)

Img3(a, b, c) == [f \in {"a", "b", "BIOSUPDATE.fv"} |->
                    IF f = "a" THEN a ELSE IF f = "b" THEN b ELSE c]

BuildOf(boot, multi, t, vb, var, fw) ==
  [bootloader |-> boot, multiboot |-> multi, tos |-> t, vbmeta |-> vb,
   vboot |-> [v \in Variants |-> var], fwu |-> [v \in Variants |-> fw]]

Fstabs == {{}, {"multiboot"}, {"tos"}, {"multiboot", "tos"},
           {"multiboot", "tos", "vbmeta"}}

One(d) == Img3(d, None, None)

(* The images of the hooks, with the generic bootloader.                   *)
ImageSetups ==
  {[efi |-> FALSE, tools |-> tools, fstab |-> f,
    src |-> BuildOf(One("d1"), m1, t1, v1, One("d1"), "d1"),
    tgt |-> BuildOf(b2, m2, t2, v1, One("d2"), "d1")] :
     tools \in BOOLEAN, f \in Fstabs, b2 \in {None, One("d2")},
     m1 \in {None, "d1"}, t1 \in {None, "d1"}, v1 \in {None, "d1"},
     m2 \in {None, "d2", "big"}, t2 \in {None, "d1", "d2"}}

(* The firmware and the bootloader of a variant without EFI.               *)
FirmwareSetups ==
  {[efi |-> FALSE, tools |-> TRUE, fstab |-> {},
    src |-> BuildOf(One("d1"), None, None, None, One("d1"), f1),
    tgt |-> BuildOf(b2, None, None, None, One("d2"), f2)] :
     b2 \in {None, One("d1"), One("d2")},
     f1, f2 \in {"d1", "d2", "big", None, Empty}}

(* The files of a variant's bootloader; some builds hold an image too.     *)
FileSetups ==
  {[efi |-> TRUE, tools |-> FALSE, fstab |-> {},
    src |-> BuildOf(b1, None, None, None, Img3(x1, y1, "d1"), None),
    tgt |-> BuildOf(b2, None, None, None, Img3(x2, y2, "d2"), None)] :
     b1, b2 \in {None, One("d1")},
     x1, x2 \in {None, "d1", "d2", "big"}, y1, y2 \in {None, "d1", "d2"}}

(* A file is patched for one variant and deleted for the other.            *)
VariantSetups ==
  {[efi |-> TRUE, tools |-> FALSE, fstab |-> {},
    src |-> BuildOf(None, None, None, None, One("d1"), None),
    tgt |-> [BuildOf(None, None, None, None, One("d1"), None)
               EXCEPT !.vboot = boots]] :
     boots \in [Variants -> {One("d2"), Img3(None, "d2", None)}]}

MCSetups == ImageSetups \cup FirmwareSetups \cup FileSetups \cup VariantSetups
=============================================================================
