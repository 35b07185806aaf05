------------------------------ MODULE MCGptImage ------------------------------
(* Whole runs of create_gpt_image.py. Written: partition files with slots, *)
(* an open length, a pinned partition that ends at the backup table, one   *)
(* without a block that begins there, an unknown label or type, and        *)
(* binaries that are absent, missing, exact, a little or much too large.   *)
(* Laid: without binaries, every mix of fixed, open and empty lengths, one *)
(* or two values, pinned or not, 0 to 3 slots, in up to three parts of the *)
(* first group, a slot group and the last one.                             *)
EXTENDS GptImage

MCPart(label, type, ab, start, len) ==
  [label |-> label, type |-> type, has_slot |-> ab,
   start_lba |-> start, len |-> len]

Boot   == MCPart("boot", "linux", TRUE, <<>>, <<1>>)
Data1  == MCPart("data", "linux", FALSE, <<>>, <<-1>>)
AtEnd  == MCPart("data", "fat", FALSE, <<11>>, <<2>>)
System == MCPart("system", "linux", FALSE, <<>>, <<1>>)
Odd    == MCPart("oem", "fat", FALSE, <<>>, <<1>>)
NoGuid == MCPart("data", "ufs", FALSE, <<>>, <<1>>)
Over   == MCPart("system", "linux", FALSE, <<5>>, <<1>>)
Mark   == MCPart("data", "linux", FALSE, <<19>>, <<0>>)

MCConfig(n, base, first, group, end) ==
  [nb_slot |-> n, start_lba |-> base,
   parts |-> [start |-> first, bsp |-> group, aosp |-> <<>>, end |-> end]]

MCWritten ==
  {MCConfig(n, <<>>, first, group, end) :
     n \in {2, 3}, first \in {<<>>, <<Boot>>}, group \in {<<>>, <<System>>},
     end \in {<<>>, <<Data1>>, <<AtEnd>>, <<Odd>>, <<NoGuid>>, <<Over>>,
            <<Mark>>}}

Lists(S) == {<<>>} \cup {<<p>> : p \in S}

MCLaid ==
  LET firsts  == {MCPart("boot", "linux", ab, start, len) :
                    ab \in BOOLEAN, start \in {<<>>, <<6>>, <<5, 9>>},
                    len \in {<<-1>>, <<2, 1>>}}
      seconds == {MCPart("misc", "linux", FALSE, <<>>, len) : len \in {<<0>>, <<-1>>}}
      groups  == {MCPart("system", "linux", FALSE, <<>>, len) : len \in {<<-1>>, <<1, 2>>}}
      ends    == {MCPart("data", "linux", FALSE, start, <<-1>>) : start \in {<<>>, <<12>>}}
  IN  {MCConfig(n, base, first \o second, group, end) :
         n \in {0, 2, 3}, base \in {<<>>, <<4>>}, first \in Lists(firsts),
         second \in Lists(seconds), group \in Lists(groups), end \in Lists(ends)}

MCConfigs == MCWritten \cup MCLaid

MCAndroidPartitions == {"boot", "system", "data"}
MCLinuxLabels == {"boot", "system", "data"} \X {"", "_a", "_b"}

MCBinaries(c) ==
  IF c \notin MCWritten THEN {[l \in MCAndroidPartitions |-> None]}
  ELSE {b \in [MCAndroidPartitions -> {None, Missing, 6, 16, 17, 20}] :
          /\ b["boot"] \in {None, 16, 17}
          /\ b["system"] \in {None, 6, 20}
          /\ b["data"] \in {None, Missing, 16}}
=============================================================================
