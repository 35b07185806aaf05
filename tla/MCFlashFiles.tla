---------------------------- MODULE MCFlashFiles ----------------------------
(* Ini files of up to three rows; two variants, whose own ini files add    *)
(* rows and change the additional files; bootloaders of all and of one.    *)
(* Below, both older formats.                                              *)
EXTENDS FlashJson

MCFiles == {"ifwi.bin", "bootloader", "fw.bin", "fw.img", "sys.img", "info.txt"}
NameOf(f) == CASE f = "ifwi.bin" -> "ifwi" [] f \in {"fw.bin", "fw.img"} -> "fw"
               [] f = "sys.img" -> "sys" [] f = "info.txt" -> "info"
               [] f = "bootloader" -> "bootloader"
MCShort == [f \in MCFiles |-> NameOf(f)]

Row(id, set, builds, tool, source, file) ==
  [id |-> id, set |-> set, builds |-> builds, tool |-> tool, source |-> source, file |-> file]
All == {"user", "eng"}

Ifwi == Row(1, "a", All, "fastboot", "provdatazip", "ifwi.bin")
Sys  == Row(2, "a", All, "fastboot", "images", "sys.img")
Fw   == Row(3, "b", {"user"}, "fastboot", "provdatazip", "fw.bin")
Eng  == Row(4, "b", {"eng"}, "fastboot", "images", "sys.img")
Wait == Row(5, "a", All, "sleep", "images", None)
Tool == Row(6, "b", All, "dldr", "provdatazip", "fw.bin")
Clash == Row(7, "a", All, "fastboot", "images", "fw.img")
Boot == Row(9, "a", All, "fastboot", "bootloader", "bootloader")
Again == Row(8, "a", All, "fastboot", "provdatazip", "ifwi.bin")

Flash(cs) == [name |-> <<"flash.json", None>>, kind |-> "json", configs |-> cs, sets |-> <<>>]
Other(cs) == [name |-> <<"other.json", None>>, kind |-> "json", configs |-> cs, sets |-> <<>>]
Installer(s) == [name |-> <<"installer.cmd", None>>, kind |-> "cmd", configs |-> <<>>, sets |-> s]

C == <<"c", None>>
D == <<"d", None>>
Outputs ==
  {<<Flash(<<C, D>>), Installer(<<"a", "b">>)>>, <<Installer(<<"b", "a">>), Flash(<<D>>)>>,
   <<Flash(<<D>>), Other(<<C>>)>>, <<Flash(<<C>>)>>, <<Flash(<<C>>), Other(<<C, D>>)>>}

Info == <<"provdatazip", "info.txt">>
Imgs == <<"images", "fw.img">>

Ini(rows, outs, default, additional) ==
  [variant |-> None, additional |-> additional, rows |-> rows, files |-> {},
   configs |-> [c \in {C, D} |-> [sets |-> IF c = C THEN <<"a", "b">> ELSE <<"b", "a">>,
                                  default |-> c \in default]],
   outputs |-> outs]

Nothing == [rows |-> <<>>, additional |-> Same]
MCVariants == {"v", "w"}

Run(py, fast, vs, in, size, own, prov) ==
  [python3 |-> py, fast |-> fast, build |-> "user", variants |-> vs, ini |-> in,
   size |-> [f \in MCFiles |-> IF f = "sys.img" THEN size ELSE 4],
   own |-> own, provdata |-> prov]

AllThere == [v \in MCVariants \cup {None} |-> MCFiles]
NoOwn == [v \in MCVariants |-> Nothing]

(* Outputs, default configurations, sizes and both interpreters.           *)
Common ==
  {Run(py, fast, vs, Ini(rows, outs, default, <<Info>>), size, NoOwn, AllThere) :
     py, fast \in BOOLEAN, vs \in {<<>>, <<"v">>, <<"v", "w">>, <<"w", "v">>},
     rows \in {<<Ifwi, Sys, Fw>>, <<Fw, Sys, Tool>>, <<Eng, Sys, Wait>>},
     outs \in Outputs, default \in {{}, {C}, {C, D}}, size \in {4, 16, 20, 36}}

(* Ini files of variants that differ, and clashing names.                  *)
OwnInis == [rows: {<<>>, <<Again>>, <<Tool>>, <<Clash>>},
            additional: {Same, <<>>, <<Imgs>>, <<Info, Imgs>>}]
Different ==
  {Run(FALSE, FALSE, <<"v", "w">>, Ini(rows, <<Flash(<<C>>), Installer(<<"a", "b">>)>>, {C}, additional),
       4, own, [AllThere EXCEPT !["w"] = MCFiles \ missing]) :
     rows \in {<<Ifwi, Fw>>, <<Ifwi, Sys>>, <<Wait, Clash>>},
     additional \in {<<>>, <<Info>>}, own \in [MCVariants -> OwnInis],
     missing \in {{}, {"ifwi.bin"}, {"info.txt"}}}

(* A bootloader, which the variants have in common or one of them has on   *)
(* top, in a zip and in a --fast directory.                                *)
Boots ==
  {Run(FALSE, fast, vs, Ini(rows, outs, {C}, <<Info>>), 4, own, AllThere) :
     fast \in BOOLEAN, vs \in {<<>>, <<"v">>, <<"v", "w">>},
     rows \in {<<Boot, Ifwi, Sys>>, <<Fw, Boot>>, <<Ifwi>>}, outs \in Outputs,
     own \in {NoOwn, [NoOwn EXCEPT !["v"] = [rows |-> <<Boot>>, additional |-> Same]]}}

MCSetups == Common \cup Different \cup Boots

-----------------------------------------------------------------------------
Cmd1(id, type, source, target) ==
  [id |-> id, type |-> type, source |-> source, target |-> target, dollar |-> FALSE,
   format |-> FALSE, listed |-> FALSE, builds |-> All, platforms |-> {"p", "q"},
   restrict |-> {"default", "x"}]

JIfwi == Cmd1(1, "fastboot", "provdatazip", <<"ifwi.bin">>)
JSys  == [Cmd1(2, "fastboot", "images", <<"sys.img">>) EXCEPT !.restrict = {"x"}]
JFw   == [Cmd1(3, "dldr", "provdatazip", <<"fw.bin">>) EXCEPT !.builds = {"eng"}]
JTwo  == [Cmd1(4, "fastboot", "images", <<"sys.img", "fw.img">>) EXCEPT !.dollar = TRUE]
JMkfs == [Cmd1(5, "fastboot", "images", <<"sys.img">>) EXCEPT !.format = TRUE]
JWait == Cmd1(6, "sleep", "images", <<>>)
JMore == [JTwo EXCEPT !.dollar = FALSE, !.platforms = {"q"}]
JOdd  == Cmd1(7, "popup", "images", <<>>)

JsonConf(outs, cmds) ==
  [outputs |-> outs,
   commands |-> [g \in {"g", "h"} |-> IF g = "g" THEN cmds ELSE <<JIfwi, JWait>>],
   configurations |-> [c \in {"a", "b", "e"} |->
     [commands |-> IF c = "e" THEN "h" ELSE "g", subgroup |-> IF c = "b" THEN "x" ELSE "default"]]]

O(name, kind) == [name |-> <<name, None>>, kind |-> kind, commands |-> "g", subgroup |-> "x"]

FlsCmd(id, type, target, core, fast, restrict) ==
  [id |-> id, type |-> type, source |-> "provdatazip", target |-> <<target>>, core |-> core,
   fastboot |-> fast, restrict |-> restrict]

FlsConf(outs, cmds) ==
  [outputs |-> outs, commands |-> cmds,
   configurations |-> [c \in {"smp", "up", "fastboot_config"} |-> [name |-> c]]]

JsonRun(format, py, platform, vs, c, size, prov) ==
  [Run(py, FALSE, vs, Ini(<<>>, <<>>, {}, <<>>), size, NoOwn, prov)
     EXCEPT !.ini.configs = <<>>]
    @@ [format |-> format, platform |-> platform, conf |-> c]

J == O("flash.json", "json")
K == O("other.json", "json")
I == O("installer.cmd", "cmd")

MCJsonSetups ==
  {JsonRun("json", py, platform, vs, JsonConf(outs, cmds), size, prov) :
     py \in BOOLEAN, platform \in {"p", "q"}, vs \in {<<>>, <<"v">>},
     outs \in {<<J, I>>, <<I, J>>, <<J, K, I>>, <<J, I, O("flash.xml", "xml")>>, <<I>>},
     cmds \in {<<JIfwi, JSys, JFw>>, <<JTwo, JMkfs, JWait>>, <<JMore, JSys, JOdd>>, <<JFw, JMkfs>>},
     size \in {4, 20}, prov \in {AllThere, [AllThere EXCEPT ![None] = {"info.txt"}]}}
  \cup
  {JsonRun("fls", FALSE, "p", <<>>, FlsConf(outs, cmds), 4, AllThere) :
     outs \in {<<J>>, <<O("flash.xml", "xml"), J>>, <<J, K>>},
     cmds \in {<<FlsCmd("one", "fls", "ifwi.bin", core, fast, None), FlsCmd("two", "info", "info.txt", None, FALSE, None),
                 FlsCmd("three", type, "fw.bin", None, TRUE, restrict)>> :
                  core \in {None, {"smp"}, {"smp", "up"}, {"smp_profiling"}}, fast \in BOOLEAN,
                  type \in {"fls", "dldr"}, restrict \in {None, {"flash.json"}}}}
=============================================================================
