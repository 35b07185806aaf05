----------------------------- MODULE FlashFiles -----------------------------
(***************************************************************************)
(* flashfiles_from_target_files with flash_cmd_generator.py: from the      *)
(* instructions in flashfiles.ini, and one ini file per variant, to a zip  *)
(* with the images and the command files, and on to the ISO that a make    *)
(* rule builds of it.                                                      *)
(*                                                                         *)
(* An ini file is a record: the section [global], the commands (rows, in   *)
(* their order), the configurations and the outputs. A row has one file at *)
(* most. Groups, preconditions, options of tools and descriptions, which   *)
(* are copied, are left out; FlashJson has the older formats.              *)
(***************************************************************************)
EXTENDS Integers, FiniteSets, SequencesExt

CONSTANTS
  Files,        \* names of images and files, without a variant
  VariantFiles, \* variant_files: "bootloader", "ifwi.bin" and others
  Short,        \* the name up to its first dot
  Stem,         \* the name up to its last dot
  Part,         \* 1 << 32
  Block,        \* sizes of images are multiples of it
  Variants, None, Same,
  Setups        \* runs of the program: options, ini files, images

Sources == {"images", "bootloader", "provdatazip"}
Targets == Files \X (Variants \cup {None})

IsList(s) == s \in Seq(ToSet(s))

(* The image of the bootloader is a file of the variant.                   *)
IsRow(r) ==
  /\ r.source \in Sources /\ r.file \in Files \cup {None}
  /\ r.source = "bootloader" /\ r.file # None => r.file \in VariantFiles

(* A section, thus an output, is there once. Its name tells its kind, and  *)
(* those that are no json have no configurations.                          *)
IsIni(in) ==
  /\ in.variant = None /\ in.files = {}
  /\ IsList(in.rows) /\ \A r \in ToSet(in.rows) : IsRow(r)
  /\ in.additional \in Seq(Sources \X Files)
  /\ None \notin DOMAIN in.configs
  /\ \A c \in DOMAIN in.configs : /\ c = <<c[1], None>> /\ in.configs[c].default \in BOOLEAN
                                  /\ IsList(in.configs[c].sets)
  /\ IsList(in.outputs) /\ in.outputs # <<>>
  /\ \A o \in ToSet(in.outputs) :
       /\ o.name = <<o.name[1], None>> /\ o.kind \in {"json", "cmd"}
       /\ o.configs \in Seq(DOMAIN in.configs) /\ IsList(o.sets)
       /\ o.kind = "cmd" => o.configs = <<>>
  /\ IsInjective([i \in DOMAIN in.outputs |-> in.outputs[i].name])

(* One variant that -V names, or those of a directory.                     *)
IsSetup(s) ==
  /\ IsIni(s.ini)
  /\ s.variants \in Seq(Variants) /\ IsInjective(s.variants)
  /\ \A v \in ToSet(s.variants) :
       /\ IsList(s.own[v].rows) /\ \A r \in ToSet(s.own[v].rows) : IsRow(r)
       /\ s.own[v].additional # Same => s.own[v].additional \in Seq(Sources \X Files)
  /\ \A f \in Files : s.size[f] \in Nat
  /\ s.fast \in BOOLEAN /\ s.python3 \in BOOLEAN

ASSUME FlashAssumption ==
  /\ VariantFiles \subseteq Files
  /\ Short \in [Files -> STRING] /\ Stem \in [Files -> STRING]
  /\ Part \in Nat \ {0, 1} /\ Block \in Nat \ {0}
  /\ None \notin Files \cup Variants /\ \A t \in Targets : None # t
  /\ \A f \in Files : None # Short[f]
  /\ \A s \in Setups : IsSetup(s)

VARIABLES
  setup,          \* inputs of the program
  pc, at,         \* the loop it is in, and the turn of that loop
  ips,            \* the ini files that are being turned into commands
  default_config, \* the only configuration that may stay the default
  results,        \* command files, by name
  listed,         \* files the ini files name, in order
  files,          \* those of the generic ini file
  zip,            \* flashfile_content and what each entry holds
  iso             \* files on the boot partition of the ISO

flashVars ==
  <<setup, pc, at, ips, default_config, results, listed, files, zip, iso>>

ini == setup.ini

(* Those of s that are in S, and those that were not in front of it, too,  *)
(* each in the order of s; f over g. What provers know nothing of for      *)
(* SelectSeq and @@ follows for these.                                     *)
Select(s, S) == FlattenSeq([i \in DOMAIN s |-> IF s[i] \in S THEN <<s[i]>> ELSE <<>>])

Unique(s) ==
  FlattenSeq([i \in DOMAIN s |-> IF \E j \in 1..(i - 1) : s[j] = s[i] THEN <<>> ELSE <<s[i]>>])

Over(f, g) == [x \in DOMAIN f \cup DOMAIN g |-> IF x \in DOMAIN f THEN f[x] ELSE g[x]]

VariantFilename(f, v) == <<f, v>>

-----------------------------------------------------------------------------
(* flash_cmd_generator.py: one output of one ini file.                     *)

(* Rows of the given sets that are for this type of build, set by set.     *)
Used(ip, sets) ==
  FlattenSeq([i \in DOMAIN sets |->
    Select(ip.rows, {r \in ToSet(ip.rows) : r.set = sets[i] /\ setup.build \in r.builds})])

WithFile(rows) == Select(rows, {r \in ToSet(rows) : r.file # None})

(* A file with a section of its own is named by its variant.               *)
Named(ip, f) == IF f \in ip.files THEN VariantFilename(f, ip.variant) ELSE <<f, None>>

(* FlashFileJson.add_file                                                  *)
Parameter(ip, f) ==
  IF f \in ip.files
  THEN [value |-> None, options |-> [v \in {ip.variant} |-> VariantFilename(f, v)]]
  ELSE [value |-> <<f, None>>, options |-> <<>>]

(* FlashFileJson.parse. A short name that was seen keeps its first file.   *)
UsedBy(ip, o) == [i \in DOMAIN o.configs |-> Used(ip, ip.configs[o.configs[i]].sets)]

First(rows, s) == rows[SelectInSeq(rows, LAMBDA r : Short[r.file] = s)]

ShortsOf(rows) == {Short[r.file] : r \in ToSet(rows)}

Command(c, r) == [restrict |-> c, row |-> r.id,
                  parameter |-> IF r.file = None THEN None ELSE Short[r.file]]

Listed(ip, rows) == [i \in DOMAIN rows |-> <<rows[i].source, Named(ip, rows[i].file)>>]

Json(ip, o) ==
  LET used == UsedBy(ip, o)
      rows == WithFile(FlattenSeq(used))
  IN  [body |->
         [parameters |-> [s \in ShortsOf(rows) |-> Parameter(ip, First(rows, s).file)],
          configurations |->
            [c \in ToSet(o.configs) |->
               [default |-> ip.configs[c].default,
                parameters |->
                  [s \in {Stem[f] : f \in ip.files} \cap ShortsOf(rows) |-> ip.variant]]],
          commands |->
            FlattenSeq([i \in DOMAIN used |->
              [j \in DOMAIN used[i] |-> Command(o.configs[i], used[i][j])]])],
       files |-> Listed(ip, Select(rows, {First(rows, s) : s \in ShortsOf(rows)}))]

(* FlashFileCmd.parse: one line for each fastboot command.                 *)
Lines(ip, o) ==
  LET used == Used(ip, o.sets) IN Select(used, {r \in ToSet(used) : r.tool = "fastboot"})

Cmd(ip, o) ==
  [body |-> [i \in DOMAIN Lines(ip, o) |->
               LET r == Lines(ip, o)[i]
               IN  [row |-> r.id, target |-> IF r.file = None THEN None ELSE Named(ip, r.file)]],
   files |-> Listed(ip, WithFile(Lines(ip, o)))]

Made(ip, o) == IF o.kind = "json" THEN Json(ip, o) ELSE Cmd(ip, o)

(* merge_jsons: what one has only is kept, lists are joined, the rest must *)
(* be the same. Under Python 3 the strings of one side are encoded, those  *)
(* of the other are not, and every two files have strings in common.       *)
MergedParameter(p1, p2) ==
  [value |-> IF p1.value # None THEN p1.value ELSE p2.value,
   options |-> Over(p1.options, p2.options)]

Merge(j1, j2) ==
  LET p1 == j1.parameters
      p2 == j2.parameters
  IN  [parameters |->
         [s \in DOMAIN p1 \cup DOMAIN p2 |->
            IF s \notin DOMAIN p2 THEN p1[s] ELSE IF s \notin DOMAIN p1 THEN p2[s]
            ELSE MergedParameter(p1[s], p2[s])],
       configurations |-> Over(j1.configurations, j2.configurations),
       commands |-> j1.commands \o j2.commands]

CannotMerge(j1, j2) ==
  \/ setup.python3
  \/ \E s \in DOMAIN j1.parameters \cap DOMAIN j2.parameters :
       LET values == {j1.parameters[s].value, j2.parameters[s].value} \ {None}
       IN  \E x, y \in values : x # y

-----------------------------------------------------------------------------
(* main: parse_config of the generic ini file, and again of those of the   *)
(* variants.                                                               *)

FlashInit ==
  /\ setup \in Setups
  /\ pc = "parse" /\ at = 1
  /\ ips = <<setup.ini>>
  /\ default_config = None
  /\ results = <<>> /\ listed = <<>> /\ files = <<>>
  /\ zip = [t \in {} |-> None]
  /\ iso = {}

Parsing == pc \in {"parse", "parse_variants"}

Queue ==
  FlattenSeq([i \in DOMAIN ips |-> [j \in DOMAIN ips[i].outputs |-> <<i, j>>]])

Ip     == ips[Queue[at][1]]
Output == Ip.outputs[Queue[at][2]]
Additional(ip) ==
  [i \in DOMAIN ip.additional |-> <<ip.additional[i][1], <<ip.additional[i][2], None>>>>]

(* The place of the result with this name, or 0.                           *)
Found(name) == SelectInSeq(results, LAMBDA r : r.name = name)

ParseFails ==
  /\ Found(Output.name) # 0
  /\ \/ Output.kind = "cmd"
     \/ CannotMerge(Made(Ip, Output).body, results[Found(Output.name)].body)

ParseOutput ==
  /\ Parsing /\ at <= Len(Queue)
  /\ ~ParseFails
  /\ LET made == Made(Ip, Output)
         k    == Found(Output.name)
     IN  /\ results' = IF k = 0
                       THEN Append(results, [name |-> Output.name, kind |-> Output.kind,
                                             body |-> made.body, parts |-> <<>>])
                       ELSE [results EXCEPT ![k].body = Merge(made.body, @)]
         /\ listed' = listed \o (IF Queue[at][2] = 1 THEN Additional(Ip) ELSE <<>>)
                             \o made.files
  /\ at' = at + 1
  /\ UNCHANGED <<setup, pc, ips, default_config, files, zip, iso>>

MergeFails ==
  /\ Parsing /\ at <= Len(Queue)
  /\ ParseFails
  /\ pc' = "failed"
  /\ UNCHANGED <<setup, at, ips, default_config, results, listed, files, zip, iso>>

(* Before Python 3.7 a dictionary has no order.                            *)
Orders ==
  IF setup.python3 THEN {results}
  ELSE {[i \in DOMAIN results |-> results[p[i]]] :
          p \in Bijection(DOMAIN results, DOMAIN results)}

GenericParsed ==
  /\ pc = "parse" /\ at > Len(Queue)
  /\ files' = Unique(listed)
  /\ at' = 1
  /\ IF setup.variants = <<>>
     THEN /\ pc' = "images"
          /\ results' \in Orders
          /\ UNCHANGED <<ips, listed>>
     ELSE /\ pc' = "variants"
          /\ ips' = <<>> /\ results' = <<>> /\ listed' = <<>>
  /\ UNCHANGED <<setup, default_config, zip, iso>>

VariantsParsed ==
  /\ pc = "parse_variants" /\ at > Len(Queue)
  /\ results' \in Orders
  /\ pc' = "images" /\ at' = 1
  /\ UNCHANGED <<setup, ips, default_config, listed, files, zip, iso>>

-----------------------------------------------------------------------------
(* VariantIpGenerator.                                                     *)

(* flashfiles_<variant>.ini adds rows and may change [global].             *)
RowsOf(v) == ini.rows \o setup.own[v].rows

AdditionalOf(v) ==
  IF setup.own[v].additional = Same THEN ini.additional ELSE setup.own[v].additional

(* The variant has its own of these files. Taking the additional files out *)
(* of them has no effect: those are written with their sources.            *)
FilesOf(v) ==
  LET rows == {r \in ToSet(RowsOf(v)) : r.file # None}
  IN  ({r.file : r \in {q \in rows : q.source = "provdatazip"}} \cup VariantFiles)
        \cap {r.file : r \in rows}

OutputIn(o, name, configs) == [name |-> name, kind |-> o.kind, configs |-> configs, sets |-> o.sets]

(* json outputs have configurations of the variant; installer.cmd has the  *)
(* variant in its name, and as a new section it is behind them.            *)
OutputsOf(v) ==
  LET jsons == Select(ini.outputs, {o \in ToSet(ini.outputs) : o.kind = "json"})
      cmds  == Select(ini.outputs, {o \in ToSet(ini.outputs) : o.kind = "cmd"})
  IN  [i \in DOMAIN jsons |->
         OutputIn(jsons[i], jsons[i].name,
                  [j \in DOMAIN jsons[i].configs |-> <<jsons[i].configs[j][1], v>>])]
      \o [i \in DOMAIN cmds |-> OutputIn(cmds[i], <<cmds[i].name[1], v>>, cmds[i].configs)]

(* The configurations of the outputs, in the order they get their variant. *)
Variantized == FlattenSeq([i \in DOMAIN ini.outputs |-> ini.outputs[i].configs])

(* Wrong variant of KeptDefault: the default is not remembered.            *)
KeptDefaultOfEach ==
  LET k == SelectInSeq(Variantized, LAMBDA c : ini.configs[c].default)
  IN  IF k # 0 THEN Variantized[k] ELSE None

(* "Only one configuration can be the default one": the first of all.      *)
KeptDefault ==
  LET k == SelectInSeq(Variantized, LAMBDA c : ini.configs[c].default)
  IN  IF default_config = None /\ k # 0 THEN Variantized[k] ELSE None

ConfigsOf(v) ==
  [c \in {<<d[1], v>> : d \in ToSet(Variantized)} |->
     [sets |-> ini.configs[<<c[1], None>>].sets, default |-> <<c[1], None>> = KeptDefault]]

(* Wrong variant of VariantIp: the files of the variant have no sections.  *)
VariantIpUnnamed(v) ==
  [variant |-> v, additional |-> AdditionalOf(v), rows |-> RowsOf(v), files |-> {},
   configs |-> ConfigsOf(v),
   outputs |-> OutputsOf(v)]

VariantIp(v) ==
  [variant |-> v, additional |-> AdditionalOf(v), rows |-> RowsOf(v),
   files |-> FilesOf(v),
   configs |-> ConfigsOf(v),
   outputs |-> OutputsOf(v)]

(* A configuration of two outputs is renamed once and not found again; the *)
(* option additional-files is read in the generic file if a variant has it.*)
CannotVariantize(v) ==
  \/ ~IsInjective(Variantized)
  \/ setup.own[v].additional # Same /\ ini.additional = <<>>

GenerateVariantIp ==
  /\ pc = "variants" /\ at <= Len(setup.variants)
  /\ LET v == setup.variants[at]
     IN  /\ ~CannotVariantize(v)
         /\ ips' = Append(ips, VariantIp(v))
  /\ default_config' = IF default_config = None THEN KeptDefault ELSE default_config
  /\ at' = at + 1
  /\ UNCHANGED <<setup, pc, results, listed, files, zip, iso>>

VariantizeFails ==
  /\ pc = "variants" /\ at <= Len(setup.variants)
  /\ CannotVariantize(setup.variants[at])
  /\ pc' = "failed"
  /\ UNCHANGED <<setup, at, ips, default_config, results, listed, files, zip, iso>>

Variantize ==
  /\ pc = "variants" /\ at > Len(setup.variants)
  /\ pc' = "parse_variants" /\ at' = 1
  /\ UNCHANGED <<setup, ips, default_config, results, listed, files, zip, iso>>

-----------------------------------------------------------------------------
(* main: "Adding required binaries".                                       *)

Dropped(v)  == ToSet(ini.additional) \ ToSet(AdditionalOf(v))
Included(v) == ToSet(AdditionalOf(v)) \ ToSet(ini.additional)

(* variant_exclude_files: what is additional for others only.              *)
Excluded == UNION {{VariantFilename(f[2], v) : f \in Dropped(v)} : v \in ToSet(setup.variants)}

CmdFiles == {listed[i][2] : i \in DOMAIN listed}

(* Wrong variant of TargetOut: named by the last variant.                  *)
TargetOutOfLast(f, v) ==
  IF VariantFilename(f, v) \in CmdFiles \/ f \in VariantFiles
  THEN VariantFilename(f, Last(setup.variants)) ELSE <<f, None>>

TargetOut(f, v) ==
  IF VariantFilename(f, v) \in CmdFiles \/ f \in VariantFiles
  THEN VariantFilename(f, v) ELSE <<f, None>>

(* Wrong variant of Skipped: a file that no command names is taken.        *)
SkippedAsExcluded(f, v) == \E w \in ToSet(setup.variants) : VariantFilename(f, w) \in Excluded

Skipped(f, v) ==
  \/ VariantFilename(f, v) \in Excluded
  \/ TargetOut(f, v) = <<f, None>> /\ <<f, None>> \notin CmdFiles

Job(s, f, v, t) == [source |-> s, file |-> f, variant |-> v, target |-> t]

(* Every file of the generic ini file for every variant, then those that   *)
(* a variant has on top.                                                   *)
Jobs ==
  IF setup.variants = <<>>
  THEN [i \in DOMAIN files |-> Job(files[i][1], files[i][2][1], None, files[i][2])]
  ELSE FlattenSeq([i \in DOMAIN files |->
         LET s == files[i][1]
             f == files[i][2][1]
             wanted == Select(setup.variants, {v \in ToSet(setup.variants) : ~Skipped(f, v)})
         IN  [j \in DOMAIN wanted |-> Job(s, f, wanted[j], TargetOut(f, wanted[j]))]])
       \o FlattenSeq([i \in DOMAIN setup.variants |->
         LET v   == setup.variants[i]
             own == SetToSeq(Included(v))
         IN  [j \in DOMAIN own |-> Job(own[j][1], own[j][2], v, VariantFilename(own[j][2], v))]])

(* What a source has under a name: what provdata_<variant>.zip has is the  *)
(* variant's, and so is a bootloader made of the target files, but one     *)
(* made of out/ (GetBootloaderImageFromOut, --fast) is the generic one.    *)
Content(s, f, v) ==
  <<s, f, IF s = "images" \/ (s = "bootloader" /\ setup.fast) THEN None ELSE v>>

Missing(job) == job.source = "provdatazip" /\ job.file \notin setup.provdata[job.variant]

Big(f) == ~setup.fast /\ setup.size[f] >= Part

(* Wrong variant of NumberOfParts: rounded down.                           *)
NumberOfPartsDown(f) == setup.size[f] \div Part

NumberOfParts(f) == (setup.size[f] \div Part) + 1

(* The names in the second result, whatever that is, become those of the   *)
(* parts.                                                                  *)
WithParts(t, f) ==
  IF Big(f) THEN [results EXCEPT ![2].parts = Over([u \in {t} |-> NumberOfParts(f)], @)]
  ELSE results

ProcessImage ==
  /\ pc = "images" /\ at <= Len(Jobs)
  /\ LET job == Jobs[at]
     IN  \/ /\ job.target \in DOMAIN zip
            /\ UNCHANGED <<zip, results>>
         \/ /\ job.target \notin DOMAIN zip
            /\ ~Missing(job)
            /\ Big(job.file) => Len(results) >= 2
            /\ zip' = Over(zip, [t \in {job.target} |-> Content(job.source, job.file, job.variant)])
            /\ results' = WithParts(job.target, job.file)
  /\ at' = at + 1
  /\ UNCHANGED <<setup, pc, ips, default_config, listed, files, iso>>

ImageFails ==
  /\ pc = "images" /\ at <= Len(Jobs)
  /\ LET job == Jobs[at]
     IN  /\ job.target \notin DOMAIN zip
         /\ Missing(job) \/ (Big(job.file) /\ Len(results) < 2)
  /\ pc' = "failed"
  /\ UNCHANGED <<setup, at, ips, default_config, results, listed, files, zip, iso>>

WriteResults ==
  /\ pc = "images" /\ at > Len(Jobs)
  /\ pc' = "done"
  /\ UNCHANGED <<setup, at, ips, default_config, results, listed, files, zip, iso>>

(* tasks/flashfiles.mk: files of more than 1 << 32 bytes are replaced by   *)
(* pieces one byte shorter than that.                                      *)
MakeIso ==
  /\ pc = "done" /\ ~setup.fast
  /\ LET split(t)  == setup.size[t[1]] > Part
         pieces(t) == (setup.size[t[1]] + Part - 2) \div (Part - 1)
     IN  iso' = {<<t>> : t \in {u \in DOMAIN zip : ~split(u)}}
                \cup UNION {{<<t, i>> : i \in 0..(pieces(t) - 1)} :
                              t \in {u \in DOMAIN zip : split(u)}}
  /\ pc' = "iso"
  /\ UNCHANGED <<setup, at, ips, default_config, results, listed, files, zip>>

FlashNext ==
  \/ ParseOutput \/ MergeFails \/ GenericParsed \/ VariantsParsed
  \/ GenerateVariantIp \/ VariantizeFails \/ Variantize
  \/ ProcessImage \/ ImageFails \/ WriteResults
  \/ MakeIso

FlashSpec == FlashInit /\ [][FlashNext]_flashVars

-----------------------------------------------------------------------------
(* Properties.                                                             *)

Rows == UNION {ToSet(ips[k].rows) : k \in DOMAIN ips}

(* What the ini files must keep to: a name stands for one file of one      *)
(* source, a variant adds no file the generic file does not name and drops *)
(* none that a command needs; an output names a configuration once.        *)
Consistent ==
  LET named == {<<r.source, r.file>> : r \in {q \in Rows : q.file # None}}
      additional == ToSet(ini.additional)
                      \cup UNION {ToSet(ips[k].additional) : k \in DOMAIN ips}
  IN  /\ \A x, y \in named \cup additional : Short[x[2]] = Short[y[2]] => x = y
      /\ named \subseteq {<<files[i][1], files[i][2][1]>> : i \in DOMAIN files}
      /\ \A v \in ToSet(setup.variants) : Dropped(v) \cap named = {}
      /\ \A f \in Files : Short[f] = Stem[f]
      /\ \A o \in ToSet(ini.outputs) : IsInjective(o.configs)

Finished == pc \in {"done", "iso"}

(* Types; an entry that is named by a variant is not that of another one.  *)
FlashTypeOK ==
  /\ pc \in {"json", "parse", "variants", "parse_variants", "images", "done", "iso", "failed"}
  /\ at \in Nat \ {0}
  /\ default_config \in DOMAIN ini.configs \cup {None}
  /\ \A i \in DOMAIN results :
       /\ results[i].kind \in {"json", "cmd"}
       /\ DOMAIN results[i].parts \subseteq Targets
  /\ ToSet(listed) \cup ToSet(files) \subseteq Sources \X Targets
  /\ DOMAIN zip \subseteq Targets
  /\ \A t \in DOMAIN zip : /\ zip[t] \in Sources \X Files \X (Variants \cup {None})
                           /\ zip[t][2] = t[1]
                           /\ t[2] # None => zip[t][3] \in {None, t[2]}

(* What the commands of a configuration flash, in their order. A parameter *)
(* with options stands for the one the configuration chooses.              *)
Flashed(json, c) ==
  LET mine == Select(json.commands, {x \in ToSet(json.commands) : x.restrict = c})
      chosen == json.configurations[c].parameters
      target(s) == IF s \in DOMAIN chosen /\ chosen[s] \in DOMAIN json.parameters[s].options
                   THEN json.parameters[s].options[chosen[s]]
                   ELSE json.parameters[s].value
  IN  [i \in DOMAIN mine |->
         <<mine[i].row,
           IF mine[i].parameter = None THEN None
           ELSE LET t == target(mine[i].parameter)
                IN  IF t \in DOMAIN zip THEN zip[t] ELSE None>>]

(* The file a row names, taken for a variant. Images are there once, for   *)
(* all of them. The bootloader of a --fast run is not held against its     *)
(* variant: the program has the generic one under the name of each.        *)
Wanted(r, v) ==
  LET generic == r.source = "images" \/ (setup.fast /\ r.source = "bootloader")
  IN  <<r.source, r.file, IF generic THEN None ELSE v>>

(* What the rows say.                                                      *)
Meant(ip, rows) ==
  [i \in DOMAIN rows |->
     <<rows[i].id, IF rows[i].file = None THEN None ELSE Wanted(rows[i], ip.variant)>>]

(* In every configuration of every variant the commands are those of its   *)
(* ini file, in the order of its sets, and each flashes an entry of the    *)
(* zip that holds the file its row names, taken for that variant; so do    *)
(* the lines of its installer.cmd. ("so that command sets will be executed *)
(* in the order of the .ini", through copies, renamed sections and merges.)*)
(* The exception is the bootloader of a --fast run, which is the generic   *)
(* one for each variant.                                                   *)
CommandsFlashTheirFiles ==
  Finished /\ Consistent =>
    \A k \in DOMAIN ips : \A o \in ToSet(ips[k].outputs) :
      LET made == results[Found(o.name)].body
      IN  IF o.kind = "json"
          THEN \A c \in ToSet(o.configs) :
                 Flashed(made, c) = Meant(ips[k], Used(ips[k], ips[k].configs[c].sets))
          ELSE LET lines == [i \in DOMAIN made |->
                               <<made[i].row,
                                 IF made[i].target \in DOMAIN zip THEN zip[made[i].target]
                                 ELSE None>>]
               IN  lines = Meant(ips[k], Lines(ips[k], o))

(* Flash files for several variants have one default configuration in all  *)
(* their command files together if the generic file has any, else none.    *)
OneDefault ==
  Finished /\ setup.variants # <<>> =>
    LET jsons == {i \in DOMAIN results : results[i].kind = "json"}
        defaults == UNION {{<<i, c>> : c \in {d \in DOMAIN results[i].body.configurations :
                              results[i].body.configurations[d].default}} : i \in jsons}
        any == \E i \in DOMAIN Variantized : ini.configs[Variantized[i]].default
    IN  Cardinality(defaults) = (IF any THEN 1 ELSE 0)

(* Additional files of a variant that no command names are in the zip,     *)
(* under their own name or that of the variant, also when other variants   *)
(* drop them or add them. A variant does not replace one by a file of the  *)
(* same name from somewhere else.                                          *)
AdditionalThere ==
  /\ Finished
  /\ \A v \in ToSet(setup.variants) : \A x \in Dropped(v), y \in ToSet(AdditionalOf(v)) :
       x[2] # y[2]
  =>
    \A k \in DOMAIN ips : \A f \in ToSet(ips[k].additional) :
      {<<f[2], None>>, <<f[2], ips[k].variant>>} \cap DOMAIN zip # {}

(* The parts that installer.cmd names are the pieces on the ISO, and what  *)
(* it names whole is there whole. Names are replaced in the second of two  *)
(* outputs, and one image of exactly the limit gets the name of a part. Up *)
(* to so many parts as a block has bytes, parts and pieces are as many.    *)
InstallerFindsFiles ==
  /\ pc = "iso" /\ Consistent
  /\ Len(results) = 2 /\ results[2].kind = "cmd"
  /\ Part % Block = 0
  /\ \A f \in Files : /\ setup.size[f] # Part /\ setup.size[f] % Block = 0
                      /\ setup.size[f] < Part * Block
  => \A line \in ToSet(results[2].body) :
       LET t == line.target
           parts == results[2].parts
           names == IF t \in DOMAIN parts THEN {<<t, i>> : i \in 0..(parts[t] - 1)} ELSE {<<t>>}
       IN  t # None => names = {n \in iso : n[1] = t}

(* -U: "mega (all variants) flash files from target file".                 *)
MegaIsMade ==
  /\ Len(setup.variants) > 1
  /\ \A v \in ToSet(setup.variants) :
       /\ setup.own[v] = [rows |-> <<>>, additional |-> Same]
       /\ ~CannotVariantize(v)
  => pc # "failed"
=============================================================================
