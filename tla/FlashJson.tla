----------------------------- MODULE FlashJson -----------------------------
(***************************************************************************)
(* flashfiles_from_target_files with the older instructions: a file        *)
(* flashfiles.json (flashxml.py) or flashfiles_fls.json (flashflsxml.py)   *)
(* instead of flashfiles.ini. Only the first half of the program is        *)
(* another one; images are taken and results written as in FlashFiles.     *)
(*                                                                         *)
(* A command has its target files (a sequence, mostly of one; $1 in its    *)
(* arguments: dollar) and the builds, platforms, subgroups or outputs it   *)
(* is for. A set of these stands for "variant" or "!variant" and the like. *)
(***************************************************************************)
EXTENDS FlashFiles

CONSTANTS
  JsonSetups,   \* runs of the program with these instructions
  FirstLetter   \* what is left of a name of which only that is taken

(* What the instructions look like. An output is there once, and what names *)
(* a group of commands names one that is there.                            *)
IsCommands(cmds) ==
  /\ IsList(cmds)
  /\ \A c \in ToSet(cmds) : IsList(c.target) /\ ToSet(c.target) \subseteq Files /\ c.source \in Sources

IsConf(format, x) ==
  /\ IsList(x.outputs) /\ IsInjective([i \in DOMAIN x.outputs |-> x.outputs[i].name])
  /\ \A o \in ToSet(x.outputs) : o.kind \in {"json", "cmd", "xml"}
  /\ IsFiniteSet(DOMAIN x.configurations)
  /\ \/ format = "fls" /\ IsCommands(x.commands)
     \/ /\ format = "json" /\ IsFiniteSet(DOMAIN x.commands)
        /\ \A g \in DOMAIN x.commands : IsCommands(x.commands[g])
        /\ \A k \in DOMAIN x.configurations : x.configurations[k].commands \in DOMAIN x.commands
        /\ \A o \in ToSet(x.outputs) : o.kind = "cmd" => o.commands \in DOMAIN x.commands

ASSUME FlashJsonAssumption == \A s \in JsonSetups : IsConf(s.format, s.conf)

VARIABLE
  commands      \* groups of commands, which outputs share and change

jsonVars == <<flashVars, commands>>

conf == setup.conf

JsonInit ==
  /\ setup \in JsonSetups
  /\ pc = "json" /\ at = 1 /\ ips = <<>>
  /\ default_config = None
  /\ results = <<>> /\ listed = <<>> /\ files = <<>>
  /\ zip = [t \in {} |-> None]
  /\ iso = {}
  /\ commands = setup.conf.commands

Shorts(fs) == [i \in DOMAIN fs |-> Short[fs[i]]]

(* add_file, for files and their sources in this order: a file is added    *)
(* once, a short name means the last file that has it.                     *)
Added(sourced) ==
  FlattenSeq([i \in DOMAIN sourced |->
    IF \E j \in 1..(i - 1) : sourced[j][2] = sourced[i][2] THEN <<>> ELSE <<sourced[i]>>])

Parameters(sourced) ==
  LET new == Added(sourced)
  IN  [s \in {Short[x[2]] : x \in ToSet(new)} |->
         new[SelectLastInSeq(new, LAMBDA x : Short[x[2]] = s)][2]]

FileList(sourced) ==
  LET new == Added(sourced) IN [i \in DOMAIN new |-> <<new[i][1], <<new[i][2], None>>>>]

-----------------------------------------------------------------------------
(* flashxml.py                                                             *)

(* filter_command with the type of build as the variant.                   *)
Passes(cmd) == setup.build \in cmd.builds /\ setup.platform \in cmd.platforms

IsNamed(cmd) == cmd.target # <<>> /\ ~cmd.format

Sourced(cmds) ==
  FlattenSeq([i \in DOMAIN cmds |-> [j \in DOMAIN cmds[i].target |->
    <<cmds[i].source, cmds[i].target[j]>>]])

(* A target becomes a list of targets, for the outputs that follow, too.   *)
WithListed(c, list) ==
  [id |-> c.id, type |-> c.type, source |-> c.source, target |-> c.target, dollar |-> c.dollar,
   format |-> c.format, listed |-> list, builds |-> c.builds, platforms |-> c.platforms,
   restrict |-> c.restrict]

WithLists(groups) ==
  [g \in DOMAIN groups |-> [i \in DOMAIN groups[g] |->
     IF Passes(groups[g][i]) THEN WithListed(groups[g][i], TRUE) ELSE groups[g][i]]]

KnownTypes == {"fastboot", "dldr", "waitForDevice", "sleep"}

(* Wrong variant of Restricted: by groups of commands only.                *)
RestrictedToGroup(group, cmd) ==
  {c \in DOMAIN conf.configurations : conf.configurations[c].commands = group}

(* FlashFileJson.add_command: the configurations a command is for.         *)
Restricted(group, cmd) ==
  {c \in DOMAIN conf.configurations : /\ conf.configurations[c].commands = group
                                      /\ conf.configurations[c].subgroup \in cmd.restrict}

(* Without $1 only the first target gets into the arguments.               *)
InArguments(cmd) == IF cmd.dollar THEN cmd.target ELSE <<cmd.target[1]>>

JsonCommand(group, cmd) ==
  [row |-> cmd.id, restrict |-> Restricted(group, cmd),
   parameters |-> IF IsNamed(cmd) /\ cmd.type \in {"fastboot", "dldr"} THEN Shorts(InArguments(cmd))
                  ELSE <<>>]

Passing(cmds) == Select(cmds, {c \in ToSet(cmds) : Passes(c)})

MadeOf(group, cmds) ==
  LET known == Select(cmds, {c \in ToSet(cmds) : c.type \in KnownTypes})
  IN  [j \in DOMAIN known |-> JsonCommand(group, known[j])]

(* The order of groups is that of a dictionary, but no configuration has   *)
(* commands of two.                                                        *)
JsonOutput ==
  LET groups == SetToSeq(DOMAIN commands)
      passing == [i \in DOMAIN groups |-> Passing(commands[groups[i]])]
      all     == FlattenSeq(passing)
      sourced == Sourced(Select(all, {c \in ToSet(all) : IsNamed(c)}))
      made    == [i \in DOMAIN groups |-> MadeOf(groups[i], passing[i])]
      new     == FlattenSeq(made)
  IN  [body |-> [parameters |-> Parameters(sourced),
                 commands |-> Select(new, {c \in ToSet(new) : c.restrict # {}})],
       files |-> FileList(sourced)]

CmdCommands(o) ==
  LET passing == Passing(commands[o.commands])
  IN  Select(passing, {c \in ToSet(passing) : o.subgroup \in c.restrict})

(* cmd['target'][0], which is a letter where no output has made it a list. *)
CmdOutput(o) ==
  LET lines == Select(CmdCommands(o), {c \in ToSet(CmdCommands(o)) : c.type = "fastboot"})
  IN  [i \in DOMAIN lines |->
         [row |-> lines[i].id,
          target |-> IF ~IsNamed(lines[i]) THEN None
                     ELSE <<IF lines[i].listed THEN lines[i].target[1] ELSE FirstLetter, None>>]]

-----------------------------------------------------------------------------
(* flashflsxml.py. The configurations but "fastboot_config" call           *)
(* flsDownloader with all files that are for them; that one extracts parts *)
(* of some files and flashes these.                                        *)

ForOutput(o) ==
  Select(commands, {c \in ToSet(commands) : c.restrict = None \/ o.name[1] \in c.restrict})

FlsConfigs == DOMAIN conf.configurations \ {"fastboot_config"}

UnknownCore(o) ==
  \E c \in ToSet(ForOutput(o)) : c.type = "fls" /\ c.core # None /\ ~(c.core \subseteq FlsConfigs)

Entry(row, c, fs) == [row |-> row, restrict |-> {c}, parameters |-> Shorts(fs)]

Arguments(fls, config) ==
  LET mine == Select(fls, {c \in ToSet(fls) : c.core = None \/ config \in c.core})
  IN  FlattenSeq([i \in DOMAIN mine |-> mine[i].target])

UsedOf(cmds, types) == Select(cmds, {c \in ToSet(cmds) : c.type \in types})

FlsOutput(o) ==
  LET used    == UsedOf(ForOutput(o), {"fls", "info"})
      fls     == UsedOf(used, {"fls"})
      parts   == Select(fls, {c \in ToSet(fls) : c.fastboot})
      configs == SetToSeq(DOMAIN conf.configurations)
  IN  [body |->
         [parameters |-> Parameters(Sourced(used)),
          commands |->
            [i \in DOMAIN parts |-> Entry(parts[i].id, "fastboot_config", parts[i].target)]
            \o [i \in DOMAIN configs |->
                  IF configs[i] = "fastboot_config" THEN Entry("lock", configs[i], <<>>)
                  ELSE Entry("download", configs[i], Arguments(fls, configs[i]))]],
       files |-> FileList(Sourced(used))]

-----------------------------------------------------------------------------
(* main                                                                    *)

Result(o, kind, body) == [name |-> o.name, kind |-> kind, body |-> body, parts |-> <<>>]

(* An xml file is never finished: it is written as bytes into a text. The  *)
(* fls format leaves it out, with any other that is not json.              *)
JsonOutputFails(o) ==
  IF setup.format = "fls" THEN o.kind = "json" /\ UnknownCore(o) ELSE o.kind = "xml"

(* The files are those of the last json output.                            *)
ParseJsonOutput ==
  /\ pc = "json" /\ at <= Len(conf.outputs)
  /\ LET o == conf.outputs[at]
     IN  /\ ~JsonOutputFails(o)
         /\ IF o.kind = "json"
            THEN LET made == IF setup.format = "fls" THEN FlsOutput(o) ELSE JsonOutput
                 IN  /\ results' = Append(results, Result(o, "json", made.body))
                     /\ files' = made.files
                     /\ commands' = IF setup.format = "fls" THEN commands
                                    ELSE WithLists(commands)
            ELSE /\ results' = IF setup.format = "fls" THEN results
                               ELSE Append(results, Result(o, "cmd", CmdOutput(o)))
                 /\ UNCHANGED <<files, commands>>
  /\ at' = at + 1
  /\ UNCHANGED <<setup, pc, ips, default_config, listed, zip, iso>>

(* -V needs the ini file that was not read.                                *)
JsonFails ==
  /\ pc = "json"
  /\ IF at <= Len(conf.outputs) THEN JsonOutputFails(conf.outputs[at]) ELSE setup.variants # <<>>
  /\ pc' = "failed"
  /\ UNCHANGED <<setup, at, ips, default_config, results, listed, files, zip, iso, commands>>

JsonParsed ==
  /\ pc = "json" /\ at > Len(conf.outputs) /\ setup.variants = <<>>
  /\ pc' = "images" /\ at' = 1
  /\ UNCHANGED <<setup, ips, default_config, results, listed, files, zip, iso, commands>>

AllInit == (FlashInit /\ commands = <<>>) \/ JsonInit

AllNext ==
  \/ FlashNext /\ UNCHANGED commands
  \/ ParseJsonOutput \/ JsonFails \/ JsonParsed

AllSpec == AllInit /\ [][AllNext]_jsonVars

-----------------------------------------------------------------------------
(* Properties                                                              *)

AllCommands ==
  IF setup.format = "fls" THEN ToSet(conf.commands)
  ELSE UNION {ToSet(conf.commands[g]) : g \in DOMAIN conf.commands}

(* A short name stands for one file of one source.                         *)
ShortsUnique ==
  \A c, d \in AllCommands : \A f \in ToSet(c.target), g \in ToSet(d.target) :
    Short[f] = Short[g] => f = g /\ c.source = d.source

(* What an entry of a command file flashes: contents of entries of zip.    *)
Flashes(json, c) ==
  LET mine == Select(json.commands, {x \in ToSet(json.commands) : c \in x.restrict})
      content(s) == LET t == <<json.parameters[s], None>>
                    IN  IF t \in DOMAIN zip THEN zip[t] ELSE None
  IN  [i \in DOMAIN mine |->
         [j \in DOMAIN mine[i].parameters |-> content(mine[i].parameters[j])]]

Contents(cmd, fs) == [j \in DOMAIN fs |-> Content(cmd.source, fs[j], None)]

(* What the instructions say for a configuration of flashfiles.json: those *)
(* of its group for its subgroup, in order, each with all its targets if   *)
(* it numbers them ...                                                     *)
MeantByJson(c) ==
  LET cfg  == conf.configurations[c]
      all  == conf.commands[cfg.commands]
      cmds == Select(all, {x \in ToSet(all) :
                Passes(x) /\ cfg.subgroup \in x.restrict /\ x.type \in KnownTypes})
  IN  [i \in DOMAIN cmds |->
         IF ~IsNamed(cmds[i]) \/ cmds[i].type \notin {"fastboot", "dldr"} THEN <<>>
         ELSE Contents(cmds[i], IF cmds[i].dollar THEN cmds[i].target ELSE <<cmds[i].target[1]>>)]

(* ... and of flashfiles_fls.json: one call with the files for its cores.  *)
MeantByFls(o, c) ==
  LET all  == ForOutput(o)
      mine == Select(all, {x \in ToSet(all) : x.type = "fls" /\ (x.core = None \/ c \in x.core)})
  IN  <<FlattenSeq([i \in DOMAIN mine |-> Contents(mine[i], mine[i].target)])>>

(* Every json file's configuration does what the instructions say, with    *)
(* files that are in the zip, and every line of installer.cmd made after a *)
(* json file flashes its file: names go through parameters, the list of    *)
(* files and targets that the outputs before have changed. Premises: short *)
(* names are unique, outputs of the fls format name the same files.        *)
JsonFlashesItsFiles ==
  pc \in {"done", "iso"} /\ ips = <<>> /\ ShortsUnique =>
    \A i \in DOMAIN results :
      LET r == results[i]
          o == conf.outputs[SelectInSeq(conf.outputs, LAMBDA x : x.name = r.name)]
          named == {d.target : d \in {x \in ToSet(CmdCommands(o)) :
                                        x.type = "fastboot" /\ IsNamed(x)}}
      IN  IF r.kind = "json" /\ setup.format = "json"
          THEN \A c \in DOMAIN conf.configurations : Flashes(r.body, c) = MeantByJson(c)
          ELSE IF r.kind = "json"
          THEN (\A x \in ToSet(conf.commands) : x.restrict = None) =>
                 \A c \in FlsConfigs : Flashes(r.body, c) = MeantByFls(o, c)
          ELSE results[1].kind = "json" =>
                 /\ {<<line.target>> : line \in ToSet(r.body)} \ {<<None>>}
                      = {<<<<t[1], None>>>> : t \in named}
                 /\ \A line \in ToSet(r.body) : line.target # None => line.target \in DOMAIN zip
=============================================================================
