----------------------------- MODULE GenerateOtas -----------------------------
(***************************************************************************)
(* releasetools/generate_otas: one thread for each type of package (full,  *)
(* incremental). A thread has ota_from_target_files build the generic      *)
(* package, then has one ota_deployment_fixup process for each variant     *)
(* derive a package from it, waits for them in order and adds what it made *)
(* to a shared list. The main thread joins the threads and releases what   *)
(* is in the list. A SIGINT runs finish_all in the main thread, which      *)
(* terminates the processes registered so far.                             *)
(*                                                                         *)
(* The critical sections of the code hold one list operation each; each is *)
(* one step here. The program is Python 2: a blocked Thread.join is not    *)
(* interrupted by a signal, its handler runs when the join has returned;   *)
(* and Popen.terminate of a process that was waited for raises OSError.    *)
(***************************************************************************)
EXTENDS Integers, Sequences

CONSTANTS
  Types,          \* the types of packages: full, incremental
  JobLists,       \* the lists of types a command line may ask for
  VariantLists    \* the values gbl.variants may have, <<>> for None

Generic == "generic"    \* the package all variants derive from
Released == "released"  \* under the name main gives it, the same for every
                        \* variant: it takes the device and the builds from
                        \* the metadata, where ota_deployment_fixup leaves
                        \* all three as they are

Variants == UNION {{v[i] : i \in DOMAIN v} : v \in VariantLists}
Outputs == {Generic} \cup Variants

ASSUME OtasAssumption ==
  /\ JobLists \subseteq Seq(Types) \ {<<>>}
  /\ \A l \in JobLists : \A i, j \in DOMAIN l : l[i] = l[j] => i = j
  /\ VariantLists \subseteq Seq(Variants)
  /\ \A v \in VariantLists : \A i, j \in DOMAIN v : v[i] = v[j] => i = j
  /\ Variants \cap {Generic, Released} = {}

VARIABLES
  jobs,         \* the types asked for, in the order of their threads
  variants,     \* gbl.variants
  to_file,      \* option -f
  thread,       \* where each thread is
  next,         \* its loop variable
  child,        \* the processes: none, running, good or bad exit, waited for
  processes,    \* gbl.processes
  ota_list,     \* gbl.ota_list
  dir,          \* the output directory: what is in each package file
  output,       \* what is in the file of option -f
  metadata,     \* js["files"], once metadata.json is written
  main,         \* where the main thread is
  turn,         \* its loop variable
  handler       \* finish_all: 0 not entered, n at the n-th process

inputs == <<jobs, variants, to_file>>
threadVars == <<thread, next, ota_list>>
mainVars == <<output, metadata, main, turn>>
otaVars == <<inputs, threadVars, child, processes, dir, mainVars, handler>>

(* What is in a file: a package the process of that name has written, or   *)
Absent == <<"absent">>
Old    == <<"old">>       \* a package of an earlier run
Spoilt == <<"spoilt">>    \* a part of a package

Files == Types \X (Outputs \cup {Released})

Left == -1
InHandler == handler > 0

JobSet == {jobs[i] : i \in DOMAIN jobs}

Init ==
  /\ jobs \in JobLists
  /\ variants \in VariantLists
  /\ to_file \in BOOLEAN
  /\ to_file => Len(jobs) = 1        \* -f is refused with -a
  /\ thread = [t \in Types |-> "idle"]
  /\ next = [t \in Types |-> 1]
  /\ child = [f \in Types \X Outputs |-> "none"]
  /\ processes = <<>>
  /\ ota_list = <<>>
  /\ \E old \in {Absent, Old} : dir = [f \in Files |-> old]
  /\ output = Absent
  /\ metadata = <<>>
  /\ main = "start" /\ turn = 1
  /\ handler = 0

-----------------------------------------------------------------------------
(* The processes.                                                          *)

(* A process exits with 0 when its package is written, and otherwise       *)
(* leaves the file as it was or spoilt. A ^C from the terminal, which      *)
(* reaches every process, is one of the reasons to fail.                   *)
Exit(f) ==
  /\ child[f] = "running"
  /\ \/ /\ child' = [child EXCEPT ![f] = "good"]
        /\ dir' = [dir EXCEPT ![f] = f]
     \/ /\ child' = [child EXCEPT ![f] = "bad"]
        /\ dir' \in {dir, [dir EXCEPT ![f] = Spoilt]}
  /\ UNCHANGED <<inputs, threadVars, processes, mainVars, handler>>

-----------------------------------------------------------------------------
(* A thread (generate, generate_variants).                                 *)

Goto(t, where) == thread' = [thread EXCEPT ![t] = where]

(* An exception ends the thread. Nobody is told.                           *)
PopenFails(t) ==
  /\ thread[t] \in {"build", "spawn"}
  /\ Goto(t, "dead")
  /\ UNCHANGED <<inputs, next, ota_list, child, processes, dir, mainVars, handler>>

(* subprocess.check_call of ota_from_target_files: started, waited for.    *)
Build(t) ==
  /\ thread[t] = "build"
  /\ child' = [child EXCEPT ![<<t, Generic>>] = "running"]
  /\ Goto(t, "built")
  /\ UNCHANGED <<inputs, next, ota_list, processes, dir, mainVars, handler>>

Built(t) ==
  /\ thread[t] = "built"
  /\ child[t, Generic] \in {"good", "bad"}
  /\ child' = [child EXCEPT ![<<t, Generic>>] = "waited"]
  /\ Goto(t, IF child[t, Generic] = "bad" THEN "dead"
             ELSE IF variants = <<>> THEN "extend" ELSE "spawn")
  /\ UNCHANGED <<inputs, next, ota_list, processes, dir, mainVars, handler>>

Spawn(t) ==
  /\ thread[t] = "spawn"
  /\ child' = [child EXCEPT ![<<t, variants[next[t]]>>] = "running"]
  /\ Goto(t, "register")
  /\ UNCHANGED <<inputs, next, ota_list, processes, dir, mainVars, handler>>

(* Wrong variant of Loop: the second loop starts where the first ended.    *)
LoopWithoutReset(t, again, after) ==
  /\ next' = [next EXCEPT ![t] = @ + 1]
  /\ Goto(t, IF next[t] < Len(variants) THEN again ELSE after)

(* The for loops over gbl.variants.                                        *)
Loop(t, again, after) ==
  IF next[t] < Len(variants)
  THEN next' = [next EXCEPT ![t] = @ + 1] /\ Goto(t, again)
  ELSE next' = [next EXCEPT ![t] = 1] /\ Goto(t, after)

(* Wrong variant of Register: the processes are not waited for.            *)
RegisterOnly(t) ==
  /\ thread[t] = "register"
  /\ processes' = Append(processes, <<t, variants[next[t]]>>)
  /\ Loop(t, "spawn", "unlink")
  /\ UNCHANGED <<inputs, ota_list, child, dir, mainVars, handler>>

Register(t) ==
  /\ thread[t] = "register"
  /\ processes' = Append(processes, <<t, variants[next[t]]>>)
  /\ Loop(t, "spawn", "wait")
  /\ UNCHANGED <<inputs, ota_list, child, dir, mainVars, handler>>

(* Wrong variant of Wait: the exit status is not looked at.                *)
WaitForAny(t) ==
  /\ thread[t] = "wait"
  /\ LET f == <<t, variants[next[t]]>>
     IN  /\ child[f] \in {"good", "bad"}
         /\ child' = [child EXCEPT ![f] = "waited"]
         /\ Loop(t, "wait", "unlink")
  /\ UNCHANGED <<inputs, ota_list, processes, dir, mainVars, handler>>

Wait(t) ==
  /\ thread[t] = "wait"
  /\ LET f == <<t, variants[next[t]]>>
     IN  /\ child[f] \in {"good", "bad"}
         /\ child' = [child EXCEPT ![f] = "waited"]
         /\ IF child[f] = "good" THEN Loop(t, "wait", "unlink")
                                 ELSE Goto(t, "dead") /\ UNCHANGED next
  /\ UNCHANGED <<inputs, ota_list, processes, dir, mainVars, handler>>

(* Wrong variant of Unlink: the thread may unlink before it has waited.    *)
UnlinkEarly(t) ==
  /\ thread[t] \in {"wait", "unlink"}
  /\ dir' = [dir EXCEPT ![<<t, Generic>>] = Absent]
  /\ Goto(t, "extend")
  /\ UNCHANGED <<inputs, next, ota_list, child, processes, mainVars, handler>>

Unlink(t) ==
  /\ thread[t] = "unlink"
  /\ dir' = [dir EXCEPT ![<<t, Generic>>] = Absent]
  /\ Goto(t, "extend")
  /\ UNCHANGED <<inputs, next, ota_list, child, processes, mainVars, handler>>

Extend(t) ==
  /\ thread[t] = "extend"
  /\ ota_list' = ota_list \o (IF variants = <<>> THEN << <<t, Generic>> >>
                              ELSE [i \in DOMAIN variants |-> <<t, variants[i]>>])
  /\ Goto(t, "ended")
  /\ UNCHANGED <<inputs, next, child, processes, dir, mainVars, handler>>

Thread(t) == \/ PopenFails(t) \/ Build(t) \/ Built(t) \/ Spawn(t)
             \/ Register(t) \/ Wait(t) \/ Unlink(t) \/ Extend(t)

-----------------------------------------------------------------------------
(* The main thread.                                                        *)

(* Wrong variant of Over: a thread that died is waited for as well.        *)
OverWhenEnded(t) == thread[t] = "ended"

Over(t) == thread[t] \in {"ended", "dead"}

Start ==
  /\ main = "start" /\ ~InHandler
  /\ Goto(jobs[turn], "build")
  /\ IF turn < Len(jobs) THEN turn' = turn + 1 /\ UNCHANGED main
                         ELSE turn' = 1 /\ main' = "join"
  /\ UNCHANGED <<inputs, next, ota_list, child, processes, dir, output,
                 metadata, handler>>

(* Thread.join is called; from here on no handler runs until it returns.   *)
Join ==
  /\ main = "join" /\ ~InHandler
  /\ main' = "joining"
  /\ UNCHANGED <<inputs, threadVars, child, processes, dir, output, metadata,
                 turn, handler>>

(* Wrong variant of Joined: only the first thread is joined.               *)
JoinedFirst ==
  /\ main = "joining"
  /\ Over(jobs[turn])
  /\ turn' = 1 /\ main' = IF to_file THEN "to_file" ELSE "release"
  /\ UNCHANGED <<inputs, threadVars, child, processes, dir, output, metadata,
                 handler>>

Joined ==
  /\ main = "joining"
  /\ Over(jobs[turn])
  /\ IF turn < Len(jobs)
     THEN turn' = turn + 1 /\ main' = "join"
     ELSE turn' = 1 /\ main' = IF to_file THEN "to_file" ELSE "release"
  /\ UNCHANGED <<inputs, threadVars, child, processes, dir, output, metadata,
                 handler>>

(* Option -f: the last package of the list becomes the output file; pop of *)
(* an empty list ends the program with a traceback.                        *)
Rename ==
  /\ main = "to_file" /\ ~InHandler
  /\ IF ota_list = <<>>
     THEN main' = "died" /\ UNCHANGED <<ota_list, dir, output>>
     ELSE LET f == ota_list[Len(ota_list)]
          IN  /\ ota_list' = SubSeq(ota_list, 1, Len(ota_list) - 1)
              /\ output' = dir[f]
              /\ dir' = [dir EXCEPT ![f] = Absent]
              /\ main' = "finished"
  /\ UNCHANGED <<inputs, thread, next, child, processes, metadata, turn, handler>>

(* One turn of the loop over gbl.ota_list: rename the package.             *)
Publish ==
  /\ main = "release" /\ ~InHandler
  /\ turn <= Len(ota_list)
  /\ LET f == ota_list[turn]
     IN  dir' = [dir EXCEPT ![<<f[1], Released>>] = dir[f], ![f] = Absent]
  /\ turn' = turn + 1
  /\ UNCHANGED <<inputs, threadVars, child, processes, output, metadata, main,
                 handler>>

(* Wrong variant of WriteMetadata: the types asked for are written.        *)
WriteMetadataOfJobs ==
  /\ main = "release" /\ ~InHandler
  /\ turn > Len(ota_list)
  /\ metadata' = << {<<t, Released>> : t \in JobSet} >>
  /\ main' = "finished"
  /\ UNCHANGED <<inputs, threadVars, child, processes, dir, output, turn, handler>>

(* metadata.json names each released file once.                            *)
WriteMetadata ==
  /\ main = "release" /\ ~InHandler
  /\ turn > Len(ota_list)
  /\ metadata' = << {<<ota_list[i][1], Released>> : i \in DOMAIN ota_list} >>
  /\ main' = "finished"
  /\ UNCHANGED <<inputs, threadVars, child, processes, dir, output, turn, handler>>

-----------------------------------------------------------------------------
(* finish_all, between two steps of the main thread.                       *)

Interrupt ==
  /\ main \in {"start", "join", "to_file", "release"}
  /\ handler = 0
  /\ handler' = 1
  /\ UNCHANGED <<inputs, threadVars, child, processes, dir, mainVars>>

(* Wrong variant of Terminate: an exited process hides the next one.       *)
TerminateEverySecond ==
  /\ InHandler
  /\ handler <= Len(processes)
  /\ child[processes[handler]] \in {"good", "bad"}
  /\ handler' = IF handler < Len(processes) THEN handler + 2 ELSE handler + 1
  /\ UNCHANGED <<inputs, threadVars, child, processes, dir, mainVars>>

(* The list may grow while the handler walks it.                           *)
Terminate ==
  /\ InHandler
  /\ handler <= Len(processes)
  /\ LET f == processes[handler]
     IN  \/ /\ child[f] = "running"
            /\ child' = [child EXCEPT ![f] = "bad"]
            /\ dir' \in {dir, [dir EXCEPT ![f] = Spoilt]}
            /\ handler' = handler + 1
            /\ UNCHANGED main
         \/ /\ child[f] \in {"good", "bad"}
            /\ handler' = handler + 1
            /\ UNCHANGED <<child, dir, main>>
         \/ /\ child[f] = "waited"      \* no such process: OSError
            /\ handler' = Left
            /\ main' = "died"
            /\ UNCHANGED <<child, dir>>
  /\ UNCHANGED <<inputs, threadVars, processes, output, metadata, turn>>

Return ==
  /\ InHandler
  /\ handler > Len(processes)
  /\ handler' = Left
  /\ UNCHANGED <<inputs, threadVars, child, processes, dir, mainVars>>

Main == Start \/ Join \/ Joined \/ Rename \/ Publish \/ WriteMetadata
          \/ Terminate \/ Return

-----------------------------------------------------------------------------

(* The interpreter exits when the main thread and all others are done.     *)
Exited == /\ main \in {"finished", "died"}
          /\ \A t \in Types : Over(t) \/ thread[t] = "idle"

Done == Exited /\ (\A f \in DOMAIN child : child[f] # "running") /\ UNCHANGED otaVars

Next == \/ Main \/ Interrupt
        \/ \E t \in Types : Thread(t)
        \/ \E f \in DOMAIN child : Exit(f)
        \/ Done

(* Threads are scheduled and processes exit.                               *)
Fairness == /\ WF_otaVars(Main)
            /\ \A t \in Types : WF_otaVars(Thread(t))
            /\ \A f \in Types \X Outputs : WF_otaVars(Exit(f))

Spec == Init /\ [][Next]_otaVars /\ Fairness

-----------------------------------------------------------------------------
(* Properties.                                                             *)

TypeOK ==
  /\ jobs \in JobLists /\ variants \in VariantLists /\ to_file \in BOOLEAN
  /\ thread \in [Types -> {"idle", "build", "built", "spawn", "register", "wait",
                           "unlink", "extend", "ended", "dead"}]
  /\ \A t \in Types : next[t] = 1 \/ next[t] \in DOMAIN variants
  /\ child \in [Types \X Outputs -> {"none", "running", "good", "bad", "waited"}]
  /\ \A i \in DOMAIN processes : processes[i] \in Types \X Variants
  /\ \A i \in DOMAIN ota_list : ota_list[i] \in Types \X Outputs
  /\ dir \in [Files -> {Absent, Old, Spoilt} \cup (Types \X Outputs)]
  /\ main \in {"start", "join", "joining", "to_file", "release", "finished", "died"}
  /\ handler \in Left..(Len(processes) + 1)

(* A process that derives a variant finds the generic package whole for as *)
(* long as it runs, also when its thread has died over another variant.    *)
GenericKept ==
  \A t \in Types : \A v \in Variants :
    child[t, v] = "running" => dir[t, Generic] = <<t, Generic>>

LastOutput == IF variants = <<>> THEN Generic ELSE variants[Len(variants)]

(* metadata.json names a package for each type all of whose processes      *)
(* succeeded and for no other, and each named file is a whole package of   *)
(* this run, whatever an earlier run left in the directory.                *)
MetadataIsTrue ==
  metadata # <<>> =>
    /\ metadata[1] = {<<t, Released>> : t \in {u \in Types : thread[u] = "ended"}}
    /\ \A f \in metadata[1] : dir[f] = <<f[1], LastOutput>>

(* Option -f gives a whole package of this run, or no file.                *)
OutputIsWhole ==
  output # Absent => \E t \in JobSet : output = <<t, LastOutput>>

(* No process outlives the program unless one of its type failed.          *)
OrphansOnlyOfFailures ==
  Exited => \A t \in Types : thread[t] = "ended" =>
              \A o \in Outputs : child[t, o] \in {"none", "waited"}

(* What finish_all has passed does not run any more, though the threads    *)
(* add to the list it walks.                                               *)
PassedAreStopped ==
  InHandler => \A i \in DOMAIN processes :
                 i < handler => child[processes[i]] # "running"

(* Every run ends: the joins return whatever the processes do.             *)
Ends == <>Exited

(* The run is one of OtaBatch.                                             *)
Batch == INSTANCE OtaBatch WITH
  wanted <- JobSet,
  outcome <- [t \in Types |-> IF thread[t] = "ended" THEN "made"
                              ELSE IF thread[t] = "dead" THEN "failed" ELSE "open"],
  released <- IF metadata # <<>> THEN {f[1] : f \in metadata[1]}
              ELSE IF output # Absent THEN {output[1]} ELSE {},
  over <- main \in {"finished", "died"}

ReleasesMadeTypes == Batch!BatchSpec

(* "It takes care of generating an ota file for each derivative platform   *)
(* if needed" (generate_otas): a run all of whose processes succeeded has  *)
(* released a package of every variant.                                    *)
EachVariantReleased ==
  metadata # <<>> /\ (\A t \in JobSet : thread[t] = "ended") =>
    \A t \in JobSet : \A i \in DOMAIN variants :
      \E f \in metadata[1] : dir[f] = <<t, variants[i]>>
=============================================================================
