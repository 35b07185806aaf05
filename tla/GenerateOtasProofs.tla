-------------------------- MODULE GenerateOtasProofs --------------------------
(***************************************************************************)
(* Proofs about GenerateOtas, for any number of types, any command line    *)
(* and any list of variants that OtasAssumption allows.                    *)
(*                                                                         *)
(* The invariant has a part for each thing the properties rest on: how far *)
(* the processes of a thread are, what is in the directory, what has been  *)
(* added to the list, what has been released, and where the main thread    *)
(* and its signal handler are. None of the parts is inductive by itself.   *)
(***************************************************************************)
EXTENDS GenerateOtas, TLAPS

Started == {"running", "good", "bad"}
Statuses == {"none", "waited"} \cup Started
Places == {"idle", "build", "built", "spawn", "register", "wait", "unlink",
           "extend", "ended", "dead"}

(* Past its last Wait; the generic package is not needed any more.         *)
AllWaited(t) == thread[t] \in {"unlink", "extend", "ended"}

(* The types, and the positions of the loops in their lists.               *)
Typed ==
  /\ jobs \in JobLists /\ variants \in VariantLists /\ to_file \in BOOLEAN
  /\ to_file => Len(jobs) = 1
  /\ thread \in [Types -> Places]
  /\ next \in [Types -> Nat \ {0}]
  /\ \A t \in Types : next[t] = 1 \/ next[t] <= Len(variants)
  /\ \A t \in Types : thread[t] \in {"spawn", "register", "wait", "unlink"}
                        => next[t] <= Len(variants) /\ variants # <<>>
  /\ \A t \in Types : thread[t] \in {"idle", "build", "built"} => next[t] = 1
  /\ child \in [Types \X Outputs -> Statuses]
  /\ processes \in Seq(Types \X Variants)
  /\ ota_list \in Seq(Types \X Outputs)
  /\ dir \in [Files -> {Absent, Old, Spoilt} \cup (Types \X Outputs)]
  /\ main \in {"start", "join", "joining", "to_file", "release", "finished", "died"}
  /\ turn \in Nat \ {0}
  /\ handler \in Left..(Len(processes) + 1)

(* The processes of a thread: which are not started yet, which are, and    *)
(* which have been waited for.                                             *)
GenericChild(t) ==
  /\ thread[t] \in {"idle", "build"} => child[t, Generic] = "none"
  /\ thread[t] = "built" => child[t, Generic] \in Started
  /\ thread[t] \in {"spawn", "register", "wait"} \/ AllWaited(t)
       => child[t, Generic] = "waited"
  /\ thread[t] = "dead" => child[t, Generic] \in {"none", "waited"}

VariantChild(t, i) ==
  LET status == child[t, variants[i]]
  IN  /\ thread[t] \in {"idle", "build", "built"} => status = "none"
      /\ thread[t] = "spawn" => IF i < next[t] THEN status \in Started ELSE status = "none"
      /\ thread[t] = "register" => IF i <= next[t] THEN status \in Started ELSE status = "none"
      /\ thread[t] = "wait" => IF i < next[t] THEN status = "waited" ELSE status \in Started
      /\ AllWaited(t) => status = "waited"

InList(v) == \E i \in DOMAIN variants : variants[i] = v

ChildrenInv ==
  /\ \A t \in Types : GenericChild(t)
  /\ \A t \in Types : \A i \in DOMAIN variants : VariantChild(t, i)
  /\ \A t \in Types : \A v \in Variants : ~InList(v) => child[t, v] = "none"

(* A process is registered after it was started.                           *)
RegisteredInv ==
  \A k \in DOMAIN processes : child[processes[k]] # "none"

(* Which package files are whole: that of a process that succeeded, the    *)
(* generic one for as long as it may be read, those a thread found good.   *)
GoodIsWhole == \A f \in Types \X Outputs : child[f] = "good" => dir[f] = f

GenericWhole(t) ==
  \/ thread[t] \in {"spawn", "register", "wait", "unlink"}
  \/ thread[t] = "dead" /\ (\E v \in Variants : child[t, v] # "none")
  \/ thread[t] = "extend" /\ variants = <<>>
  => dir[t, Generic] = <<t, Generic>>

VariantWhole(t, i) ==
  \/ thread[t] = "wait" /\ i < next[t]
  \/ thread[t] \in {"unlink", "extend"}
  => dir[t, variants[i]] = <<t, variants[i]>>

DirInv ==
  /\ GoodIsWhole
  /\ \A t \in Types : GenericWhole(t)
  /\ \A t \in Types : \A i \in DOMAIN variants : VariantWhole(t, i)

(* The list holds the outputs of the ended threads, once each, the last    *)
(* one of each type behind the others, and as files until they are renamed.*)
Entries ==
  \A i \in DOMAIN ota_list :
    /\ thread[ota_list[i][1]] = "ended"
    /\ IF variants = <<>> THEN ota_list[i][2] = Generic
       ELSE ota_list[i][2] \in Variants

OnceEach == \A i, j \in DOMAIN ota_list : ota_list[i] = ota_list[j] => i = j

LastAt(t, i) ==
  /\ ota_list[i] = <<t, LastOutput>>
  /\ \A j \in DOMAIN ota_list : j > i => ota_list[j][1] # t

LastBehind ==
  main # "finished" =>
    \A t \in Types : thread[t] = "ended" => \E i \in DOMAIN ota_list : LastAt(t, i)

StillThere ==
  main \notin {"finished", "died"} =>
    \A i \in DOMAIN ota_list :
      ~(main = "release" /\ i < turn) => dir[ota_list[i]] = ota_list[i]

ListInv == Entries /\ OnceEach /\ LastBehind /\ StillThere

(* A released file is the last of its type that was renamed so far.        *)
PublishedInv ==
  main = "release" =>
    /\ turn <= Len(ota_list) + 1
    /\ \A i \in 1..(turn - 1) :
         (\A j \in (i + 1)..(turn - 1) : ota_list[j][1] # ota_list[i][1])
           => dir[ota_list[i][1], Released] = ota_list[i]

(* What the main thread and the handler have seen of the others.           *)
MainInv ==
  /\ \A t \in Types : thread[t] # "idle" => t \in JobSet
  /\ main \in {"start", "join", "joining"} => turn \in DOMAIN jobs
  /\ main = "start" => \A i \in DOMAIN jobs : i >= turn => thread[jobs[i]] = "idle"
  /\ main \in {"join", "joining"} => \A i \in DOMAIN jobs : i < turn => Over(jobs[i])
  /\ main \in {"to_file", "release", "finished"} => \A t \in JobSet : Over(t)
  /\ main = "to_file" => to_file
  /\ main = "release" => ~to_file
  /\ InHandler => main \in {"start", "join", "to_file", "release"}
  /\ metadata # <<>> => main = "finished" /\ ~to_file
  /\ output # Absent => main = "finished" /\ to_file

OtasInv ==
  /\ Typed /\ ChildrenInv /\ RegisteredInv /\ DirInv /\ ListInv /\ PublishedInv
  /\ MainInv /\ PassedAreStopped /\ MetadataIsTrue /\ OutputIsWhole

-----------------------------------------------------------------------------
(* What the lists of a run are: sequences without duplicates. The names of *)
(* the two special packages are none of a variant's.                       *)
LEMMA ListFacts ==
  ASSUME Typed
  PROVE  /\ jobs \in Seq(Types) /\ jobs # <<>>
         /\ \A i, j \in DOMAIN jobs : jobs[i] = jobs[j] => i = j
         /\ variants \in Seq(Variants)
         /\ \A i, j \in DOMAIN variants : variants[i] = variants[j] => i = j
         /\ \A i \in DOMAIN variants : variants[i] \in Variants
         /\ Generic \notin Variants /\ Released \notin Variants /\ Generic # Released
         /\ Variants \subseteq Outputs /\ Generic \in Outputs
         /\ LastOutput \in Outputs
  <1>1. jobs \in Seq(Types) /\ jobs # <<>> /\ variants \in Seq(Variants)
    BY OtasAssumption DEF Typed
  <1>2. \A i \in DOMAIN variants : variants[i] \in Variants
    BY <1>1
  <1>3. LastOutput \in Outputs
    <2>1. variants # <<>> => Len(variants) \in DOMAIN variants
      BY <1>1
    <2> QED BY <1>2, <2>1 DEF LastOutput, Outputs
  <1> QED BY <1>1, <1>2, <1>3, OtasAssumption DEF Typed, Outputs, Generic, Released

(* A package is none of the other things a file can hold.                  *)
LEMMA ContentsDiffer ==
  \A f \in Types \X Outputs : f # Absent /\ f # Old /\ f # Spoilt
  BY DEF Absent, Old, Spoilt

LEMMA InvInit == Init => OtasInv
  <1> SUFFICES ASSUME Init PROVE OtasInv
    OBVIOUS
  <1>1. Typed
    BY OtasAssumption DEF Init, Typed, Places, Statuses, Started, Left
  <1>2. ChildrenInv /\ RegisteredInv
    <2>1. \A t \in Types : \A o \in Outputs : child[<<t, o>>] = "none"
      BY DEF Init
    <2>2. \A t \in Types : thread[t] = "idle"
      BY DEF Init
    <2>3. ChildrenInv
      BY <1>1, <2>1, <2>2, ListFacts DEF ChildrenInv, GenericChild, VariantChild, AllWaited
    <2>4. RegisteredInv
      BY DEF Init, RegisteredInv
    <2> QED BY <2>3, <2>4
  <1>3. DirInv
    BY <1>1 DEF Init, DirInv, GoodIsWhole, GenericWhole, VariantWhole
  <1>4. ListInv /\ PublishedInv
    BY DEF Init, ListInv, Entries, OnceEach, LastBehind, StillThere, PublishedInv
  <1>5. MainInv
    BY <1>1, ListFacts DEF Init, MainInv, InHandler
  <1>6. PassedAreStopped /\ MetadataIsTrue /\ OutputIsWhole
    BY DEF Init, PassedAreStopped, MetadataIsTrue, OutputIsWhole
  <1> QED BY <1>1, <1>2, <1>3, <1>4, <1>5, <1>6 DEF OtasInv
(* A file is named by a type and an output.                                *)
LEMMA PairFacts ==
  /\ \A f \in Types \X Outputs : f = <<f[1], f[2]>> /\ f[1] \in Types /\ f[2] \in Outputs
  /\ \A t \in Types : \A o \in Outputs : <<t, o>> \in Types \X Outputs
  /\ Types \X Outputs \subseteq Files
  BY DEF Files

(* Every process of an ended thread was waited for.                        *)
LEMMA EndedWaited ==
  ASSUME Typed, ChildrenInv, NEW t \in Types, AllWaited(t)
  PROVE  \A o \in Outputs : child[t, o] \in {"none", "waited"}
  <1>1. child[t, Generic] = "waited"
    BY DEF ChildrenInv, GenericChild
  <1>2. \A i \in DOMAIN variants : child[t, variants[i]] = "waited"
    BY DEF ChildrenInv, VariantChild
  <1>3. \A v \in Variants : child[t, v] \in {"none", "waited"}
    <2> SUFFICES ASSUME NEW v \in Variants PROVE child[t, v] \in {"none", "waited"}
      OBVIOUS
    <2>1. CASE InList(v)
      BY <1>2, <2>1 DEF InList
    <2>2. CASE ~InList(v)
      BY <2>2 DEF ChildrenInv
    <2> QED BY <2>1, <2>2
  <1> QED BY <1>1, <1>3 DEF Outputs

(* A thread all of whose own state is left alone keeps its parts.          *)
LEMMA OthersKeep ==
  ASSUME ChildrenInv, DirInv, NEW u \in Types, variants' = variants,
         thread'[u] = thread[u], next'[u] = next[u],
         \A o \in Outputs : child'[<<u, o>>] = child[<<u, o>>] /\ dir'[<<u, o>>] = dir[<<u, o>>],
         Typed
  PROVE  /\ GenericChild(u)' /\ GenericWhole(u)'
         /\ \A i \in DOMAIN variants : VariantChild(u, i)' /\ VariantWhole(u, i)'
         /\ \A v \in Variants : ~InList(v) => child'[<<u, v>>] = "none"
         /\ \A o \in Outputs : child'[<<u, o>>] = "good" => dir'[<<u, o>>] = <<u, o>>
  <1>1. GenericChild(u)'
    BY ListFacts DEF ChildrenInv, GenericChild, AllWaited
  <1>2. GenericWhole(u)'
    <2>1. (\E v \in Variants : child'[<<u, v>>] # "none")
            => \E v \in Variants : child[<<u, v>>] # "none"
      BY ListFacts
    <2> QED BY <2>1, ListFacts DEF DirInv, GenericWhole
  <1>3. ASSUME NEW i \in DOMAIN variants PROVE VariantChild(u, i)' /\ VariantWhole(u, i)'
    <2>1. /\ VariantChild(u, i) /\ VariantWhole(u, i) /\ variants[i] \in Outputs
      BY ListFacts DEF ChildrenInv, DirInv
    <2> QED BY <2>1 DEF VariantChild, VariantWhole, AllWaited
  <1>4. \A v \in Variants : ~InList(v) => child'[<<u, v>>] = "none"
    BY ListFacts DEF ChildrenInv
  <1>5. \A o \in Outputs : child'[<<u, o>>] = "good" => dir'[<<u, o>>] = <<u, o>>
    BY DEF DirInv, GoodIsWhole
  <1> QED BY <1>1, <1>2, <1>3, <1>4, <1>5

(* A process that exits changes its own file only, which nobody relies on  *)
(* while it runs, and no package that was released.                        *)
LEMMA InvExit ==
  ASSUME OtasInv, NEW f \in Types \X Outputs, Exit(f)
  PROVE  OtasInv'
  <1> USE DEF OtasInv
  <1>1. Typed'
    <2>1. child' \in [Types \X Outputs -> Statuses]
      BY DEF Exit, Typed, Statuses, Started
    <2>2. dir' \in [Files -> {Absent, Old, Spoilt} \cup (Types \X Outputs)]
      BY DEF Exit, Typed, Files
    <2> QED BY <2>1, <2>2 DEF Exit, Typed, inputs, threadVars, mainVars
  <1>2. /\ \A g \in Types \X Outputs : g # f => child'[g] = child[g] /\ dir'[g] = dir[g]
        /\ \A t \in Types : dir'[<<t, Released>>] = dir[<<t, Released>>]
        /\ child[f] = "running" /\ child'[f] \in {"good", "bad"}
        /\ child'[f] = "good" => dir'[f] = f
    BY ListFacts DEF Exit, Typed, Files, Outputs
  <1>3. /\ inputs' = inputs /\ threadVars' = threadVars /\ processes' = processes
        /\ mainVars' = mainVars /\ handler' = handler
    BY DEF Exit
  <1> USE DEF inputs, threadVars, mainVars
  <1>4. ChildrenInv'
    <2>1. ASSUME NEW t \in Types PROVE GenericChild(t)'
      BY <1>2, <1>3, ListFacts DEF ChildrenInv, GenericChild, AllWaited, Started
    <2>2. ASSUME NEW t \in Types, NEW i \in DOMAIN variants PROVE VariantChild(t, i)'
      <3>1. VariantChild(t, i) /\ <<t, variants[i]>> \in Types \X Outputs
        BY ListFacts DEF ChildrenInv
      <3> QED BY <1>2, <1>3, <3>1 DEF VariantChild, AllWaited, Started
    <2>3. ASSUME NEW t \in Types, NEW v \in Variants, ~InList(v)
          PROVE  child'[<<t, v>>] = "none"
      BY <1>2, <2>3, ListFacts DEF ChildrenInv
    <2> QED BY <1>3, <2>1, <2>2, <2>3 DEF ChildrenInv, InList
  <1>5. RegisteredInv'
    BY <1>2, <1>3, ListFacts DEF RegisteredInv, Typed
  <1>6. DirInv'
    <2>1. GoodIsWhole'
      BY <1>2 DEF DirInv, GoodIsWhole
    <2>2. ASSUME NEW t \in Types PROVE GenericWhole(t)'
      <3>1. /\ GenericWhole(t) /\ GenericChild(t)
            /\ <<t, Generic>> \in Types \X Outputs
            /\ \A v \in Variants : <<t, v>> \in Types \X Outputs
        BY ListFacts DEF DirInv, ChildrenInv
      <3>2. (\E v \in Variants : child'[<<t, v>>] # "none")
              => \E v \in Variants : child[<<t, v>>] # "none"
        BY <1>2, <3>1
      <3> QED BY <1>2, <1>3, <3>1, <3>2 DEF GenericWhole, GenericChild, AllWaited
    <2>3. ASSUME NEW t \in Types, NEW i \in DOMAIN variants PROVE VariantWhole(t, i)'
      <3>1. /\ VariantChild(t, i) /\ VariantWhole(t, i)
            /\ <<t, variants[i]>> \in Types \X Outputs
        BY ListFacts DEF ChildrenInv, DirInv
      <3> QED BY <1>2, <1>3, <3>1 DEF VariantWhole, VariantChild, AllWaited, Started
    <2> QED BY <1>3, <2>1, <2>2, <2>3 DEF DirInv
  <1>7. ListInv'
    <2>1. StillThere'
      <3> SUFFICES ASSUME StillThere, main \notin {"finished", "died"},
                          NEW i \in DOMAIN ota_list, ~(main = "release" /\ i < turn)
                   PROVE  dir'[ota_list[i]] = ota_list[i]
        BY <1>3 DEF StillThere, ListInv
      <3>1. ota_list[i] \in Types \X Outputs /\ dir[ota_list[i]] = ota_list[i]
        BY DEF StillThere, Typed
      <3>2. ota_list[i] # f
        <4>1. AllWaited(ota_list[i][1]) /\ ota_list[i] = <<ota_list[i][1], ota_list[i][2]>>
          BY <3>1 DEF ListInv, Entries, AllWaited
        <4>2. child[ota_list[i]] \in {"none", "waited"}
          BY <3>1, <4>1, EndedWaited
        <4> QED BY <1>2, <4>2
      <3> QED BY <1>2, <3>1, <3>2
    <2> QED BY <1>3, <2>1 DEF ListInv, Entries, OnceEach, LastBehind, LastAt, LastOutput
  <1>8. PublishedInv'
    <2>1. \A i \in DOMAIN ota_list : ota_list[i][1] \in Types
      BY DEF Typed
    <2>2. main = "release" => \A i \in 1..(turn - 1) : ota_list[i][1] \in Types
      <3>1. ota_list \in Seq(Types \X Outputs) /\ turn \in Nat
        BY DEF Typed
      <3>2. main = "release" => turn <= Len(ota_list) + 1
        BY DEF PublishedInv
      <3> QED BY <2>1, <3>1, <3>2
    <2> SUFFICES ASSUME main = "release", PublishedInv,
                        NEW i \in 1..(turn - 1),
                        \A j \in (i + 1)..(turn - 1) : ota_list[j][1] # ota_list[i][1]
                 PROVE  /\ turn <= Len(ota_list) + 1
                        /\ dir'[<<ota_list[i][1], Released>>] = ota_list[i]
      BY <1>3 DEF PublishedInv
    <2>3. /\ turn <= Len(ota_list) + 1
          /\ dir[<<ota_list[i][1], Released>>] = ota_list[i]
      BY DEF PublishedInv
    <2> QED BY <1>2, <2>2, <2>3
  <1>9. MainInv' /\ OutputIsWhole'
    BY <1>3 DEF MainInv, OutputIsWhole, JobSet, Over, InHandler, LastOutput
  <1>10. PassedAreStopped'
    <2>1. \A k \in DOMAIN processes : processes[k] \in Types \X Outputs
      BY ListFacts DEF Typed
    <2> QED BY <1>2, <1>3, <2>1 DEF PassedAreStopped, InHandler
  <1>11. MetadataIsTrue'
    BY <1>2, <1>3 DEF MetadataIsTrue, LastOutput
  <1> QED BY <1>1, <1>4, <1>5, <1>6, <1>7, <1>8, <1>9, <1>10, <1>11

-----------------------------------------------------------------------------
(* The threads. What a step of a thread leaves alone is the same for most  *)
(* of them: while it runs, the main thread has not got past its join.      *)
Active(t) == thread[t] \in Places \ {"idle", "ended", "dead"}

LEMMA ActiveFacts ==
  ASSUME OtasInv, NEW t \in Types, Active(t)
  PROVE  /\ t \in JobSet
         /\ main \notin {"to_file", "release", "finished"}
         /\ metadata = <<>> /\ output = Absent
  <1>1. t \in JobSet /\ ~Over(t)
    BY DEF OtasInv, MainInv, Active, Over
  <1> QED BY <1>1 DEF OtasInv, MainInv

(* What the parts about the variables of the main thread need to know.     *)
LEMMA ThreadKeepsMain ==
  ASSUME OtasInv, NEW t \in Types, Active(t), NEW w \in Places \ {"idle"},
         thread' = [thread EXCEPT ![t] = w],
         inputs' = inputs, mainVars' = mainVars, handler' = handler
  PROVE  PublishedInv' /\ MetadataIsTrue' /\ OutputIsWhole' /\ MainInv'
  <1> USE DEF inputs, mainVars
  <1>1. PublishedInv' /\ MetadataIsTrue' /\ OutputIsWhole'
    BY ActiveFacts DEF PublishedInv, MetadataIsTrue, OutputIsWhole
  <1>2. /\ \A u \in Types : thread'[u] # "idle" => u \in JobSet
        /\ \A u \in Types : Over(u) => thread'[u] = thread[u]
        /\ \A u \in Types : thread[u] = "idle" => thread'[u] = "idle"
    BY ActiveFacts DEF OtasInv, Typed, MainInv, Active, Over
  <1>3. \A i \in DOMAIN jobs : jobs[i] \in Types
    BY ListFacts DEF OtasInv
  <1>4. MainInv'
    BY <1>2, <1>3, ActiveFacts DEF OtasInv, MainInv, JobSet, Over, InHandler
  <1> QED BY <1>1, <1>4

(* A step of a thread that does not end it keeps what the list says.       *)
LEMMA ThreadKeepsList ==
  ASSUME OtasInv, NEW t \in Types, Active(t), NEW w \in Places \ {"ended"},
         thread' = [thread EXCEPT ![t] = w],
         inputs' = inputs, mainVars' = mainVars, ota_list' = ota_list,
         \A g \in Types \X Outputs : g[1] # t => dir'[g] = dir[g]
  PROVE  ListInv'
  <1> USE DEF inputs, mainVars
  <1>1. \A u \in Types : thread[u] = "ended" <=> thread'[u] = "ended"
    BY DEF OtasInv, Typed, Active
  <1>2. \A i \in DOMAIN ota_list : /\ ota_list[i] \in Types \X Outputs
                                   /\ thread[ota_list[i][1]] = "ended"
    BY DEF OtasInv, Typed, ListInv, Entries
  <1>3. Entries' /\ OnceEach'
    BY <1>1, <1>2 DEF OtasInv, ListInv, Entries, OnceEach
  <1>4. LastBehind'
    BY <1>1 DEF OtasInv, ListInv, LastBehind, LastAt, LastOutput
  <1>5. \A i \in DOMAIN ota_list : dir'[ota_list[i]] = dir[ota_list[i]]
    BY <1>2 DEF Active
  <1>6. StillThere'
    BY <1>5 DEF OtasInv, ListInv, StillThere
  <1> QED BY <1>3, <1>4, <1>6 DEF ListInv

(* The parts about thread t after one of its steps.                        *)
Own(t) ==
  /\ GenericChild(t) /\ GenericWhole(t)
  /\ \A i \in DOMAIN variants : VariantChild(t, i) /\ VariantWhole(t, i)
  /\ \A v \in Variants : ~InList(v) => child[t, v] = "none"
  /\ \A o \in Outputs : child[t, o] = "good" => dir[t, o] = <<t, o>>

LEMMA OwnFacts ==
  ASSUME ChildrenInv, DirInv, NEW t \in Types
  PROVE  Own(t)
  BY DEF ChildrenInv, DirInv, Own, GoodIsWhole

LEMMA OwnOfOthers ==
  ASSUME OtasInv, NEW t \in Types, variants' = variants,
         \A u \in Types : u # t =>
           /\ thread'[u] = thread[u] /\ next'[u] = next[u]
           /\ \A o \in Outputs : /\ child'[<<u, o>>] = child[<<u, o>>]
                                 /\ dir'[<<u, o>>] = dir[<<u, o>>],
         Own(t)'
  PROVE  ChildrenInv' /\ DirInv'
  <1>1. ASSUME NEW u \in Types PROVE Own(u)'
    <2>1. CASE u = t
      BY <2>1
    <2>2. CASE u # t
      <3>1. /\ GenericChild(u)' /\ GenericWhole(u)'
            /\ \A i \in DOMAIN variants : VariantChild(u, i)' /\ VariantWhole(u, i)'
            /\ \A v \in Variants : ~InList(v) => child'[<<u, v>>] = "none"
            /\ \A o \in Outputs : child'[<<u, o>>] = "good" => dir'[<<u, o>>] = <<u, o>>
        BY <2>2, OthersKeep DEF OtasInv
      <3> QED BY <3>1 DEF Own, InList
    <2> QED BY <2>1, <2>2
  <1>2. ChildrenInv'
    BY <1>1 DEF Own, ChildrenInv
  <1>3. GoodIsWhole'
    <2> SUFFICES ASSUME NEW f \in Types \X Outputs, child'[f] = "good" PROVE dir'[f] = f
      BY DEF GoodIsWhole
    <2>1. f[1] \in Types /\ f[2] \in Outputs /\ f = <<f[1], f[2]>>
      OBVIOUS
    <2>2. Own(f[1])'
      BY <1>1, <2>1
    <2>3. child'[<<f[1], f[2]>>] = "good" => dir'[<<f[1], f[2]>>] = <<f[1], f[2]>>
      BY <2>1, <2>2 DEF Own
    <2> QED BY <2>1, <2>3
  <1> QED BY <1>1, <1>2, <1>3 DEF Own, DirInv

LEMMA ThreadStep ==
  ASSUME OtasInv, NEW t \in Types, Active(t), NEW w \in Places \ {"idle", "ended"},
         thread' = [thread EXCEPT ![t] = w],
         inputs' = inputs, mainVars' = mainVars, handler' = handler,
         ota_list' = ota_list,
         \A u \in Types : u # t =>
           /\ next'[u] = next[u]
           /\ \A o \in Outputs : /\ child'[<<u, o>>] = child[<<u, o>>]
                                 /\ dir'[<<u, o>>] = dir[<<u, o>>],
         Typed', Own(t)', RegisteredInv', PassedAreStopped'
  PROVE  OtasInv'
  <1>1. ChildrenInv' /\ DirInv'
    <2>1. \A u \in Types : u # t => thread'[u] = thread[u]
      BY DEF OtasInv, Typed
    <2> QED BY <2>1, OwnOfOthers DEF inputs
  <1>2. ListInv'
    <2>1. ASSUME NEW g \in Types \X Outputs, g[1] # t PROVE dir'[g] = dir[g]
      <3>1. g = <<g[1], g[2]>> /\ g[1] \in Types /\ g[2] \in Outputs
        OBVIOUS
      <3> QED BY <2>1, <3>1
    <2> QED BY <2>1, ThreadKeepsList
  <1>3. PublishedInv' /\ MetadataIsTrue' /\ OutputIsWhole' /\ MainInv'
    BY ThreadKeepsMain
  <1> QED BY <1>1, <1>2, <1>3 DEF OtasInv

(* A thread that fails keeps the generic package its processes read.       *)
LEMMA InvPopenFails ==
  ASSUME OtasInv, NEW t \in Types, PopenFails(t)
  PROVE  OtasInv'
  <1> USE DEF OtasInv, PopenFails, Goto, inputs, mainVars
  <1>1. Active(t) /\ "dead" \in Places \ {"idle", "ended"}
    BY DEF Active, Places
  <1>2. Typed'
    BY <1>1 DEF Typed
  <1>3. thread'[t] = "dead"
    BY DEF Typed
  <1>4. Own(t)'
    BY <1>3, OwnFacts, ZenonT(30) DEF Own, InList, GenericChild, GenericWhole, VariantChild, VariantWhole,
                          AllWaited
  <1>5. RegisteredInv' /\ PassedAreStopped'
    BY DEF RegisteredInv, PassedAreStopped, InHandler
  <1> QED BY <1>1, <1>2, <1>4, <1>5, ThreadStep

LEMMA InvBuild ==
  ASSUME OtasInv, NEW t \in Types, Build(t)
  PROVE  OtasInv'
  <1> USE DEF OtasInv, Build, Goto, inputs, mainVars
  <1>1. Active(t) /\ "built" \in Places \ {"idle", "ended"}
    BY DEF Active, Places
  <1>2. Typed'
    BY <1>1 DEF Typed, Statuses, Started
  <1>3. /\ thread'[t] = "built" /\ child'[<<t, Generic>>] = "running"
        /\ \A v \in Variants : child'[<<t, v>>] = child[<<t, v>>]
        /\ \A u \in Types : \A o \in Outputs : u # t => child'[<<u, o>>] = child[<<u, o>>]
    BY ListFacts DEF Typed, Outputs
  <1>4. Own(t)'
    <2>1. Own(t) /\ \A i \in DOMAIN variants : variants[i] \in Variants
      BY OwnFacts, ListFacts
    <2>2. \A o \in Outputs : child'[<<t, o>>] = "good" => dir'[<<t, o>>] = <<t, o>>
      BY <1>3, <2>1 DEF Own, Outputs
    <2> QED BY <1>3, <2>1, <2>2 DEF Own, InList, GenericChild, GenericWhole, VariantChild,
                                    VariantWhole, AllWaited, Started
  <1>5. RegisteredInv' /\ PassedAreStopped'
    <2>1. \A k \in DOMAIN processes : /\ processes[k] \in Types \X Variants
                                      /\ processes[k] # <<t, Generic>>
      BY ListFacts DEF Typed
    <2>2. \A k \in DOMAIN processes : child'[processes[k]] = child[processes[k]]
      BY <2>1, ListFacts DEF Typed
    <2> QED BY <2>2 DEF RegisteredInv, PassedAreStopped, InHandler
  <1> QED BY <1>1, <1>2, <1>3, <1>4, <1>5, ThreadStep

LEMMA InvBuilt ==
  ASSUME OtasInv, NEW t \in Types, Built(t)
  PROVE  OtasInv'
  <1> DEFINE w == IF child[t, Generic] = "bad" THEN "dead"
                  ELSE IF variants = <<>> THEN "extend" ELSE "spawn"
  <1>1. /\ thread[t] = "built"
        /\ thread' = [thread EXCEPT ![t] = w]
        /\ w \in {"dead", "extend", "spawn"}
        /\ w # "dead" => child[<<t, Generic>>] = "good"
        /\ w = "spawn" <=> w # "dead" /\ variants # <<>>
        /\ child' = [child EXCEPT ![<<t, Generic>>] = "waited"]
    BY DEF Built, Goto
  <1> HIDE DEF w
  <1>a. /\ Active(t) /\ w \in Places \ {"idle", "ended"}
        /\ inputs' = inputs /\ next' = next /\ ota_list' = ota_list
        /\ processes' = processes /\ dir' = dir /\ mainVars' = mainVars
        /\ handler' = handler
    BY <1>1 DEF Active, Places, Built
  <1> USE DEF OtasInv, inputs, mainVars
  <1>2. Typed'
    <2>1. w = "spawn" => next[t] <= Len(variants) /\ variants # <<>>
      <3>1. variants \in Seq(Variants) /\ (next[t] = 1 \/ next[t] <= Len(variants))
        BY ListFacts DEF Typed
      <3>2. variants # <<>> => Len(variants) >= 1
        BY <3>1
      <3> QED BY <1>1, <3>1, <3>2
    <2>2. thread' \in [Types -> Places] /\ child' \in [Types \X Outputs -> Statuses]
      BY <1>1, <1>a DEF Typed, Statuses
    <2> QED BY <1>1, <1>a, <2>1, <2>2 DEF Typed
  <1>3. /\ thread'[t] = w /\ child'[<<t, Generic>>] = "waited"
        /\ \A v \in Variants : child'[<<t, v>>] = child[<<t, v>>]
        /\ \A u \in Types : \A o \in Outputs : u # t => child'[<<u, o>>] = child[<<u, o>>]
    BY <1>1, <1>a, ListFacts DEF Typed, Outputs
  <1>4. Own(t)'
    <2>1. Own(t) /\ \A i \in DOMAIN variants : variants[i] \in Variants
      BY OwnFacts, ListFacts
    <2>2. \A o \in Outputs : child'[<<t, o>>] = "good" => dir'[<<t, o>>] = <<t, o>>
      BY <1>a, <1>3, <2>1 DEF Own, Outputs
    <2>3. GenericChild(t)' /\ GenericWhole(t)'
      <3>1. thread[t] = "built" /\ GenericChild(t) /\ ChildrenInv
        BY <1>1, <2>1 DEF Own
      <3>2. child[<<t, Generic>>] = "good" => dir[<<t, Generic>>] = <<t, Generic>>
        BY <2>1 DEF Own, Outputs
      <3>3. \A v \in Variants : child[<<t, v>>] = "none"
        BY <2>1, <3>1 DEF Own, VariantChild, InList
      <3> QED BY <1>1, <1>a, <1>3, <3>2, <3>3 DEF GenericChild, GenericWhole, AllWaited
    <2>4. \A v \in Variants : child[<<t, v>>] = "none"
      BY <1>1, <2>1 DEF Own, VariantChild, InList
    <2>5. \A i \in DOMAIN variants : VariantChild(t, i)' /\ VariantWhole(t, i)'
      <3> SUFFICES ASSUME NEW i \in DOMAIN variants
                   PROVE  VariantChild(t, i)' /\ VariantWhole(t, i)'
        BY <1>a
      <3>1. child'[<<t, variants[i]>>] = "none" /\ variants # <<>> /\ ~(i < 1)
        BY <1>3, <2>1, <2>4, ListFacts
      <3>2. next[t] = 1
        BY <1>1 DEF Typed
      <3> QED BY <1>1, <1>a, <1>3, <3>1, <3>2 DEF VariantChild, VariantWhole, AllWaited
    <2> QED BY <1>3, <1>a, <2>1, <2>2, <2>3, <2>4, <2>5 DEF Own
  <1>5. RegisteredInv' /\ PassedAreStopped'
    <2>1. \A k \in DOMAIN processes : /\ processes[k] \in Types \X Variants
                                      /\ processes[k] # <<t, Generic>>
      BY ListFacts DEF Typed
    <2>2. \A k \in DOMAIN processes : child'[processes[k]] = child[processes[k]]
      BY <1>1, <2>1, ListFacts DEF Typed
    <2> QED BY <1>a, <2>2 DEF RegisteredInv, PassedAreStopped, InHandler
  <1> QED BY <1>1, <1>a, <1>2, <1>3, <1>4, <1>5, ThreadStep

(* The process of the next variant was not started before, so nobody has   *)
(* passed it.                                                              *)
LEMMA InvSpawn ==
  ASSUME OtasInv, NEW t \in Types, Spawn(t)
  PROVE  OtasInv'
  <1> DEFINE n == next[t]
             f == <<t, variants[n]>>
  <1>1. /\ thread[t] = "spawn"
        /\ child' = [child EXCEPT ![f] = "running"]
        /\ thread' = [thread EXCEPT ![t] = "register"]
        /\ inputs' = inputs /\ next' = next /\ ota_list' = ota_list
        /\ processes' = processes /\ dir' = dir /\ mainVars' = mainVars
        /\ handler' = handler
    BY DEF Spawn, Goto
  <1>2. Active(t) /\ "register" \in Places \ {"idle", "ended"}
    BY <1>1 DEF Active, Places
  <1> USE DEF OtasInv, inputs, mainVars
  <1>3. n \in Nat /\ n \in DOMAIN variants /\ variants[n] \in Variants /\ f \in Types \X Outputs
    <2>1. n \in Nat \ {0} /\ n <= Len(variants)
      BY <1>1 DEF Typed
    <2> QED BY <2>1, ListFacts
  <1>4. child[f] = "none"
    <2>1. VariantChild(t, n)
      BY <1>3 DEF ChildrenInv
    <2>2. ~(n < n)
      BY <1>3
    <2> QED BY <1>1, <2>1, <2>2 DEF VariantChild
  <1>5. Typed'
    <2>1. thread' \in [Types -> Places] /\ child' \in [Types \X Outputs -> Statuses]
      BY <1>1, <1>2, <1>3 DEF Typed, Statuses, Started
    <2> QED BY <1>1, <2>1 DEF Typed
  <1>6. /\ thread'[t] = "register" /\ child'[f] = "running"
        /\ \A g \in Types \X Outputs : g # f => child'[g] = child[g]
    BY <1>1, <1>3 DEF Typed
  <1> HIDE DEF f, n
  <1>7. \A u \in Types : \A o \in Outputs : u # t => child'[<<u, o>>] = child[<<u, o>>]
    BY <1>6 DEF f
  <1>8. Own(t)'
    <2>1. Own(t)
      BY OwnFacts
    <2>2. \A o \in Outputs : child'[<<t, o>>] = "good" => dir'[<<t, o>>] = <<t, o>>
      BY <1>1, <1>6, <2>1 DEF Own
    <2>3. GenericChild(t)' /\ GenericWhole(t)'
      <3>1. f # <<t, Generic>>
        BY <1>3, ListFacts DEF f
      <3> QED BY <1>1, <1>6, <2>1, <3>1, ListFacts DEF Own, GenericChild, GenericWhole, AllWaited
    <2>4. ASSUME NEW i \in DOMAIN variants PROVE VariantChild(t, i)' /\ VariantWhole(t, i)'
      <3>1. <<t, variants[i]>> \in Types \X Outputs /\ (<<t, variants[i]>> = f <=> i = n)
        BY <1>3, ListFacts DEF f
      <3>2. VariantChild(t, i)
        BY <2>1 DEF Own
      <3>3. IF i <= n THEN child'[<<t, variants[i]>>] \in Started
            ELSE child'[<<t, variants[i]>>] = "none"
        <4>1. i \in Nat /\ n \in Nat
          BY <1>3, ListFacts
        <4>2. IF i < n THEN child[<<t, variants[i]>>] \in Started
              ELSE child[<<t, variants[i]>>] = "none"
          BY <1>1, <3>2 DEF VariantChild, n
        <4>3. CASE i = n
          BY <1>6, <3>1, <4>1, <4>3 DEF Started
        <4>4. CASE i # n
          BY <1>6, <3>1, <4>1, <4>2, <4>4
        <4> QED BY <4>3, <4>4
      <3> QED BY <1>1, <1>6, <3>3 DEF VariantChild, VariantWhole, AllWaited, n
    <2>5. ASSUME NEW v \in Variants, ~InList(v) PROVE child'[<<t, v>>] = "none"
      <3>1. <<t, v>> \in Types \X Outputs /\ <<t, v>> # f
        BY <1>3, <2>5, ListFacts DEF f, InList
      <3> QED BY <1>6, <2>1, <2>5, <3>1 DEF Own
    <2> QED BY <1>1, <2>2, <2>3, <2>4, <2>5 DEF Own, InList
  <1>9. RegisteredInv' /\ PassedAreStopped'
    <2>1. \A k \in DOMAIN processes : processes[k] \in Types \X Outputs
      BY ListFacts DEF Typed
    <2>2. \A k \in DOMAIN processes : child'[processes[k]] = child[processes[k]]
      BY <1>4, <1>6, <2>1 DEF RegisteredInv
    <2> QED BY <1>1, <2>2 DEF RegisteredInv, PassedAreStopped, InHandler
  <1> QED BY <1>1, <1>2, <1>5, <1>7, <1>8, <1>9, ThreadStep

(* The package of the thread goes; its list of packages has others.        *)
LEMMA InvUnlink ==
  ASSUME OtasInv, NEW t \in Types, Unlink(t)
  PROVE  OtasInv'
  <1> DEFINE f == <<t, Generic>>
  <1>1. /\ thread[t] = "unlink"
        /\ dir' = [dir EXCEPT ![f] = Absent]
        /\ thread' = [thread EXCEPT ![t] = "extend"]
        /\ inputs' = inputs /\ next' = next /\ ota_list' = ota_list
        /\ processes' = processes /\ child' = child /\ mainVars' = mainVars
        /\ handler' = handler
    BY DEF Unlink, Goto
  <1>2. Active(t) /\ "extend" \in Places \ {"idle", "ended"}
    BY <1>1 DEF Active, Places
  <1> USE DEF OtasInv, inputs, mainVars
  <1>3. f \in Files /\ f \in Types \X Outputs
    BY DEF Files, Outputs
  <1>4. Typed'
    <2>1. /\ thread' \in [Types -> Places]
          /\ dir' \in [Files -> {Absent, Old, Spoilt} \cup (Types \X Outputs)]
      BY <1>1, <1>2, <1>3 DEF Typed
    <2> QED BY <1>1, <2>1 DEF Typed
  <1>5. thread'[t] = "extend" /\ \A g \in Types \X Outputs : g # f => dir'[g] = dir[g]
    BY <1>1, <1>3 DEF Typed, Files
  <1> HIDE DEF f
  <1>6. \A u \in Types : \A o \in Outputs : u # t => dir'[<<u, o>>] = dir[<<u, o>>]
    BY <1>5 DEF f
  <1>7. Own(t)'
    <2>1. Own(t)
      BY OwnFacts
    <2>2. \A o \in Outputs : child'[<<t, o>>] = "good" => dir'[<<t, o>>] = <<t, o>>
      BY <1>1, EndedWaited DEF AllWaited
    <2>3. GenericChild(t)' /\ GenericWhole(t)'
      BY <1>1, <1>5, <2>1 DEF Own, GenericChild, GenericWhole, AllWaited, Typed
    <2>4. ASSUME NEW i \in DOMAIN variants PROVE VariantChild(t, i)' /\ VariantWhole(t, i)'
      <3>1. <<t, variants[i]>> \in Types \X Outputs /\ <<t, variants[i]>> # f
        BY ListFacts DEF f
      <3>2. VariantChild(t, i) /\ VariantWhole(t, i)
        BY <2>1 DEF Own
      <3> QED BY <1>1, <1>5, <3>1, <3>2 DEF VariantChild, VariantWhole, AllWaited
    <2> QED BY <1>1, <2>1, <2>2, <2>3, <2>4 DEF Own, InList
  <1>8. RegisteredInv' /\ PassedAreStopped'
    BY <1>1 DEF RegisteredInv, PassedAreStopped, InHandler
  <1> QED BY <1>1, <1>2, <1>4, <1>6, <1>7, <1>8, ThreadStep

(* What the loops of a thread do to its variable.                          *)
LEMMA LoopFacts ==
  ASSUME Typed, NEW t \in Types, NEW again, NEW after, Loop(t, again, after),
         variants # <<>>, next[t] <= Len(variants)
  PROVE  LET w == IF next[t] < Len(variants) THEN again ELSE after
         IN  /\ thread' = [thread EXCEPT ![t] = w]
             /\ next' \in [Types -> Nat \ {0}]
             /\ next'[t] = IF next[t] < Len(variants) THEN next[t] + 1 ELSE 1
             /\ next'[t] <= Len(variants)
             /\ \A u \in Types : u # t => next'[u] = next[u]
  <1>1. Len(variants) \in Nat /\ Len(variants) >= 1
    BY ListFacts
  <1>2. next \in [Types -> Nat \ {0}]
    BY DEF Typed
  <1>3. CASE next[t] < Len(variants)
    BY <1>1, <1>2, <1>3 DEF Loop, Goto
  <1>4. CASE ~(next[t] < Len(variants))
    BY <1>1, <1>2, <1>4 DEF Loop, Goto
  <1> QED BY <1>3, <1>4

(* The process is known to the handler from here on.                       *)
LEMMA InvRegister ==
  ASSUME OtasInv, NEW t \in Types, Register(t)
  PROVE  OtasInv'
  <1> DEFINE n == next[t]
             w == IF n < Len(variants) THEN "spawn" ELSE "wait"
             f == <<t, variants[n]>>
  <1> USE DEF OtasInv, inputs, mainVars
  <1>1. /\ thread[t] = "register" /\ n <= Len(variants) /\ variants # <<>>
        /\ Loop(t, "spawn", "wait")
        /\ processes' = Append(processes, f)
        /\ inputs' = inputs /\ ota_list' = ota_list
        /\ child' = child /\ dir' = dir /\ mainVars' = mainVars
        /\ handler' = handler
    BY DEF Register, Typed
  <1>2. /\ thread' = [thread EXCEPT ![t] = w]
        /\ next' \in [Types -> Nat \ {0}]
        /\ next'[t] = IF n < Len(variants) THEN n + 1 ELSE 1
        /\ next'[t] <= Len(variants)
        /\ \A u \in Types : u # t => next'[u] = next[u]
    BY <1>1, LoopFacts
  <1>3. Active(t) /\ w \in Places \ {"idle", "ended"} /\ w \in {"spawn", "wait"}
    BY <1>1 DEF Active, Places
  <1>4. /\ n \in Nat /\ n >= 1 /\ Len(variants) \in Nat /\ n \in DOMAIN variants
        /\ variants[n] \in Variants
    <2>1. n \in Nat /\ n >= 1 /\ Len(variants) \in Nat
      BY ListFacts DEF Typed
    <2> QED BY <1>1, <2>1, ListFacts
  <1>5. Typed'
    <2>1. thread' \in [Types -> Places]
      BY <1>2, <1>3 DEF Typed
    <2>2. processes' \in Seq(Types \X Variants) /\ Len(processes') = Len(processes) + 1
      BY <1>1, <1>4 DEF Typed
    <2>3. handler \in Left..(Len(processes') + 1)
      <3>1. Len(processes) \in Nat /\ handler \in Left..(Len(processes) + 1)
        BY DEF Typed
      <3> QED BY <2>2, <3>1 DEF Left
    <2>4. /\ \A u \in Types : next'[u] = 1 \/ next'[u] <= Len(variants)
          /\ \A u \in Types : thread'[u] \in {"spawn", "register", "wait", "unlink"}
                                => next'[u] <= Len(variants) /\ variants # <<>>
          /\ \A u \in Types : thread'[u] \in {"idle", "build", "built"} => next'[u] = 1
      BY <1>1, <1>2, <1>3 DEF Typed
    <2> QED BY <1>1, <1>2, <2>1, <2>2, <2>3, <2>4 DEF Typed
  <1>6. thread'[t] = w
    BY <1>2 DEF Typed
  <1>7. Own(t)'
    <2>1. Own(t)
      BY OwnFacts
    <2>2. \A o \in Outputs : child'[<<t, o>>] = "good" => dir'[<<t, o>>] = <<t, o>>
      BY <1>1, <2>1 DEF Own
    <2>3. GenericChild(t)' /\ GenericWhole(t)'
      BY <1>1, <1>3, <1>6, <2>1 DEF Own, GenericChild, GenericWhole, AllWaited
    <2>4. ASSUME NEW i \in DOMAIN variants PROVE VariantChild(t, i)' /\ VariantWhole(t, i)'
      <3>1. i \in Nat /\ i <= Len(variants) /\ i >= 1 /\ VariantChild(t, i)
        <4>1. DOMAIN variants = 1..Len(variants)
          BY ListFacts
        <4>2. VariantChild(t, i)
          BY <2>1 DEF Own
        <4> QED BY <1>4, <4>1, <4>2
      <3>2. IF i <= n THEN child[<<t, variants[i]>>] \in Started
            ELSE child[<<t, variants[i]>>] = "none"
        BY <1>1, <3>1 DEF VariantChild
      <3>3. CASE n < Len(variants)
        <4>1. thread'[t] = "spawn" /\ next'[t] = n + 1
          BY <1>2, <1>6, <3>3
        <4>2. IF i < n + 1 THEN child[<<t, variants[i]>>] \in Started
              ELSE child[<<t, variants[i]>>] = "none"
          BY <1>4, <3>1, <3>2
        <4> QED BY <1>1, <4>1, <4>2 DEF VariantChild, VariantWhole, AllWaited
      <3>4. CASE ~(n < Len(variants))
        <4>1. i <= n /\ ~(i < 1)
          BY <1>1, <1>4, <3>1, <3>4
        <4>2. thread'[t] = "wait" /\ next'[t] = 1
          BY <1>2, <1>6, <3>4
        <4>3. child[<<t, variants[i]>>] \in Started
          BY <3>2, <4>1
        <4> QED BY <1>1, <4>1, <4>2, <4>3 DEF VariantChild, VariantWhole, AllWaited
      <3> QED BY <3>3, <3>4
    <2> QED BY <1>1, <2>1, <2>2, <2>3, <2>4 DEF Own, InList
  <1>8. RegisteredInv' /\ PassedAreStopped'
    <2>1. child[f] # "none"
      <3>1. VariantChild(t, n) /\ n <= n
        <4>1. n <= n
          BY <1>4
        <4> QED BY <1>4, <4>1 DEF ChildrenInv
      <3> QED BY <1>1, <3>1 DEF VariantChild, Started
    <2>2. /\ DOMAIN processes' = 1..(Len(processes) + 1)
          /\ \A k \in 1..Len(processes) : processes'[k] = processes[k]
          /\ processes'[Len(processes) + 1] = f
          /\ DOMAIN processes = 1..Len(processes) /\ Len(processes) \in Nat
      <3>1. processes \in Seq(Types \X Variants) /\ f \in Types \X Variants
        BY <1>4 DEF Typed
      <3> QED BY <1>1, <3>1
    <2>3. RegisteredInv'
      BY <1>1, <2>1, <2>2 DEF RegisteredInv
    <2>4. handler <= Len(processes) + 1
      BY <2>2 DEF Typed, Left
    <2>5. PassedAreStopped'
      <3> SUFFICES ASSUME handler > 0, NEW k \in 1..(Len(processes) + 1), k < handler
                   PROVE  child[processes'[k]] # "running"
        BY <1>1, <2>2 DEF PassedAreStopped, InHandler
      <3>1. handler \in Int /\ k \in 1..Len(processes)
        BY <2>2, <2>4 DEF Typed, Left
      <3> QED BY <2>2, <3>1 DEF PassedAreStopped, InHandler
    <2> QED BY <2>3, <2>5
  <1> QED BY <1>1, <1>2, <1>3, <1>5, <1>7, <1>8, ThreadStep

(* A thread gets past a process that succeeded only: its package is whole. *)
LEMMA InvWait ==
  ASSUME OtasInv, NEW t \in Types, Wait(t)
  PROVE  OtasInv'
  <1> DEFINE n == next[t]
             f == <<t, variants[n]>>
             ok == child[f] = "good"
             w == IF ~ok THEN "dead" ELSE IF n < Len(variants) THEN "wait" ELSE "unlink"
  <1> USE DEF OtasInv, inputs, mainVars
  <1>1. /\ thread[t] = "wait" /\ n <= Len(variants) /\ variants # <<>>
        /\ child[f] \in {"good", "bad"}
        /\ child' = [child EXCEPT ![f] = "waited"]
        /\ IF ok THEN Loop(t, "wait", "unlink")
                 ELSE thread' = [thread EXCEPT ![t] = "dead"] /\ next' = next
        /\ inputs' = inputs /\ ota_list' = ota_list
        /\ processes' = processes /\ dir' = dir /\ mainVars' = mainVars
        /\ handler' = handler
    BY DEF Wait, Typed, Goto
  <1>2. /\ thread' = [thread EXCEPT ![t] = w]
        /\ next' \in [Types -> Nat \ {0}]
        /\ ok => next'[t] = IF n < Len(variants) THEN n + 1 ELSE 1
        /\ next'[t] <= Len(variants)
        /\ \A u \in Types : u # t => next'[u] = next[u]
    <2>1. CASE ok
      BY <1>1, <2>1, LoopFacts
    <2>2. CASE ~ok
      BY <1>1, <2>2 DEF Typed
    <2> QED BY <2>1, <2>2
  <1>3. Active(t) /\ w \in Places \ {"idle", "ended"} /\ w \in {"dead", "wait", "unlink"}
    BY <1>1 DEF Active, Places
  <1>4. /\ n \in Nat /\ n >= 1 /\ Len(variants) \in Nat /\ n \in DOMAIN variants
        /\ variants[n] \in Variants /\ f \in Types \X Outputs
    <2>1. n \in Nat /\ n >= 1 /\ Len(variants) \in Nat
      BY ListFacts DEF Typed
    <2> QED BY <1>1, <2>1, ListFacts
  <1>5. Typed'
    <2>1. thread' \in [Types -> Places] /\ child' \in [Types \X Outputs -> Statuses]
      BY <1>1, <1>2, <1>3, <1>4 DEF Typed, Statuses
    <2>2. /\ \A u \in Types : next'[u] = 1 \/ next'[u] <= Len(variants)
          /\ \A u \in Types : thread'[u] \in {"spawn", "register", "wait", "unlink"}
                                => next'[u] <= Len(variants) /\ variants # <<>>
          /\ \A u \in Types : thread'[u] \in {"idle", "build", "built"} => next'[u] = 1
      BY <1>1, <1>2, <1>3 DEF Typed
    <2> QED BY <1>1, <1>2, <2>1, <2>2 DEF Typed
  <1>6. /\ thread'[t] = w /\ child'[f] = "waited"
        /\ \A g \in Types \X Outputs : g # f => child'[g] = child[g]
    BY <1>1, <1>2, <1>4 DEF Typed
  <1>7. \A u \in Types : \A o \in Outputs : u # t => child'[<<u, o>>] = child[<<u, o>>]
    BY <1>6
  <1>8. Own(t)'
    <2>1. Own(t)
      BY OwnFacts
    <2>2. \A o \in Outputs : child'[<<t, o>>] = "good" => dir'[<<t, o>>] = <<t, o>>
      BY <1>1, <1>6, <2>1 DEF Own
    <2>3. GenericChild(t)' /\ GenericWhole(t)'
      <3>1. f # <<t, Generic>> /\ <<t, Generic>> \in Types \X Outputs
        BY <1>4, ListFacts
      <3> QED BY <1>1, <1>3, <1>6, <2>1, <3>1 DEF Own, GenericChild, GenericWhole, AllWaited
    <2>4. ASSUME NEW i \in DOMAIN variants PROVE VariantChild(t, i)' /\ VariantWhole(t, i)'
      <3>1. /\ <<t, variants[i]>> \in Types \X Outputs /\ (<<t, variants[i]>> = f <=> i = n)
            /\ i \in Nat /\ i >= 1 /\ i <= Len(variants)
            /\ VariantChild(t, i) /\ VariantWhole(t, i)
        <4>1. DOMAIN variants = 1..Len(variants)
          BY ListFacts
        <4>2. <<t, variants[i]>> \in Types \X Outputs /\ (<<t, variants[i]>> = f <=> i = n)
          BY <1>4, ListFacts
        <4>3. VariantChild(t, i) /\ VariantWhole(t, i)
          BY <2>1 DEF Own
        <4> QED BY <1>4, <4>1, <4>2, <4>3
      <3>2. /\ IF i < n THEN child[<<t, variants[i]>>] = "waited"
               ELSE child[<<t, variants[i]>>] \in Started
            /\ i < n => dir[<<t, variants[i]>>] = <<t, variants[i]>>
        BY <1>1, <3>1 DEF VariantChild, VariantWhole
      <3>3. CASE ~ok
        BY <1>1, <1>6, <3>3 DEF VariantChild, VariantWhole, AllWaited
      <3>4. CASE ok
        <4>1. dir[f] = f
          BY <1>4, <3>4 DEF DirInv, GoodIsWhole
        <4>2. /\ IF i <= n THEN child'[<<t, variants[i]>>] = "waited"
                 ELSE child'[<<t, variants[i]>>] \in Started
              /\ i <= n => dir[<<t, variants[i]>>] = <<t, variants[i]>>
          BY <1>4, <1>6, <3>1, <3>2, <4>1
        <4>3. CASE n < Len(variants)
          <5>1. thread'[t] = "wait" /\ next'[t] = n + 1 /\ (i < n + 1 <=> i <= n)
            BY <1>2, <1>4, <1>6, <3>1, <3>4, <4>3
          <5> QED BY <1>1, <4>2, <5>1 DEF VariantChild, VariantWhole, AllWaited
        <4>4. CASE ~(n < Len(variants))
          <5>1. thread'[t] = "unlink" /\ i <= n
            BY <1>1, <1>2, <1>4, <1>6, <3>1, <3>4, <4>4
          <5> QED BY <1>1, <4>2, <5>1 DEF VariantChild, VariantWhole, AllWaited
        <4> QED BY <4>3, <4>4
      <3> QED BY <3>3, <3>4
    <2>5. ASSUME NEW v \in Variants, ~InList(v) PROVE child'[<<t, v>>] = "none"
      <3>1. <<t, v>> \in Types \X Outputs /\ <<t, v>> # f
        BY <1>4, <2>5, ListFacts DEF InList
      <3> QED BY <1>6, <2>1, <2>5, <3>1 DEF Own
    <2> QED BY <1>1, <2>2, <2>3, <2>4, <2>5 DEF Own, InList
  <1>9. RegisteredInv' /\ PassedAreStopped'
    <2>1. \A k \in DOMAIN processes : processes[k] \in Types \X Outputs
      BY ListFacts DEF Typed
    <2>2. \A k \in DOMAIN processes :
            child'[processes[k]] = child[processes[k]] \/ child'[processes[k]] = "waited"
      BY <1>6, <2>1
    <2> QED BY <1>1, <2>2 DEF RegisteredInv, PassedAreStopped, InHandler
  <1> QED BY <1>1, <1>2, <1>3, <1>5, <1>7, <1>8, <1>9, ThreadStep

(* The outputs of a thread, as they are added to the list at its end.      *)
Block(t) == IF variants = <<>> THEN << <<t, Generic>> >>
            ELSE [i \in DOMAIN variants |-> <<t, variants[i]>>]

LEMMA BlockFacts ==
  ASSUME OtasInv, NEW t \in Types, thread[t] = "extend"
  PROVE  LET b == Block(t)
         IN  /\ b \in Seq(Types \X Outputs) /\ Len(b) >= 1
             /\ b[Len(b)] = <<t, LastOutput>>
             /\ \A i, j \in 1..Len(b) : b[i] = b[j] => i = j
             /\ \A i \in 1..Len(b) :
                  /\ b[i][1] = t /\ dir[b[i]] = b[i]
                  /\ IF variants = <<>> THEN b[i][2] = Generic ELSE b[i][2] \in Variants
  <1> USE DEF OtasInv
  <1>1. CASE variants = <<>>
    <2>1. Block(t) = << <<t, Generic>> >> /\ LastOutput = Generic
      BY <1>1 DEF Block, LastOutput
    <2>2. dir[<<t, Generic>>] = <<t, Generic>>
      BY <1>1 DEF DirInv, GenericWhole
    <2>3. <<t, Generic>> \in Types \X Outputs
      BY DEF Outputs
    <2> QED BY <1>1, <2>1, <2>2, <2>3
  <1>2. CASE variants # <<>>
    <2> DEFINE b == Block(t)
    <2>1. b = [i \in DOMAIN variants |-> <<t, variants[i]>>]
      BY <1>2 DEF Block
    <2>2. /\ DOMAIN variants = 1..Len(variants) /\ Len(variants) \in Nat /\ Len(variants) >= 1
          /\ \A i \in DOMAIN variants : variants[i] \in Variants /\ variants[i] \in Outputs
          /\ \A i, j \in DOMAIN variants : variants[i] = variants[j] => i = j
      BY <1>2, ListFacts
    <2>3. b \in Seq(Types \X Outputs) /\ Len(b) = Len(variants)
      BY <2>1, <2>2
    <2>4. \A i \in DOMAIN variants : dir[<<t, variants[i]>>] = <<t, variants[i]>>
      BY DEF DirInv, VariantWhole
    <2>5. LastOutput = variants[Len(variants)]
      BY <1>2 DEF LastOutput
    <2> HIDE DEF b
    <2>6. \A i \in 1..Len(b) : b[i] = <<t, variants[i]>>
      BY <2>1, <2>2, <2>3
    <2>7. \A i \in 1..Len(b) : b[i][1] = t /\ dir[b[i]] = b[i] /\ b[i][2] \in Variants
      <3> SUFFICES ASSUME NEW i \in 1..Len(b)
                   PROVE  b[i][1] = t /\ dir[b[i]] = b[i] /\ b[i][2] \in Variants
        OBVIOUS
      <3>1. i \in DOMAIN variants /\ b[i] = <<t, variants[i]>>
        BY <2>2, <2>3, <2>6
      <3>2. dir[<<t, variants[i]>>] = <<t, variants[i]>> /\ variants[i] \in Variants
        BY <2>2, <2>4, <3>1
      <3> QED BY <3>1, <3>2
    <2>8. \A i, j \in 1..Len(b) : b[i] = b[j] => i = j
      BY <2>2, <2>3, <2>6
    <2>9. b[Len(b)] = <<t, LastOutput>>
      BY <2>2, <2>3, <2>5, <2>6
    <2> QED BY <1>2, <2>2, <2>3, <2>7, <2>8, <2>9 DEF b
  <1> QED BY <1>1, <1>2

(* The list grows by outputs of a type it had none of, whole files all of  *)
(* them, the one that is released at its end.                              *)
LEMMA InvExtend ==
  ASSUME OtasInv, NEW t \in Types, Extend(t)
  PROVE  OtasInv'
  <1> DEFINE b == Block(t)
             L == Len(ota_list)
  <1>1. /\ thread[t] = "extend"
        /\ ota_list' = ota_list \o b
        /\ thread' = [thread EXCEPT ![t] = "ended"]
        /\ inputs' = inputs /\ next' = next /\ child' = child
        /\ processes' = processes /\ dir' = dir /\ mainVars' = mainVars
        /\ handler' = handler
    BY DEF Extend, Goto, Block
  <1>2. Active(t) /\ "ended" \in Places \ {"idle"}
    BY <1>1 DEF Active, Places
  <1> USE DEF OtasInv, inputs, mainVars
  <1>3. /\ b \in Seq(Types \X Outputs) /\ Len(b) >= 1
        /\ b[Len(b)] = <<t, LastOutput>>
        /\ \A i, j \in 1..Len(b) : b[i] = b[j] => i = j
        /\ \A i \in 1..Len(b) :
             /\ b[i][1] = t /\ dir[b[i]] = b[i]
             /\ IF variants = <<>> THEN b[i][2] = Generic ELSE b[i][2] \in Variants
    BY <1>1, BlockFacts
  <1> HIDE DEF b
  <1>4. thread'[t] = "ended" /\ \A u \in Types : u # t => thread'[u] = thread[u]
    BY <1>1 DEF Typed
  <1>5. Typed'
    <2>1. thread' \in [Types -> Places] /\ ota_list' \in Seq(Types \X Outputs)
      BY <1>1, <1>2, <1>3 DEF Typed
    <2> QED BY <1>1, <2>1 DEF Typed
  <1>6. /\ L \in Nat /\ Len(b) \in Nat
        /\ DOMAIN ota_list = 1..L /\ DOMAIN ota_list' = 1..(L + Len(b))
        /\ \A i \in 1..L : ota_list'[i] = ota_list[i]
        /\ \A i \in (L + 1)..(L + Len(b)) : i - L \in 1..Len(b) /\ ota_list'[i] = b[i - L]
        /\ \A i \in 1..(L + Len(b)) : i <= L \/ i \in (L + 1)..(L + Len(b))
    <2>1. ota_list \in Seq(Types \X Outputs)
      BY DEF Typed
    <2> QED BY <1>1, <1>3, <2>1
  <1> HIDE DEF L
  <1>7. \A i \in 1..L : /\ ota_list[i] \in Types \X Outputs
                        /\ ota_list[i][1] # t /\ thread[ota_list[i][1]] = "ended"
    <2>1. \A i \in DOMAIN ota_list : ota_list[i] \in Types \X Outputs
      BY DEF Typed
    <2>2. \A i \in DOMAIN ota_list : thread[ota_list[i][1]] = "ended"
      BY DEF ListInv, Entries
    <2> QED BY <1>1, <1>6, <2>1, <2>2
  <1>8. Own(t)'
    <2>1. Own(t)
      BY OwnFacts
    <2>2. GenericChild(t)' /\ GenericWhole(t)'
      BY <1>1, <1>4, <2>1 DEF Own, GenericChild, GenericWhole, AllWaited
    <2>3. ASSUME NEW i \in DOMAIN variants PROVE VariantChild(t, i)' /\ VariantWhole(t, i)'
      <3>1. VariantChild(t, i)
        BY <2>1 DEF Own
      <3> QED BY <1>1, <1>4, <3>1 DEF VariantChild, VariantWhole, AllWaited
    <2> QED BY <1>1, <2>1, <2>2, <2>3 DEF Own, InList
  <1>9. ChildrenInv' /\ DirInv'
    BY <1>1, <1>4, <1>8, OwnOfOthers
  <1>10. RegisteredInv' /\ PassedAreStopped'
    BY <1>1 DEF RegisteredInv, PassedAreStopped, InHandler
  <1>11. ListInv'
    <2>1. Entries'
      <3>1. \A i \in 1..L : IF variants = <<>> THEN ota_list[i][2] = Generic
                            ELSE ota_list[i][2] \in Variants
        BY <1>6 DEF ListInv, Entries
      <3> SUFFICES ASSUME NEW i \in 1..(L + Len(b))
                   PROVE  /\ thread'[ota_list'[i][1]] = "ended"
                          /\ IF variants = <<>> THEN ota_list'[i][2] = Generic
                             ELSE ota_list'[i][2] \in Variants
        BY <1>1, <1>6 DEF Entries
      <3>2. CASE i <= L
        BY <1>4, <1>6, <1>7, <3>1, <3>2
      <3>3. CASE i \in (L + 1)..(L + Len(b))
        BY <1>3, <1>4, <1>6, <3>3
      <3> QED BY <1>6, <3>2, <3>3
    <2>2. OnceEach'
      <3> SUFFICES ASSUME NEW i \in 1..(L + Len(b)), NEW j \in 1..(L + Len(b)),
                          ota_list'[i] = ota_list'[j]
                   PROVE  i = j
        BY <1>6 DEF OnceEach
      <3>1. CASE i <= L /\ j <= L
        BY <1>6, <3>1 DEF ListInv, OnceEach
      <3>2. CASE ~(i <= L) /\ ~(j <= L)
        <4>1. b[i - L] = b[j - L] /\ i - L \in 1..Len(b) /\ j - L \in 1..Len(b)
          BY <1>6, <3>2
        <4> QED BY <1>3, <1>6, <4>1
      <3>3. \A k \in 1..(L + Len(b)) : k <= L => ota_list'[k][1] # t
        BY <1>6, <1>7
      <3>4. \A k \in 1..(L + Len(b)) : ~(k <= L) => ota_list'[k][1] = t
        BY <1>3, <1>6
      <3> QED BY <3>1, <3>2, <3>3, <3>4
    <2>3. LastBehind'
      <3> SUFFICES ASSUME main # "finished", NEW u \in Types, thread'[u] = "ended"
                   PROVE  \E i \in 1..(L + Len(b)) : LastAt(u, i)'
        BY <1>1, <1>6 DEF LastBehind
      <3>1. CASE u = t
        <4>1. PICK k \in 1..(L + Len(b)) : k = L + Len(b)
          BY <1>3, <1>6
        <4>2. ota_list'[k] = <<t, LastOutput>>
          <5>1. k \in (L + 1)..(L + Len(b)) /\ k - L = Len(b)
            BY <1>3, <1>6, <4>1
          <5> QED BY <1>3, <1>6, <5>1
        <4>3. \A j \in 1..(L + Len(b)) : ~(j > k)
          BY <1>6, <4>1
        <4>4. LastOutput' = LastOutput /\ DOMAIN ota_list' = 1..(L + Len(b))
          BY <1>1, <1>6 DEF LastOutput
        <4>5. LastAt(t, k)'
          BY <4>2, <4>3, <4>4 DEF LastAt
        <4> QED BY <3>1, <4>1, <4>5
      <3>2. CASE u # t
        <4>1. PICK i \in 1..L : LastAt(u, i)
          BY <1>4, <1>6, <3>2 DEF ListInv, LastBehind
        <4>2. \A j \in 1..(L + Len(b)) : j > i => ota_list'[j][1] # u
          <5> SUFFICES ASSUME NEW j \in 1..(L + Len(b)), j > i PROVE ota_list'[j][1] # u
            OBVIOUS
          <5>1. CASE j <= L
            BY <1>6, <4>1, <5>1 DEF LastAt
          <5>2. CASE j \in (L + 1)..(L + Len(b))
            BY <1>3, <1>6, <3>2, <5>2
          <5> QED BY <1>6, <5>1, <5>2
        <4>3. i \in 1..(L + Len(b)) /\ ota_list'[i] = <<u, LastOutput>>
          BY <1>6, <4>1 DEF LastAt
        <4>4. LastAt(u, i)'
          BY <1>1, <1>6, <4>2, <4>3 DEF LastAt, LastOutput
        <4> QED BY <4>3, <4>4
      <3> QED BY <3>1, <3>2
    <2>4. StillThere'
      <3> SUFFICES ASSUME main \notin {"finished", "died"}, NEW i \in 1..(L + Len(b))
                   PROVE  dir[ota_list'[i]] = ota_list'[i]
        BY <1>1, <1>6 DEF StillThere
      <3>1. CASE i <= L
        BY <1>2, <1>6, <3>1, ActiveFacts DEF ListInv, StillThere
      <3>2. CASE i \in (L + 1)..(L + Len(b))
        BY <1>3, <1>6, <3>2
      <3> QED BY <1>6, <3>1, <3>2
    <2> QED BY <2>1, <2>2, <2>3, <2>4 DEF ListInv
  <1>12. PublishedInv' /\ MetadataIsTrue' /\ OutputIsWhole' /\ MainInv'
    BY <1>1, <1>2, ThreadKeepsMain
  <1> QED BY <1>5, <1>9, <1>10, <1>11, <1>12

(* Every step of a thread keeps the invariant.                             *)
LEMMA InvThread ==
  ASSUME OtasInv, NEW t \in Types, Thread(t)
  PROVE  OtasInv'
  BY InvPopenFails, InvBuild, InvBuilt, InvSpawn, InvRegister, InvWait, InvUnlink, InvExtend
     DEF Thread

-----------------------------------------------------------------------------
(* The main thread.                                                        *)

(* What a step that changes neither threads, processes nor files keeps.    *)
LEMMA ChildrenKept ==
  ASSUME OtasInv, inputs' = inputs, thread' = thread, next' = next, child' = child,
         \A f \in Types \X Outputs : dir'[f] = dir[f]
  PROVE  ChildrenInv' /\ DirInv'
  <1> USE DEF OtasInv, inputs
  <1>1. ChildrenInv'
    <2>1. \A t \in Types : GenericChild(t)'
      BY DEF ChildrenInv, GenericChild, AllWaited
    <2>2. ASSUME NEW t \in Types, NEW i \in DOMAIN variants PROVE VariantChild(t, i)'
      <3>1. VariantChild(t, i)
        BY DEF ChildrenInv
      <3> QED BY <3>1 DEF VariantChild, AllWaited
    <2> QED BY <2>1, <2>2 DEF ChildrenInv, InList
  <1>2. DirInv'
    <2>1. GoodIsWhole'
      BY DEF DirInv, GoodIsWhole
    <2>2. ASSUME NEW t \in Types PROVE GenericWhole(t)'
      BY ListFacts DEF DirInv, GenericWhole
    <2>3. ASSUME NEW t \in Types, NEW i \in DOMAIN variants PROVE VariantWhole(t, i)'
      <3>1. VariantWhole(t, i) /\ <<t, variants[i]>> \in Types \X Outputs
        BY ListFacts DEF DirInv
      <3> QED BY <3>1 DEF VariantWhole
    <2> QED BY <2>1, <2>2, <2>3 DEF DirInv
  <1> QED BY <1>1, <1>2

(* The thread started is the next one of the list: it was idle.            *)
LEMMA InvStart ==
  ASSUME OtasInv, Start
  PROVE  OtasInv'
  <1> PICK t \in Types : t = jobs[turn]
    BY ListFacts DEF OtasInv, MainInv, Start
  <1>1. /\ main = "start" /\ ~InHandler
        /\ thread' = [thread EXCEPT ![t] = "build"]
        /\ IF turn < Len(jobs) THEN turn' = turn + 1 /\ main' = main
                               ELSE turn' = 1 /\ main' = "join"
        /\ inputs' = inputs /\ next' = next /\ ota_list' = ota_list /\ child' = child
        /\ processes' = processes /\ dir' = dir /\ output' = output
        /\ metadata' = metadata /\ handler' = handler
    BY DEF Start, Goto
  <1> USE DEF OtasInv, inputs
  <1>2. /\ t \in Types /\ thread[t] = "idle" /\ t \in JobSet
        /\ turn \in DOMAIN jobs /\ DOMAIN jobs = 1..Len(jobs) /\ Len(jobs) \in Nat
    BY <1>1, ListFacts DEF MainInv, JobSet, Typed
  <1>3. thread'[t] = "build" /\ \A u \in Types : u # t => thread'[u] = thread[u]
    BY <1>1, <1>2 DEF Typed
  <1>4. Typed'
    <2>1. thread' \in [Types -> Places]
      BY <1>1 DEF Typed, Places
    <2>2. turn' \in Nat \ {0}
      BY <1>1 DEF Typed
    <2> QED BY <1>1, <1>2, <1>3, <2>1, <2>2 DEF Typed
  <1>5. Own(t)'
    <2>1. Own(t)
      BY <1>2, OwnFacts
    <2>2. GenericChild(t)' /\ GenericWhole(t)'
      BY <1>1, <1>2, <1>3, <2>1 DEF Own, GenericChild, GenericWhole, AllWaited
    <2>3. ASSUME NEW i \in DOMAIN variants PROVE VariantChild(t, i)' /\ VariantWhole(t, i)'
      <3>1. VariantChild(t, i)
        BY <2>1 DEF Own
      <3> QED BY <1>1, <1>2, <1>3, <3>1 DEF VariantChild, VariantWhole, AllWaited
    <2> QED BY <1>1, <2>1, <2>2, <2>3 DEF Own, InList
  <1>6. ChildrenInv' /\ DirInv'
    BY <1>1, <1>2, <1>3, <1>5, OwnOfOthers
  <1>7. RegisteredInv' /\ PassedAreStopped'
    BY <1>1 DEF RegisteredInv, PassedAreStopped, InHandler
  <1>8. ListInv'
    <2>1. \A u \in Types : thread[u] = "ended" <=> thread'[u] = "ended"
      BY <1>2, <1>3
    <2>2. \A i \in DOMAIN ota_list : thread[ota_list[i][1]] = "ended" /\ ota_list[i][1] \in Types
      BY DEF Typed, ListInv, Entries
    <2>3. Entries' /\ OnceEach'
      BY <1>1, <2>1, <2>2 DEF ListInv, Entries, OnceEach
    <2>4. LastBehind' /\ StillThere'
      BY <1>1, <2>1 DEF ListInv, LastBehind, LastAt, LastOutput, StillThere
    <2> QED BY <2>3, <2>4 DEF ListInv
  <1>9. PublishedInv' /\ MetadataIsTrue' /\ OutputIsWhole'
    BY <1>1 DEF PublishedInv, MetadataIsTrue, OutputIsWhole, MainInv
  <1>10. MainInv'
    <2>1. ASSUME NEW i \in DOMAIN jobs, main' = "start", i >= turn'
          PROVE  thread'[jobs[i]] = "idle"
      <3>1. turn' = turn + 1 /\ i \in Nat /\ turn \in Nat /\ i >= turn /\ i # turn
        BY <1>1, <1>2, <2>1
      <3>2. jobs[i] \in Types /\ jobs[i] # t
        BY <1>2, <3>1, ListFacts
      <3> QED BY <1>1, <1>3, <3>1, <3>2 DEF MainInv
    <2>2. turn' \in DOMAIN jobs
      BY <1>1, <1>2
    <2>3. \A i \in DOMAIN jobs : main' = "join" => ~(i < turn')
      BY <1>1, <1>2
    <2>4. main' \in {"start", "join"} /\ metadata = <<>> /\ output = Absent /\ ~InHandler'
      BY <1>1 DEF MainInv, InHandler
    <2>5. \A u \in Types : thread'[u] # "idle" => u \in JobSet
      BY <1>2, <1>3 DEF MainInv
    <2> QED BY <1>1, <2>1, <2>2, <2>3, <2>4, <2>5 DEF MainInv, JobSet
  <1> QED BY <1>4, <1>6, <1>7, <1>8, <1>9, <1>10

LEMMA InvJoin ==
  ASSUME OtasInv, Join
  PROVE  OtasInv'
  <1> USE DEF OtasInv, Join, inputs, threadVars
  <1>1. Typed'
    BY DEF Typed
  <1>2. ChildrenInv' /\ DirInv'
    BY ChildrenKept
  <1>3. RegisteredInv' /\ PassedAreStopped'
    BY DEF RegisteredInv, PassedAreStopped, InHandler
  <1>4. ListInv'
    BY DEF ListInv, Entries, OnceEach, LastBehind, LastAt, LastOutput, StillThere
  <1>5. PublishedInv' /\ MetadataIsTrue' /\ OutputIsWhole'
    BY DEF PublishedInv, MetadataIsTrue, OutputIsWhole, MainInv
  <1>6. MainInv'
    BY DEF MainInv, JobSet, Over, InHandler
  <1> QED BY <1>1, <1>2, <1>3, <1>4, <1>5, <1>6

(* When the last thread is joined, all of them are over.                   *)
LEMMA InvJoined ==
  ASSUME OtasInv, Joined
  PROVE  OtasInv'
  <1> USE DEF OtasInv, inputs, threadVars
  <1>1. /\ main = "joining" /\ Over(jobs[turn])
        /\ IF turn < Len(jobs) THEN turn' = turn + 1 /\ main' = "join"
           ELSE turn' = 1 /\ main' = IF to_file THEN "to_file" ELSE "release"
        /\ inputs' = inputs /\ threadVars' = threadVars /\ child' = child
        /\ processes' = processes /\ dir' = dir /\ output' = output
        /\ metadata' = metadata /\ handler' = handler
    BY DEF Joined
  <1>2. /\ turn \in DOMAIN jobs /\ DOMAIN jobs = 1..Len(jobs) /\ Len(jobs) \in Nat
        /\ turn \in Nat
        /\ \A i \in DOMAIN jobs : i < turn => Over(jobs[i])
        /\ metadata = <<>> /\ output = Absent /\ ~InHandler
    BY <1>1, ListFacts DEF MainInv, Typed
  <1>3. Typed'
    BY <1>1, <1>2 DEF Typed
  <1>4. ChildrenInv' /\ DirInv'
    BY <1>1, ChildrenKept
  <1>5. RegisteredInv' /\ PassedAreStopped'
    BY <1>1 DEF RegisteredInv, PassedAreStopped, InHandler
  <1>6. ListInv'
    <2>1. Entries' /\ OnceEach' /\ LastBehind'
      BY <1>1 DEF ListInv, Entries, OnceEach, LastBehind, LastAt, LastOutput
    <2>2. StillThere'
      BY <1>1 DEF ListInv, StillThere
    <2> QED BY <2>1, <2>2 DEF ListInv
  <1>7. PublishedInv'
    <2>1. main' = "release" => turn' = 1 /\ Len(ota_list) \in Nat /\ 1..(turn' - 1) = {}
      BY <1>1 DEF Typed
    <2>2. ota_list' = ota_list
      BY <1>1
    <2>3. main' = "release" => turn' <= Len(ota_list') + 1
      BY <2>1, <2>2
    <2> QED BY <2>1, <2>3 DEF PublishedInv
  <1>8. MetadataIsTrue' /\ OutputIsWhole'
    BY <1>1, <1>2 DEF MetadataIsTrue, OutputIsWhole
  <1>9. MainInv'
    <2>1. CASE turn < Len(jobs)
      <3>1. /\ turn' \in DOMAIN jobs /\ main' = "join"
            /\ \A i \in DOMAIN jobs : i < turn' => i < turn \/ i = turn
        BY <1>1, <1>2, <2>1
      <3> QED BY <1>1, <1>2, <3>1 DEF MainInv, JobSet, Over, InHandler
    <2>2. CASE ~(turn < Len(jobs))
      <3>1. /\ main' = IF to_file THEN "to_file" ELSE "release"
            /\ \A i \in DOMAIN jobs : i < turn \/ i = turn
        BY <1>1, <1>2, <2>2
      <3>2. \A u \in JobSet : Over(u)
        BY <1>1, <1>2, <3>1 DEF JobSet
      <3> QED BY <1>1, <1>2, <3>1, <3>2 DEF MainInv, JobSet, Over, InHandler
    <2> QED BY <2>1, <2>2
  <1> QED BY <1>3, <1>4, <1>5, <1>6, <1>7, <1>8, <1>9

(* Option -f: the package behind all others is the one of the only type.   *)
LEMMA InvRename ==
  ASSUME OtasInv, Rename
  PROVE  OtasInv'
  <1> DEFINE L == Len(ota_list)
  <1> USE DEF OtasInv, inputs
  <1>1. CASE ota_list = <<>>
    <2>1. /\ main = "to_file" /\ main' = "died" /\ ~InHandler
          /\ inputs' = inputs /\ thread' = thread /\ next' = next /\ child' = child
          /\ processes' = processes /\ ota_list' = ota_list /\ dir' = dir
          /\ output' = output /\ metadata' = metadata /\ turn' = turn /\ handler' = handler
      BY <1>1 DEF Rename
    <2>2. Typed'
      BY <2>1 DEF Typed
    <2>3. ChildrenInv' /\ DirInv'
      BY <2>1, ChildrenKept
    <2>4. RegisteredInv' /\ PassedAreStopped'
      BY <2>1 DEF RegisteredInv, PassedAreStopped, InHandler
    <2>5. ListInv'
      BY <2>1 DEF ListInv, Entries, OnceEach, LastBehind, LastAt, LastOutput, StillThere
    <2>6. PublishedInv' /\ MetadataIsTrue' /\ OutputIsWhole' /\ MainInv'
      BY <2>1 DEF PublishedInv, MetadataIsTrue, OutputIsWhole, MainInv, JobSet, InHandler
    <2> QED BY <2>2, <2>3, <2>4, <2>5, <2>6
  <1>2. CASE ota_list # <<>>
    <2>0. L \in Nat /\ L >= 1 /\ DOMAIN ota_list = 1..L /\ ota_list \in Seq(Types \X Outputs)
      BY <1>2 DEF Typed
    <2> PICK f \in Types \X Outputs : f = ota_list[L]
      BY <2>0
    <2>1. /\ main = "to_file" /\ main' = "finished" /\ ~InHandler
          /\ ota_list' = SubSeq(ota_list, 1, L - 1)
          /\ output' = dir[f] /\ dir' = [dir EXCEPT ![f] = Absent]
          /\ inputs' = inputs /\ thread' = thread /\ next' = next /\ child' = child
          /\ processes' = processes /\ metadata' = metadata
          /\ turn' = turn /\ handler' = handler
      BY <1>2 DEF Rename
    <2>2. /\ ota_list' \in Seq(Types \X Outputs) /\ DOMAIN ota_list' = 1..(L - 1)
          /\ \A i \in 1..(L - 1) : i \in 1..L /\ ota_list'[i] = ota_list[i]
      BY <2>0, <2>1
    <2> HIDE DEF L
    <2>3. f[1] \in Types /\ thread[f[1]] = "ended" /\ dir[f] = f /\ f[1] \in JobSet
      BY <2>0, <2>1 DEF ListInv, Entries, StillThere, MainInv
    <2>4. f = <<f[1], LastOutput>>
      <3>1. PICK i \in 1..L : LastAt(f[1], i)
        BY <2>0, <2>1, <2>3 DEF ListInv, LastBehind
      <3>2. i = L
        BY <2>0, <3>1 DEF LastAt
      <3> QED BY <3>1, <3>2 DEF LastAt
    <2>5. Typed'
      <3>1. dir' \in [Files -> {Absent, Old, Spoilt} \cup (Types \X Outputs)]
        BY <2>1 DEF Typed, Files
      <3> QED BY <2>1, <2>2, <3>1 DEF Typed
    <2>6. ChildrenInv' /\ DirInv'
      <3>1. \A g \in Types \X Outputs : g # f => dir'[g] = dir[g]
        BY <2>1 DEF Typed, Files
      <3>2. \A u \in Types : u # f[1] => \A o \in Outputs : dir'[<<u, o>>] = dir[<<u, o>>]
        BY <3>1
      <3>3. Own(f[1])'
        <4>1. Own(f[1])
          BY OwnFacts
        <4>2. \A o \in Outputs : child'[<<f[1], o>>] # "good"
          BY <2>1, <2>3, EndedWaited DEF AllWaited
        <4>3. GenericChild(f[1])' /\ GenericWhole(f[1])'
          BY <2>1, <2>3, <4>1 DEF Own, GenericChild, GenericWhole, AllWaited
        <4>4. ASSUME NEW i \in DOMAIN variants
              PROVE  VariantChild(f[1], i)' /\ VariantWhole(f[1], i)'
          <5>1. VariantChild(f[1], i)
            BY <4>1 DEF Own
          <5> QED BY <2>1, <2>3, <5>1 DEF VariantChild, VariantWhole, AllWaited
        <4> QED BY <2>1, <4>1, <4>2, <4>3, <4>4 DEF Own, InList
      <3> QED BY <2>1, <2>3, <3>2, <3>3, OwnOfOthers
    <2>7. RegisteredInv' /\ PassedAreStopped'
      BY <2>1 DEF RegisteredInv, PassedAreStopped, InHandler
    <2>8. ListInv'
      <3>1. Entries' /\ OnceEach'
        BY <2>0, <2>1, <2>2 DEF ListInv, Entries, OnceEach
      <3>2. LastBehind' /\ StillThere'
        BY <2>1 DEF LastBehind, StillThere
      <3> QED BY <3>1, <3>2 DEF ListInv
    <2>9. PublishedInv' /\ MetadataIsTrue'
      BY <2>1 DEF PublishedInv, MetadataIsTrue, MainInv
    <2>10. OutputIsWhole'
      BY <2>1, <2>3, <2>4 DEF OutputIsWhole, JobSet, LastOutput
    <2>11. MainInv'
      BY <2>1 DEF MainInv, JobSet, Over, InHandler
    <2> QED BY <2>5, <2>6, <2>7, <2>8, <2>9, <2>10, <2>11
  <1> QED BY <1>1, <1>2

(* Released files are none that anybody still needs under their own name.  *)
LEMMA InvPublish ==
  ASSUME OtasInv, Publish
  PROVE  OtasInv'
  <1> DEFINE L == Len(ota_list)
  <1> USE DEF OtasInv, inputs, threadVars
  <1>0. L \in Nat /\ DOMAIN ota_list = 1..L /\ turn \in Nat /\ turn >= 1 /\ turn <= L
        /\ \A i \in 1..L : ota_list[i] \in Types \X Outputs
    BY DEF Typed, Publish
  <1> PICK f \in Types \X Outputs : f = ota_list[turn]
    BY <1>0
  <1> DEFINE r == <<f[1], Released>>
  <1>1. /\ main = "release" /\ ~InHandler
        /\ dir' = [dir EXCEPT ![r] = dir[f], ![f] = Absent]
        /\ turn' = turn + 1
        /\ inputs' = inputs /\ thread' = thread /\ next' = next /\ child' = child
        /\ processes' = processes /\ ota_list' = ota_list /\ output' = output
        /\ metadata' = metadata /\ main' = main /\ handler' = handler
    BY DEF Publish
  <1>2. /\ f[1] \in Types /\ thread[f[1]] = "ended" /\ dir[f] = f
        /\ r \in Files /\ f \in Files /\ r \notin Types \X Outputs /\ r # f
    <2>1. r \in Files /\ f \in Files /\ r \notin Types \X Outputs
      BY ListFacts DEF Files, Outputs
    <2>2. dir[ota_list[turn]] = ota_list[turn]
      BY <1>0, <1>1 DEF ListInv, StillThere
    <2> QED BY <1>0, <2>1, <2>2 DEF ListInv, Entries
  <1>3. /\ dir' \in [Files -> {Absent, Old, Spoilt} \cup (Types \X Outputs)]
        /\ dir'[r] = f
        /\ \A g \in Types \X Outputs : g # f => dir'[g] = dir[g]
        /\ \A u \in Types : u # f[1] => dir'[<<u, Released>>] = dir[<<u, Released>>]
    BY <1>1, <1>2 DEF Typed, Files
  <1> HIDE DEF L, r
  <1>4. Typed'
    <2>1. turn' \in Nat \ {0}
      BY <1>0, <1>1
    <2> QED BY <1>1, <1>3, <2>1 DEF Typed
  <1>5. ChildrenInv' /\ DirInv'
    <2>1. \A u \in Types : u # f[1] => \A o \in Outputs : dir'[<<u, o>>] = dir[<<u, o>>]
      BY <1>3
    <2>2. Own(f[1])'
      <3>1. Own(f[1])
        BY <1>2, OwnFacts
      <3>2. \A o \in Outputs : child'[<<f[1], o>>] # "good"
        BY <1>1, <1>2, EndedWaited DEF AllWaited
      <3>3. GenericChild(f[1])' /\ GenericWhole(f[1])'
        BY <1>1, <1>2, <3>1 DEF Own, GenericChild, GenericWhole, AllWaited
      <3>4. ASSUME NEW i \in DOMAIN variants
            PROVE  VariantChild(f[1], i)' /\ VariantWhole(f[1], i)'
        <4>1. VariantChild(f[1], i)
          BY <3>1 DEF Own
        <4> QED BY <1>1, <1>2, <4>1 DEF VariantChild, VariantWhole, AllWaited
      <3> QED BY <1>1, <3>1, <3>2, <3>3, <3>4 DEF Own, InList
    <2> QED BY <1>1, <1>2, <2>1, <2>2, OwnOfOthers, ZenonT(30)
  <1>6. RegisteredInv' /\ PassedAreStopped'
    BY <1>1 DEF RegisteredInv, PassedAreStopped, InHandler
  <1>7. ListInv'
    <2>1. Entries' /\ OnceEach' /\ LastBehind'
      BY <1>1 DEF ListInv, Entries, OnceEach, LastBehind, LastAt, LastOutput
    <2>2. ASSUME NEW i \in 1..L, ~(i < turn + 1)
          PROVE  dir'[ota_list[i]] = ota_list[i]
      <3>1. i # turn /\ ~(i < turn)
        BY <1>0, <2>2
      <3>2. ota_list[i] # f
        BY <1>0, <3>1 DEF ListInv, OnceEach
      <3> QED BY <1>0, <1>1, <1>3, <3>1, <3>2 DEF ListInv, StillThere
    <2> QED BY <1>0, <1>1, <2>1, <2>2 DEF ListInv, StillThere
  <1>8. PublishedInv'
    <2> SUFFICES ASSUME NEW i \in 1..turn,
                        \A j \in (i + 1)..turn : ota_list[j][1] # ota_list[i][1]
                 PROVE  dir'[<<ota_list[i][1], Released>>] = ota_list[i]
      <3>1. turn' - 1 = turn /\ turn' <= L + 1
        BY <1>0, <1>1
      <3> QED BY <1>1, <3>1 DEF PublishedInv, L
    <2>1. CASE i = turn
      BY <1>3, <2>1 DEF r
    <2>2. CASE i # turn
      <3>1. i \in 1..(turn - 1) /\ turn \in (i + 1)..turn /\ i \in 1..L
        BY <1>0, <2>2
      <3>2. \A j \in (i + 1)..(turn - 1) : j \in (i + 1)..turn
        BY <1>0
      <3>3. dir[<<ota_list[i][1], Released>>] = ota_list[i]
        BY <1>1, <3>1, <3>2 DEF PublishedInv
      <3>4. ota_list[i][1] # f[1] /\ ota_list[i][1] \in Types
        BY <1>0, <3>1
      <3> QED BY <1>3, <3>3, <3>4
    <2> QED BY <2>1, <2>2
  <1>9. MetadataIsTrue' /\ OutputIsWhole' /\ MainInv'
    BY <1>1 DEF MetadataIsTrue, OutputIsWhole, MainInv, JobSet, Over, InHandler
  <1> QED BY <1>4, <1>5, <1>6, <1>7, <1>8, <1>9

(* metadata.json names the released files of the ended threads, which are  *)
(* by now the last packages of their types.                                *)
LEMMA InvWriteMetadata ==
  ASSUME OtasInv, WriteMetadata
  PROVE  OtasInv'
  <1> DEFINE L == Len(ota_list)
             S == {<<ota_list[i][1], Released>> : i \in DOMAIN ota_list}
             ended == {<<t, Released>> : t \in {u \in Types : thread[u] = "ended"}}
  <1> USE DEF OtasInv, inputs, threadVars
  <1>1. /\ main = "release" /\ ~InHandler /\ turn > L
        /\ metadata' = <<S>> /\ main' = "finished"
        /\ inputs' = inputs /\ threadVars' = threadVars /\ child' = child
        /\ processes' = processes /\ dir' = dir /\ output' = output
        /\ turn' = turn /\ handler' = handler
    BY DEF WriteMetadata
  <1>2. /\ L \in Nat /\ DOMAIN ota_list = 1..L /\ turn = L + 1
        /\ \A i \in 1..L : ota_list[i] \in Types \X Outputs
    <2>1. ota_list \in Seq(Types \X Outputs) /\ turn \in Nat
      BY DEF Typed
    <2>2. turn <= L + 1
      BY <1>1 DEF PublishedInv
    <2> QED BY <1>1, <2>1, <2>2
  <1>3. ASSUME NEW t \in Types, thread[t] = "ended"
        PROVE  /\ <<t, Released>> \in S
               /\ dir[<<t, Released>>] = <<t, LastOutput>>
    <2>1. PICK i \in 1..L : LastAt(t, i)
      BY <1>1, <1>2, <1>3 DEF ListInv, LastBehind
    <2>2. ota_list[i] = <<t, LastOutput>> /\ ota_list[i][1] = t
      BY <2>1 DEF LastAt
    <2>3. i \in 1..(turn - 1) /\ \A j \in (i + 1)..(turn - 1) : j \in 1..L /\ j > i
      BY <1>2
    <2>4. \A j \in (i + 1)..(turn - 1) : ota_list[j][1] # ota_list[i][1]
      BY <1>2, <2>1, <2>2, <2>3 DEF LastAt
    <2>5. dir[<<ota_list[i][1], Released>>] = ota_list[i]
      BY <1>1, <2>3, <2>4 DEF PublishedInv
    <2> QED BY <1>2, <2>2, <2>5
  <1>4. S = ended
    <2>1. S \subseteq ended
      BY <1>2 DEF ListInv, Entries
    <2>2. ended \subseteq S
      BY <1>3
    <2> QED BY <2>1, <2>2
  <1> HIDE DEF S
  <1>5. Typed' /\ ChildrenInv' /\ DirInv'
    BY <1>1, ChildrenKept DEF Typed
  <1>6. RegisteredInv' /\ PassedAreStopped'
    BY <1>1 DEF RegisteredInv, PassedAreStopped, InHandler
  <1>7. ListInv'
    BY <1>1 DEF ListInv, Entries, OnceEach, LastBehind, StillThere
  <1>8. PublishedInv' /\ OutputIsWhole'
    BY <1>1 DEF PublishedInv, OutputIsWhole, MainInv
  <1>9. MetadataIsTrue'
    <2>1. metadata'[1] = ended /\ thread' = thread /\ LastOutput' = LastOutput /\ dir' = dir
      BY <1>1, <1>4 DEF LastOutput
    <2>2. \A f \in ended : dir[f] = <<f[1], LastOutput>>
      BY <1>3
    <2> QED BY <2>1, <2>2 DEF MetadataIsTrue
  <1>10. MainInv'
    BY <1>1 DEF MainInv, JobSet, Over, InHandler
  <1> QED BY <1>5, <1>6, <1>7, <1>8, <1>9, <1>10

-----------------------------------------------------------------------------
(* The handler.                                                            *)

(* A step that changes nothing but the handler.                            *)
LEMMA InvInterrupt ==
  ASSUME OtasInv, Interrupt \/ Return
  PROVE  OtasInv'
  <1> USE DEF OtasInv, inputs, threadVars, mainVars
  <1>1. /\ handler' \in {1, Left}
        /\ handler' = 1 => main \in {"start", "join", "to_file", "release"}
        /\ inputs' = inputs /\ threadVars' = threadVars /\ child' = child
        /\ processes' = processes /\ dir' = dir /\ mainVars' = mainVars
    BY DEF Interrupt, Return, Left
  <1>2. handler' > 0 => handler' = 1
    BY <1>1 DEF Left
  <1>3. Typed'
    <2>1. Len(processes) \in Nat
      BY DEF Typed
    <2>2. handler' \in Left..(Len(processes) + 1)
      BY <1>1, <2>1 DEF Left
    <2> QED BY <1>1, <2>2 DEF Typed
  <1>4. ChildrenInv' /\ DirInv'
    BY <1>1, ChildrenKept
  <1>5. RegisteredInv' /\ PassedAreStopped'
    <2>1. \A i \in DOMAIN processes : ~(i < 1)
      BY DEF Typed
    <2> QED BY <1>1, <1>2, <2>1 DEF RegisteredInv, PassedAreStopped, InHandler
  <1>6. ListInv' /\ PublishedInv'
    <2>1. Entries' /\ OnceEach' /\ LastBehind'
      BY <1>1 DEF ListInv, Entries, OnceEach, LastBehind, LastAt, LastOutput
    <2>2. StillThere' /\ PublishedInv'
      BY <1>1 DEF ListInv, StillThere, PublishedInv
    <2> QED BY <2>1, <2>2 DEF ListInv
  <1>7. MetadataIsTrue' /\ OutputIsWhole'
    BY <1>1 DEF MetadataIsTrue, OutputIsWhole, JobSet, LastOutput
  <1>8. MainInv'
    BY <1>1, <1>2 DEF MainInv, JobSet, Over, InHandler
  <1> QED BY <1>3, <1>4, <1>5, <1>6, <1>7, <1>8

(* A process that is terminated is not waited for yet, so its file is none *)
(* that a thread has found good; one that was waited for ends the program. *)
LEMMA InvTerminate ==
  ASSUME OtasInv, Terminate
  PROVE  OtasInv'
  <1> DEFINE f == processes[handler]
  <1> USE DEF OtasInv, inputs, threadVars
  <1>1. /\ handler > 0 /\ handler \in Nat /\ handler <= Len(processes)
        /\ Len(processes) \in Nat /\ DOMAIN processes = 1..Len(processes)
        /\ processes[handler] \in Types \X Variants
        /\ main \in {"start", "join", "to_file", "release"}
    BY DEF Typed, Terminate, InHandler, MainInv, Left
  <1> PICK g \in Types \X Outputs : g = processes[handler] /\ g[2] \in Variants
    BY <1>1, ListFacts
  <1>2. /\ inputs' = inputs /\ threadVars' = threadVars /\ processes' = processes
        /\ output' = output /\ metadata' = metadata /\ turn' = turn
    BY DEF Terminate
  <1>3. \/ /\ child[g] = "running"
           /\ child' = [child EXCEPT ![g] = "bad"]
           /\ dir' \in {dir, [dir EXCEPT ![g] = Spoilt]}
           /\ handler' = handler + 1 /\ main' = main
        \/ /\ child[g] \in {"good", "bad"}
           /\ handler' = handler + 1
           /\ child' = child /\ dir' = dir /\ main' = main
        \/ /\ handler' = Left /\ main' = "died"
           /\ child' = child /\ dir' = dir
    BY DEF Terminate
  <1>4. /\ \A h \in Types \X Outputs : h # g => child'[h] = child[h] /\ dir'[h] = dir[h]
        /\ \A t \in Types : dir'[<<t, Released>>] = dir[<<t, Released>>]
        /\ \/ child[g] = "running" /\ child'[g] = "bad"
           \/ child'[g] = child[g] /\ dir'[g] = dir[g]
    BY <1>3, ListFacts DEF Typed, Files, Outputs
  <1>5. Typed'
    <2>1. child' \in [Types \X Outputs -> Statuses]
      BY <1>3 DEF Typed, Statuses, Started
    <2>2. dir' \in [Files -> {Absent, Old, Spoilt} \cup (Types \X Outputs)]
      BY <1>3 DEF Typed, Files
    <2>3. handler' \in Left..(Len(processes) + 1)
      BY <1>1, <1>3 DEF Left
    <2> QED BY <1>2, <1>3, <2>1, <2>2, <2>3 DEF Typed
  <1>6. ChildrenInv'
    <2>1. ASSUME NEW t \in Types PROVE GenericChild(t)'
      <3>1. <<t, Generic>> \in Types \X Outputs /\ <<t, Generic>> # g
        BY ListFacts
      <3> QED BY <1>2, <1>4, <3>1 DEF ChildrenInv, GenericChild, AllWaited
    <2>2. ASSUME NEW t \in Types, NEW i \in DOMAIN variants PROVE VariantChild(t, i)'
      <3>1. VariantChild(t, i) /\ <<t, variants[i]>> \in Types \X Outputs
        BY ListFacts DEF ChildrenInv
      <3> QED BY <1>2, <1>4, <3>1 DEF VariantChild, AllWaited, Started
    <2>3. ASSUME NEW t \in Types, NEW v \in Variants, ~InList(v)
          PROVE  child'[<<t, v>>] = "none"
      <3>1. <<t, v>> \in Types \X Outputs /\ child[<<t, v>>] = "none"
        BY <2>3, ListFacts DEF ChildrenInv
      <3> QED BY <1>4, <3>1
    <2> QED BY <1>2, <2>1, <2>2, <2>3 DEF ChildrenInv, InList
  <1>7. RegisteredInv'
    <2>1. \A k \in DOMAIN processes : processes[k] \in Types \X Outputs
      BY ListFacts DEF Typed
    <2> QED BY <1>2, <1>4, <2>1 DEF RegisteredInv
  <1>8. DirInv'
    <2>1. GoodIsWhole'
      BY <1>4 DEF DirInv, GoodIsWhole
    <2>2. ASSUME NEW t \in Types PROVE GenericWhole(t)'
      <3>1. /\ GenericWhole(t)
            /\ <<t, Generic>> \in Types \X Outputs /\ <<t, Generic>> # g
            /\ \A v \in Variants : <<t, v>> \in Types \X Outputs
        BY ListFacts DEF DirInv
      <3>2. (\E v \in Variants : child'[<<t, v>>] # "none")
              => \E v \in Variants : child[<<t, v>>] # "none"
        BY <1>4, <3>1
      <3> QED BY <1>2, <1>4, <3>1, <3>2 DEF GenericWhole
    <2>3. ASSUME NEW t \in Types, NEW i \in DOMAIN variants PROVE VariantWhole(t, i)'
      <3>1. /\ VariantChild(t, i) /\ VariantWhole(t, i)
            /\ <<t, variants[i]>> \in Types \X Outputs
        BY ListFacts DEF ChildrenInv, DirInv
      <3> QED BY <1>2, <1>4, <3>1 DEF VariantWhole, VariantChild, AllWaited, Started
    <2> QED BY <1>2, <2>1, <2>2, <2>3 DEF DirInv
  <1>9. ListInv'
    <2>1. Entries' /\ OnceEach' /\ LastBehind'
      BY <1>1, <1>2, <1>3 DEF ListInv, Entries, OnceEach, LastBehind, LastAt, LastOutput
    <2>2. ASSUME NEW i \in DOMAIN ota_list, dir[ota_list[i]] = ota_list[i]
          PROVE  dir'[ota_list[i]] = ota_list[i]
      <3>1. /\ ota_list[i] \in Types \X Outputs
            /\ ota_list[i] = <<ota_list[i][1], ota_list[i][2]>>
            /\ AllWaited(ota_list[i][1])
        BY DEF Typed, ListInv, Entries, AllWaited
      <3>2. child[ota_list[i]] \in {"none", "waited"}
        BY <3>1, EndedWaited
      <3> QED BY <1>4, <2>2, <3>1, <3>2
    <2>3. StillThere'
      BY <1>1, <1>2, <1>3, <2>2 DEF ListInv, StillThere
    <2> QED BY <2>1, <2>3 DEF ListInv
  <1>10. PublishedInv'
    <2>1. ASSUME main' = "release"
          PROVE  /\ main = "release" /\ ota_list \in Seq(Types \X Outputs)
                 /\ \A i \in 1..(turn - 1) : ota_list[i][1] \in Types
      <3>1. main = "release" /\ ota_list \in Seq(Types \X Outputs) /\ turn \in Nat
        BY <1>3, <2>1 DEF Typed
      <3>2. turn <= Len(ota_list) + 1
        BY <3>1 DEF PublishedInv
      <3> QED BY <3>1, <3>2
    <2> SUFFICES ASSUME main' = "release", NEW i \in 1..(turn - 1),
                        \A j \in (i + 1)..(turn - 1) : ota_list[j][1] # ota_list[i][1]
                 PROVE  dir'[<<ota_list[i][1], Released>>] = ota_list[i]
      BY <1>2, <2>1, ZenonT(30) DEF PublishedInv
    <2>2. dir[<<ota_list[i][1], Released>>] = ota_list[i]
      BY <2>1 DEF PublishedInv
    <2> QED BY <1>4, <2>1, <2>2
  <1>11. PassedAreStopped'
    <2> SUFFICES ASSUME handler' = handler + 1, NEW k \in 1..Len(processes), k < handler + 1
                 PROVE  child'[processes[k]] # "running"
      BY <1>1, <1>2, <1>3 DEF PassedAreStopped, InHandler, Left
    <2>1. processes[k] \in Types \X Outputs
      BY <1>1, ListFacts DEF Typed
    <2>2. child'[g] # "running"
      <3>1. handler' # Left
        BY <1>1 DEF Left
      <3> QED BY <1>3, <3>1 DEF Typed
    <2>3. CASE k = handler
      BY <2>2, <2>3
    <2>4. CASE k # handler
      <3>1. k < handler
        BY <1>1, <2>4
      <3>2. child[processes[k]] # "running"
        BY <1>1, <3>1 DEF PassedAreStopped, InHandler
      <3> QED BY <1>4, <2>1, <2>2, <3>2
    <2> QED BY <2>3, <2>4
  <1>12. MetadataIsTrue' /\ OutputIsWhole'
    BY <1>1, <1>2 DEF MainInv, MetadataIsTrue, OutputIsWhole
  <1>13. MainInv'
    BY <1>1, <1>2, <1>3 DEF MainInv, JobSet, Over, InHandler, Left
  <1> QED BY <1>5, <1>6, <1>7, <1>8, <1>9, <1>10, <1>11, <1>12, <1>13

-----------------------------------------------------------------------------
(* The theorems.                                                           *)

LEMMA InvNext == OtasInv /\ [Next]_otaVars => OtasInv'
  <1> SUFFICES ASSUME OtasInv, [Next]_otaVars PROVE OtasInv'
    OBVIOUS
  <1>1. CASE Main
    BY <1>1, InvStart, InvJoin, InvJoined, InvRename, InvPublish, InvWriteMetadata,
       InvTerminate, InvInterrupt DEF Main
  <1>2. CASE Interrupt
    BY <1>2, InvInterrupt
  <1>3. CASE \E t \in Types : Thread(t)
    BY <1>3, InvThread
  <1>4. CASE \E f \in DOMAIN child : Exit(f)
    <2>1. DOMAIN child = Types \X Outputs
      BY DEF OtasInv, Typed
    <2> QED BY <1>4, <2>1, InvExit
  <1>5. CASE UNCHANGED otaVars
    <2> USE DEF otaVars, inputs, threadVars, mainVars, OtasInv
    <2>1. Typed' /\ RegisteredInv' /\ PassedAreStopped'
      BY <1>5 DEF Typed, RegisteredInv, PassedAreStopped, InHandler
    <2>2. ChildrenInv' /\ DirInv'
      BY <1>5, ChildrenKept
    <2>3. Entries' /\ OnceEach' /\ LastBehind'
      BY <1>5 DEF ListInv, Entries, OnceEach, LastBehind, LastAt, LastOutput
    <2>4. StillThere' /\ PublishedInv'
      BY <1>5 DEF ListInv, StillThere, PublishedInv
    <2>5. MetadataIsTrue' /\ OutputIsWhole' /\ MainInv'
      BY <1>5 DEF MetadataIsTrue, OutputIsWhole, MainInv, LastOutput, JobSet, Over, InHandler
    <2> QED BY <2>1, <2>2, <2>3, <2>4, <2>5 DEF ListInv
  <1> QED BY <1>1, <1>2, <1>3, <1>4, <1>5 DEF Next, Done

(* The invariant holds of every run, fair or not.                          *)
THEOREM OtasInvariant == Spec => []OtasInv
  BY InvInit, InvNext, PTL DEF Spec

(* The variables keep their types: the loops of the threads stay in the    *)
(* list of the variants, the handler in the list of processes.             *)
THEOREM OtasTyping == Spec => []TypeOK
  <1>1. OtasInv => TypeOK
    <2> SUFFICES ASSUME OtasInv PROVE TypeOK
      OBVIOUS
    <2>1. \A t \in Types : next[t] = 1 \/ next[t] \in DOMAIN variants
      <3>1. DOMAIN variants = 1..Len(variants) /\ Len(variants) \in Nat
        BY ListFacts DEF OtasInv
      <3> SUFFICES ASSUME NEW t \in Types PROVE next[t] = 1 \/ next[t] \in DOMAIN variants
        OBVIOUS
      <3>2. next[t] \in Nat /\ next[t] # 0 /\ (next[t] = 1 \/ next[t] <= Len(variants))
        BY DEF OtasInv, Typed
      <3> QED BY <3>1, <3>2
    <2>2. \A i \in DOMAIN processes : processes[i] \in Types \X Variants
      BY DEF OtasInv, Typed
    <2>3. \A i \in DOMAIN ota_list : ota_list[i] \in Types \X Outputs
      BY DEF OtasInv, Typed
    <2> QED BY <2>1, <2>2, <2>3 DEF OtasInv, Typed, TypeOK, Places, Statuses, Started
  <1> QED BY <1>1, OtasInvariant, PTL

(* A process that derives a variant reads a whole generic package, also    *)
(* when the thread that started it has died (generate_variants).           *)
THEOREM GenericIsKept == Spec => []GenericKept
  <1>1. OtasInv => GenericKept
    <2> SUFFICES ASSUME OtasInv, NEW t \in Types, NEW v \in Variants, child[t, v] = "running"
                 PROVE  dir[t, Generic] = <<t, Generic>>
      BY DEF GenericKept
    <2>1. PICK i \in DOMAIN variants : variants[i] = v
      BY DEF OtasInv, ChildrenInv, InList
    <2>2. VariantChild(t, i) /\ thread[t] \in Places
      BY DEF OtasInv, ChildrenInv, Typed
    <2>3. thread[t] \in {"spawn", "register", "wait", "dead"}
      BY <2>1, <2>2 DEF VariantChild, AllWaited, Places
    <2>4. GenericWhole(t)
      BY DEF OtasInv, DirInv
    <2> QED BY <2>3, <2>4 DEF GenericWhole
  <1> QED BY <1>1, OtasInvariant, PTL

(* metadata.json names a whole package of this run for each type all of    *)
(* whose processes succeeded, and no others (main).                        *)
THEOREM MetadataTruth == Spec => []MetadataIsTrue
  <1>1. OtasInv => MetadataIsTrue
    BY DEF OtasInv
  <1> QED BY <1>1, OtasInvariant, PTL

(* Option -f gives a whole package of this run, or no file (main).         *)
THEOREM OutputWhole == Spec => []OutputIsWhole
  <1>1. OtasInv => OutputIsWhole
    BY DEF OtasInv
  <1> QED BY <1>1, OtasInvariant, PTL

(* What finish_all has passed does not run any more, whatever the threads  *)
(* add to the list it walks.                                               *)
THEOREM PassedStopped == Spec => []PassedAreStopped
  <1>1. OtasInv => PassedAreStopped
    BY DEF OtasInv
  <1> QED BY <1>1, OtasInvariant, PTL

(* No process of a type outlives the program unless one of them failed.    *)
THEOREM NoOrphans == Spec => []OrphansOnlyOfFailures
  <1>1. OtasInv => OrphansOnlyOfFailures
    BY EndedWaited DEF OtasInv, OrphansOnlyOfFailures, AllWaited
  <1> QED BY <1>1, OtasInvariant, PTL

-----------------------------------------------------------------------------
(* The refinement: every step of generate_otas is one of OtaBatch or none. *)
Outcome == [t \in Types |-> IF thread[t] = "ended" THEN "made"
                            ELSE IF thread[t] = "dead" THEN "failed" ELSE "open"]
ReleasedTypes == IF metadata # <<>> THEN {f[1] : f \in metadata[1]}
                 ELSE IF output # Absent THEN {output[1]} ELSE {}
BatchOver == main \in {"finished", "died"}

LEMMA RefinesInit == Init => Batch!BatchInit
  <1> SUFFICES ASSUME Init PROVE Batch!BatchInit
    OBVIOUS
  <1>1. JobSet \in SUBSET Types
    <2>1. OtasInv
      BY InvInit
    <2> QED BY <2>1, ListFacts DEF OtasInv, JobSet
  <1>2. Outcome = [t \in Types |-> "open"]
    BY DEF Init, Outcome
  <1>3. ReleasedTypes = {} /\ BatchOver = FALSE
    BY DEF Init, ReleasedTypes, BatchOver
  <1> QED BY <1>1, <1>2, <1>3 DEF Batch!BatchInit, Outcome, ReleasedTypes, BatchOver

(* A thread decides its type when it ends or dies, and nothing before.     *)
LEMMA RefinesThread ==
  ASSUME OtasInv, NEW t \in Types, Active(t), NEW w \in Places \ {"idle"},
         thread' = [thread EXCEPT ![t] = w], inputs' = inputs, mainVars' = mainVars
  PROVE  Batch!Decide \/ UNCHANGED Batch!batchVars
  <1> USE DEF inputs, mainVars
  <1>1. JobSet' = JobSet /\ ReleasedTypes' = ReleasedTypes /\ BatchOver' = BatchOver
    BY DEF JobSet, ReleasedTypes, BatchOver
  <1>2. t \in JobSet /\ Outcome[t] = "open"
    BY ActiveFacts DEF Active, Outcome
  <1>3. thread'[t] = w /\ \A u \in Types : u # t => thread'[u] = thread[u]
    BY DEF OtasInv, Typed
  <1>4. CASE w \in {"ended", "dead"}
    <2> DEFINE o == IF w = "ended" THEN "made" ELSE "failed"
    <2>1. Outcome' = [Outcome EXCEPT ![t] = o]
      BY <1>3, <1>4 DEF Outcome
    <2>2. o \in {"made", "failed"}
      OBVIOUS
    <2> HIDE DEF o
    <2>3. Batch!Decide
      BY <1>1, <1>2, <2>1, <2>2 DEF Batch!Decide, Outcome, ReleasedTypes, BatchOver
    <2> QED BY <2>3
  <1>5. CASE w \notin {"ended", "dead"}
    <2>1. Outcome' = Outcome
      BY <1>3, <1>5 DEF Outcome, Active
    <2> QED BY <1>1, <2>1 DEF Batch!batchVars, Outcome, ReleasedTypes, BatchOver
  <1> QED BY <1>4, <1>5

(* A step that leaves the mapped variables alone stutters.                 *)
LEMMA RefinesStutter ==
  ASSUME inputs' = inputs, \A u \in Types : thread[u] = "ended" <=> thread'[u] = "ended",
         \A u \in Types : thread[u] = "dead" <=> thread'[u] = "dead",
         metadata' = metadata, output' = output,
         main' \in {"finished", "died"} <=> main \in {"finished", "died"}
  PROVE  UNCHANGED Batch!batchVars
  <1>1. JobSet' = JobSet /\ ReleasedTypes' = ReleasedTypes
    BY DEF JobSet, ReleasedTypes, inputs
  <1>2. Outcome' = Outcome
    BY DEF Outcome
  <1>3. BatchOver' = BatchOver
    BY DEF BatchOver
  <1> QED BY <1>1, <1>2, <1>3 DEF Batch!batchVars, Outcome, ReleasedTypes, BatchOver

(* The packages released are those of the types that were made.            *)
LEMMA RefinesWriteMetadata ==
  ASSUME OtasInv, OtasInv', WriteMetadata
  PROVE  Batch!Release
  <1>1. /\ main = "release" /\ main' = "finished" /\ metadata' # <<>>
        /\ inputs' = inputs /\ thread' = thread
    BY DEF WriteMetadata, threadVars
  <1>2. ~BatchOver /\ BatchOver' = TRUE
    BY <1>1 DEF BatchOver
  <1>3. JobSet' = JobSet /\ Outcome' = Outcome
    BY <1>1 DEF JobSet, Outcome, inputs
  <1>4. JobSet \subseteq Types /\ \A u \in Types : thread[u] = "ended" => u \in JobSet
    BY ListFacts DEF OtasInv, MainInv, JobSet
  <1>5. \A u \in JobSet : Outcome[u] # "open"
    BY <1>1, <1>4 DEF OtasInv, MainInv, Over, Outcome
  <1>6. ReleasedTypes' = {u \in JobSet : Outcome[u] = "made"}
    <2> DEFINE ended == {u \in Types : thread[u] = "ended"}
    <2>1. metadata'[1] = {<<u, Released>> : u \in ended}
      BY <1>1 DEF OtasInv, MetadataIsTrue
    <2>2. {f[1] : f \in metadata'[1]} = ended
      <3>1. PICK files : files = metadata'[1]
        OBVIOUS
      <3>2. \A u \in ended : <<u, Released>> \in files /\ <<u, Released>>[1] = u
        BY <2>1, <3>1
      <3>3. \A f \in files : f[1] \in ended
        BY <2>1, <3>1
      <3> HIDE DEF ended
      <3>4. {f[1] : f \in files} = ended
        BY <3>2, <3>3
      <3> QED BY <3>1, <3>4
    <2>3. ended = {u \in JobSet : Outcome[u] = "made"}
      BY <1>4 DEF Outcome
    <2> QED BY <1>1, <2>2, <2>3 DEF ReleasedTypes
  <1> QED BY <1>2, <1>3, <1>5, <1>6
          DEF Batch!Release, Batch!Decided, Batch!Made, Outcome, ReleasedTypes, BatchOver

(* With option -f the only type was made, or nothing is released.          *)
LEMMA RefinesRename ==
  ASSUME OtasInv, OtasInv', Rename
  PROVE  Batch!Release \/ Batch!GiveUp
  <1>1. /\ main = "to_file" /\ main' \in {"died", "finished"}
        /\ inputs' = inputs /\ thread' = thread /\ metadata' = metadata
    BY DEF Rename
  <1>2. BatchOver = FALSE /\ BatchOver' = TRUE
    BY <1>1 DEF BatchOver
  <1>3. JobSet' = JobSet /\ Outcome' = Outcome
    BY <1>1 DEF JobSet, Outcome, inputs
  <1>4. metadata = <<>> /\ output = Absent
    BY <1>1 DEF OtasInv, MainInv
  <1>5. CASE ota_list = <<>>
    <2>1. ReleasedTypes' = ReleasedTypes
      BY <1>1, <1>5 DEF Rename, ReleasedTypes
    <2> QED BY <1>2, <1>3, <2>1 DEF Batch!GiveUp, Outcome, ReleasedTypes, BatchOver
  <1>6. CASE ota_list # <<>>
    <2>1. PICK f \in Types \X Outputs :
            /\ output' = f /\ thread[f[1]] = "ended" /\ f[1] \in JobSet
      <3>1. /\ Len(ota_list) \in DOMAIN ota_list
            /\ ota_list[Len(ota_list)] \in Types \X Outputs
        BY <1>6 DEF OtasInv, Typed
      <3>2. output' = ota_list[Len(ota_list)] /\ thread[ota_list[Len(ota_list)][1]] = "ended"
        BY <1>1, <1>6, <3>1 DEF Rename, OtasInv, ListInv, Entries, StillThere
      <3> QED BY <3>1, <3>2 DEF OtasInv, MainInv
    <2>2. JobSet = {f[1]}
      <3>1. to_file /\ Len(jobs) = 1 /\ jobs \in Seq(Types)
        BY <1>1, ListFacts DEF OtasInv, MainInv, Typed
      <3>2. DOMAIN jobs = {1}
        BY <3>1
      <3> QED BY <2>1, <3>2 DEF JobSet
    <2>3. Outcome[f[1]] = "made"
      BY <2>1 DEF Outcome
    <2>4. ReleasedTypes' = {f[1]}
      BY <1>1, <1>4, <2>1, ContentsDiffer DEF ReleasedTypes
    <2>5. /\ \A u \in JobSet : Outcome[u] # "open"
          /\ ReleasedTypes' = {u \in JobSet : Outcome[u] = "made"}
      BY <2>2, <2>3, <2>4
    <2> QED BY <1>2, <1>3, <2>5
            DEF Batch!Release, Batch!Decided, Batch!Made, Outcome, ReleasedTypes, BatchOver
  <1> QED BY <1>5, <1>6

LEMMA RefinesNext ==
  OtasInv /\ OtasInv' /\ [Next]_otaVars
    => [Batch!Decide \/ Batch!Release \/ Batch!GiveUp]_(Batch!batchVars)
  <1> SUFFICES ASSUME OtasInv, OtasInv', [Next]_otaVars
               PROVE  \/ Batch!Decide \/ Batch!Release \/ Batch!GiveUp
                      \/ UNCHANGED Batch!batchVars
    OBVIOUS
  <1>1. CASE Start
    <2>1. inputs' = inputs /\ metadata' = metadata /\ output' = output
          /\ main \notin {"finished", "died"} /\ main' \notin {"finished", "died"}
      BY <1>1 DEF Start
    <2>2. PICK t \in Types : t = jobs[turn]
      BY <1>1, ListFacts DEF OtasInv, MainInv, Start
    <2>3. thread[t] = "idle" /\ thread' = [thread EXCEPT ![t] = "build"]
      <3>1. turn \in DOMAIN jobs /\ turn >= turn
        BY <1>1 DEF OtasInv, MainInv, Start, Typed
      <3> QED BY <1>1, <2>2, <3>1 DEF OtasInv, MainInv, Start, Goto
    <2>4. /\ \A u \in Types : thread[u] = "ended" <=> thread'[u] = "ended"
          /\ \A u \in Types : thread[u] = "dead" <=> thread'[u] = "dead"
      BY <2>3 DEF OtasInv, Typed
    <2> QED BY <2>1, <2>4, RefinesStutter
  <1>2. CASE Join \/ Joined \/ Publish \/ Interrupt \/ Return
    <2>1. /\ inputs' = inputs /\ metadata' = metadata /\ output' = output /\ thread' = thread
          /\ main' \in {"finished", "died"} <=> main \in {"finished", "died"}
      BY <1>2 DEF Join, Joined, Publish, Interrupt, Return, threadVars, mainVars
    <2> QED BY <2>1, RefinesStutter
  <1>3. CASE Rename
    BY <1>3, RefinesRename
  <1>4. CASE WriteMetadata
    BY <1>4, RefinesWriteMetadata
  <1>5. CASE Terminate
    <2>1. /\ inputs' = inputs /\ metadata' = metadata /\ output' = output /\ thread' = thread
          /\ main \notin {"finished", "died"} /\ (main' = main \/ main' = "died")
      BY <1>5 DEF Terminate, threadVars, OtasInv, MainInv
    <2>2. CASE main' = main
      BY <2>1, <2>2, RefinesStutter
    <2>3. CASE main' = "died"
      <3>1. BatchOver = FALSE /\ BatchOver' = TRUE
        BY <2>1, <2>3 DEF BatchOver
      <3>2. JobSet' = JobSet /\ Outcome' = Outcome /\ ReleasedTypes' = ReleasedTypes
        BY <2>1 DEF JobSet, Outcome, ReleasedTypes, inputs
      <3> QED BY <3>1, <3>2 DEF Batch!GiveUp, Outcome, ReleasedTypes, BatchOver
    <2> QED BY <2>1, <2>2, <2>3
  <1>6. ASSUME NEW t \in Types, Thread(t)
        PROVE  Batch!Decide \/ UNCHANGED Batch!batchVars
    <2>1. Active(t) /\ inputs' = inputs /\ mainVars' = mainVars
      BY <1>6 DEF Thread, PopenFails, Build, Built, Spawn, Register, Wait, Unlink, Extend,
                  Active, Places
    <2>2. PICK w \in Places \ {"idle"} : thread' = [thread EXCEPT ![t] = w]
      BY <1>6 DEF Thread, PopenFails, Build, Built, Spawn, Register, Wait, Unlink, Extend,
                  Goto, Loop, Places
    <2> QED BY <2>1, <2>2, RefinesThread
  <1>7. CASE UNCHANGED otaVars \/ \E f \in DOMAIN child : Exit(f)
    <2>1. /\ inputs' = inputs /\ metadata' = metadata /\ output' = output /\ thread' = thread
          /\ main' = main
      BY <1>7 DEF Exit, otaVars, threadVars, mainVars
    <2> QED BY <2>1, RefinesStutter
  <1> QED BY <1>1, <1>2, <1>3, <1>4, <1>5, <1>6, <1>7 DEF Next, Main, Done

(* generate_otas implements OtaBatch: each type succeeds or fails once and *)
(* as a whole, and what is released, at once and after all are decided,    *)
(* are the packages of exactly the types that succeeded.                   *)
THEOREM ImplementsBatch == Spec => ReleasesMadeTypes
  BY OtasInvariant, RefinesInit, RefinesNext, PTL
     DEF Spec, ReleasesMadeTypes, Batch!BatchSpec
=============================================================================
