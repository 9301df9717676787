------------------------------ MODULE BuildProofs ------------------------------
(***************************************************************************)
(* What the formal tool reads, for any number of targets that are made at  *)
(* the same time, any file list and any number of builds: the proofs about *)
(* Sv2vInPlace.  Those about the CI job and about versions follow.         *)
(*                                                                         *)
(* While the hook of a target works, every file of its build root is       *)
(* determined by how far it has come (FileOf); the conversions in the      *)
(* temporary directory are pure because nothing is copied back before the  *)
(* last of them, and no other target has the same build root.              *)
(***************************************************************************)
EXTENDS Build, SequenceTheorems, TLAPS

Places == {"idle", "read", "transform", "copying", "tool", "refused", "interrupted"}

\* The hook has sources or works on them.
Working == {"read", "transform", "copying", "tool"}

Pure(i) == Contents("converted", DefinesFor(i), TRUE)

FileOf(t, i) ==
  IF i \in copied[t] THEN Pure(i)
  ELSE IF i \in emptied[t] THEN Empty
  ELSE IF Is(t, "copying") /\ First(i, sv_paths \ copied[t]) THEN Partly
  ELSE Source

DiskType == disk = [r \in { BuildRoot[t] : t \in Targets } |-> [i \in Indices |-> disk[r][i]]]

FType ==
  /\ DiskType
  /\ hook \in [Targets -> Places]
  /\ tmp = [t \in Targets |-> tmp[t]]
  /\ copied \in [Targets -> SUBSET sv_paths]
  /\ emptied \in [Targets -> SUBSET svh_paths]

\* The temporary directory.
TmpInv(t) ==
  hook[t] \in Working =>
    /\ DOMAIN tmp[t] \subseteq sv_paths
    /\ \A i \in DOMAIN tmp[t] : tmp[t][i] = Pure(i)

\* The order of the hook's parts.
OrderInv(t) ==
  /\ Is(t, "read") => copied[t] = {} /\ emptied[t] = {}
  /\ hook[t] \in Working /\ (copied[t] # {} \/ Is(t, "copying")) => DOMAIN tmp[t] = sv_paths
  /\ hook[t] \in Working /\ emptied[t] # {} => copied[t] = sv_paths
  /\ Is(t, "copying") => emptied[t] = {}
  /\ Is(t, "tool") => copied[t] = sv_paths /\ emptied[t] = svh_paths

\* The build root.
DiskInv(t) ==
  /\ hook[t] \in Working => \A i \in Indices : disk[Root(t)][i] = FileOf(t, i)
  /\ Is(t, "refused") => \A i \in Indices : disk[Root(t)][i] = Source

FInv == FType /\ \A t \in Targets : TmpInv(t) /\ OrderInv(t) /\ DiskInv(t)

-----------------------------------------------------------------------------
(* Facts.                                                                  *)

LEMMA PathFacts == /\ Indices \subseteq Int
                   /\ sv_paths \subseteq Indices /\ svh_paths \subseteq Indices
                   /\ sv_paths \cap svh_paths = {}
                   /\ pkg_paths \subseteq sv_paths
BY PathsAssumption DEF Indices, sv_paths, svh_paths, pkg_paths

LEMMA FirstIsOne == ASSUME NEW s, s \subseteq Indices, NEW i, NEW j, First(i, s), First(j, s)
                    PROVE  i = j
BY PathFacts DEF First

\* A target's build root is its own.
LEMMA Others ==
  ASSUME FInv, NEW t \in Targets, NEW u \in Targets, u # t,
         hook'[u] = hook[u], tmp'[u] = tmp[u], copied'[u] = copied[u], emptied'[u] = emptied[u],
         disk'[Root(u)] = disk[Root(u)]
  PROVE  (TmpInv(u) /\ OrderInv(u) /\ DiskInv(u))'
<1>1. \A i : FileOf(u, i)' = FileOf(u, i)
  BY DEF FileOf, Is, Root
<1>2. TmpInv(u) /\ OrderInv(u) /\ DiskInv(u)
  BY DEF FInv
<1>. QED  BY <1>1, <1>2 DEF TmpInv, OrderInv, DiskInv, Is, Root

LEMMA RootsDiffer ==
  ASSUME NEW t \in Targets, NEW u \in Targets, u # t
  PROVE  Root(u) # Root(t) /\ Root(t) \in { BuildRoot[v] : v \in Targets }
BY RootsAssumption DEF Root

\* One file is written.
LEMMA WriteFile ==
  ASSUME FType, NEW t \in Targets, NEW i \in Indices, NEW c,
         disk' = [disk EXCEPT ![Root(t)][i] = c]
  PROVE  /\ DiskType'
         /\ \A j \in Indices : disk'[Root(t)][j] = IF j = i THEN c ELSE disk[Root(t)][j]
         /\ \A u \in Targets \ {t} : disk'[Root(u)] = disk[Root(u)]
<1>1. Root(t) \in { BuildRoot[v] : v \in Targets }
  BY DEF Root
<1>2. disk[Root(t)] = [j \in Indices |-> disk[Root(t)][j]]
  BY <1>1 DEF FType, DiskType
<1>3. \A u \in Targets \ {t} : Root(u) # Root(t) /\ Root(u) \in { BuildRoot[v] : v \in Targets }
  BY RootsAssumption DEF Root
<1>4. disk' = [r \in { BuildRoot[v] : v \in Targets } |->
                 IF r = Root(t) THEN [disk[r] EXCEPT ![i] = c] ELSE disk[r]]
  BY <1>1 DEF FType, DiskType
<1>5. DiskType'
  BY <1>1, <1>2, <1>4 DEF FType, DiskType
<1>. QED  BY <1>1, <1>2, <1>3, <1>4, <1>5

-----------------------------------------------------------------------------
(* The steps of a target.                                                  *)

LEMMA ExportInv == ASSUME FInv, NEW t \in Targets, Export(t) PROVE FInv'
<1>1. FType'
  BY DEF FInv, FType, DiskType, Export, Goto, Root, Places
<1>2. ASSUME NEW u \in Targets, u # t
      PROVE  (TmpInv(u) /\ OrderInv(u) /\ DiskInv(u))'
  <2>1. disk'[Root(u)] = disk[Root(u)]
    BY <1>2, RootsDiffer DEF FInv, FType, DiskType, Export, Root
  <2>. QED  BY <1>2, <2>1, Others DEF FInv, FType, Export, Goto
<1>3. (TmpInv(t) /\ OrderInv(t) /\ DiskInv(t))'
  <2>1. /\ hook'[t] = "read" /\ tmp'[t] = <<>> /\ copied'[t] = {} /\ emptied'[t] = {}
        /\ disk'[Root(t)] = [i \in Indices |-> Source]
    BY DEF FInv, FType, DiskType, Export, Goto, Root
  <2>2. \A i \in Indices : disk'[Root(t)][i] = FileOf(t, i)'
    BY <2>1 DEF FileOf, Is
  <2>. QED  BY <2>1, <2>2 DEF TmpInv, OrderInv, DiskInv, Is, Root
<1>. QED  BY <1>1, <1>2, <1>3 DEF FInv

LEMMA ReadInv == ASSUME FInv, NEW t \in Targets, ReadLists(t) PROVE FInv'
<1>1. FType'
  BY DEF FInv, FType, DiskType, ReadLists, Goto, Places
<1>2. ASSUME NEW u \in Targets, u # t
      PROVE  (TmpInv(u) /\ OrderInv(u) /\ DiskInv(u))'
  BY <1>2, Others DEF FInv, FType, ReadLists, Goto
<1>3. (TmpInv(t) /\ OrderInv(t) /\ DiskInv(t))'
  <2>1. /\ hook[t] = "read" /\ hook'[t] \in {"transform", "refused"}
        /\ copied[t] = {} /\ emptied[t] = {}
        /\ tmp' = tmp /\ copied' = copied /\ emptied' = emptied /\ disk' = disk
    BY DEF FInv, FType, OrderInv, ReadLists, Is, Goto
  <2>2. \A i \in Indices : disk[Root(t)][i] = Source
    BY <2>1 DEF FInv, DiskInv, FileOf, Is, Working
  <2>3. \A i \in Indices : FileOf(t, i)' = Source
    BY <2>1 DEF FileOf, Is
  <2>4. DiskInv(t)'
    BY <2>1, <2>2, <2>3 DEF DiskInv, Is, Root
  <2>. QED  BY <2>1, <2>4 DEF FInv, TmpInv, OrderInv, Is, Working
<1>. QED  BY <1>1, <1>2, <1>3 DEF FInv

LEMMA TransformInv == ASSUME FInv, NEW t \in Targets, TransformOne(t) PROVE FInv'
<1>0. PICK i \in sv_paths :
        /\ First(i, sv_paths \ DOMAIN tmp[t])
        /\ \/ /\ tmp' = [tmp EXCEPT ![t] = [j \in DOMAIN tmp[t] \cup {i} |->
                                             IF j = i THEN Converted(t, i) ELSE tmp[t][j]]]
              /\ UNCHANGED hook
           \/ Goto(t, "refused") /\ UNCHANGED tmp
  BY DEF TransformOne
<1>1. FType'
  BY <1>0 DEF FInv, FType, DiskType, TransformOne, Goto, Places
<1>2. ASSUME NEW u \in Targets, u # t
      PROVE  (TmpInv(u) /\ OrderInv(u) /\ DiskInv(u))'
  BY <1>0, <1>2, Others DEF FInv, FType, TransformOne, Goto
<1>3. (TmpInv(t) /\ OrderInv(t) /\ DiskInv(t))'
  <2>1. /\ hook[t] = "transform" /\ i \notin DOMAIN tmp[t]
        /\ copied' = copied /\ emptied' = emptied /\ disk' = disk
    BY <1>0 DEF TransformOne, Is, First
  <2>2. copied[t] = {} /\ emptied[t] = {}
    BY <1>0, <2>1 DEF FInv, OrderInv, Working
  <2>3. \A j \in Indices : disk[Root(t)][j] = Source
    BY <2>1, <2>2 DEF FInv, DiskInv, FileOf, Is, Working
  <2>4. \A j \in Indices : hook'[t] # "copying" => FileOf(t, j)' = Source
    BY <2>1, <2>2 DEF FileOf, Is
  <2>5. Converted(t, i) = Pure(i)
    BY <1>0, <2>3, PathFacts DEF Converted, Pure, Inputs
  <2>6. CASE hook' = hook
    <3>1. tmp'[t] = [j \in DOMAIN tmp[t] \cup {i} |-> IF j = i THEN Pure(i) ELSE tmp[t][j]]
      BY <1>0, <2>1, <2>5, <2>6 DEF FInv, FType, Goto
    <3>2. TmpInv(t)'
      BY <1>0, <2>1, <2>6, <3>1 DEF FInv, TmpInv, Working, Pure, DefinesFor
    <3>3. OrderInv(t)'
      BY <2>1, <2>2, <2>6 DEF OrderInv, Is
    <3>4. DiskInv(t)'
      BY <2>1, <2>3, <2>4, <2>6 DEF DiskInv, Is, Root
    <3>. QED  BY <3>2, <3>3, <3>4
  <2>7. CASE Goto(t, "refused")
    <3>1. hook'[t] = "refused"
      BY <2>7 DEF FInv, FType, Goto
    <3>. QED  BY <2>1, <2>3, <3>1 DEF TmpInv, OrderInv, DiskInv, Is, Working, Root
  <2>. QED  BY <1>0, <2>6, <2>7
<1>. QED  BY <1>1, <1>2, <1>3 DEF FInv

LEMMA CopyBeginStep == ASSUME FInv, NEW t \in Targets, CopyBegin(t) PROVE FInv'
<1>0. PICK i \in DOMAIN tmp[t] : /\ First(i, DOMAIN tmp[t] \ copied[t])
                                 /\ disk' = [disk EXCEPT ![Root(t)][i] = Partly]
  BY DEF CopyBegin
<1>1. /\ hook[t] = "transform" /\ DOMAIN tmp[t] = sv_paths
      /\ First(i, sv_paths \ copied[t]) /\ i \in sv_paths /\ i \in Indices /\ i \notin copied[t]
      /\ hook' = [hook EXCEPT ![t] = "copying"]
      /\ tmp' = tmp /\ copied' = copied /\ emptied' = emptied
  BY <1>0, PathFacts DEF CopyBegin, AllTransformed, Is, Goto, First
<1>2. /\ DiskType'
      /\ \A j \in Indices : disk'[Root(t)][j] = IF j = i THEN Partly ELSE disk[Root(t)][j]
      /\ \A u \in Targets \ {t} : disk'[Root(u)] = disk[Root(u)]
  BY <1>0, <1>1, WriteFile DEF FInv
<1>3. FType'
  BY <1>1, <1>2 DEF FInv, FType, Places
<1>4. ASSUME NEW u \in Targets, u # t
      PROVE  (TmpInv(u) /\ OrderInv(u) /\ DiskInv(u))'
  BY <1>1, <1>2, <1>4, Others DEF FInv, FType
<1>5. (TmpInv(t) /\ OrderInv(t) /\ DiskInv(t))'
  <2>1. hook'[t] = "copying" /\ emptied[t] = {}
    BY <1>1 DEF FInv, FType, OrderInv, Working
  <2>2. TmpInv(t)' /\ OrderInv(t)'
    BY <1>1, <2>1 DEF FInv, TmpInv, OrderInv, Is, Working, Pure, DefinesFor
  <2>3. ASSUME NEW j \in Indices PROVE disk'[Root(t)][j] = FileOf(t, j)'
    <3>1. disk[Root(t)][j] = FileOf(t, j)
      BY <1>1 DEF FInv, DiskInv, Working
    <3>2. First(j, sv_paths \ copied[t]) <=> j = i
      BY <1>1, FirstIsOne, PathFacts
    <3>. QED  BY <1>1, <1>2, <2>1, <3>1, <3>2 DEF FileOf, Is, Pure, DefinesFor
  <2>. QED  BY <2>1, <2>2, <2>3 DEF DiskInv, Is, Root
<1>. QED  BY <1>3, <1>4, <1>5 DEF FInv

LEMMA CopyEndStep == ASSUME FInv, NEW t \in Targets, CopyEnd(t) PROVE FInv'
<1>0. PICK i \in DOMAIN tmp[t] : /\ First(i, DOMAIN tmp[t] \ copied[t])
                                 /\ disk' = [disk EXCEPT ![Root(t)][i] = tmp[t][i]]
                                 /\ copied' = [copied EXCEPT ![t] = @ \cup {i}]
  BY DEF CopyEnd
<1>1. /\ hook[t] = "copying" /\ DOMAIN tmp[t] = sv_paths
      /\ hook' = [hook EXCEPT ![t] = "transform"]
      /\ tmp' = tmp /\ emptied' = emptied /\ emptied[t] = {}
  BY DEF CopyEnd, Is, Goto, FInv, OrderInv, Working
<1>2. /\ First(i, sv_paths \ copied[t]) /\ i \in sv_paths /\ i \in Indices /\ i \notin copied[t]
      /\ tmp[t][i] = Pure(i)
  BY <1>0, <1>1, PathFacts DEF First, FInv, TmpInv, Working
<1>3. /\ DiskType'
      /\ \A j \in Indices : disk'[Root(t)][j] = IF j = i THEN Pure(i) ELSE disk[Root(t)][j]
      /\ \A u \in Targets \ {t} : disk'[Root(u)] = disk[Root(u)]
  BY <1>0, <1>2, WriteFile DEF FInv
<1>4. FType'
  BY <1>0, <1>1, <1>2, <1>3 DEF FInv, FType, Places
<1>5. ASSUME NEW u \in Targets, u # t
      PROVE  (TmpInv(u) /\ OrderInv(u) /\ DiskInv(u))'
  BY <1>0, <1>1, <1>3, <1>5, Others DEF FInv, FType
<1>6. (TmpInv(t) /\ OrderInv(t) /\ DiskInv(t))'
  <2>1. hook'[t] = "transform" /\ copied'[t] = copied[t] \cup {i}
    BY <1>0, <1>1 DEF FInv, FType
  <2>2. TmpInv(t)' /\ OrderInv(t)'
    BY <1>1, <2>1 DEF FInv, TmpInv, OrderInv, Is, Working, Pure, DefinesFor
  <2>3. ASSUME NEW j \in Indices PROVE disk'[Root(t)][j] = FileOf(t, j)'
    <3>1. disk[Root(t)][j] = FileOf(t, j)
      BY <1>1 DEF FInv, DiskInv, Working
    <3>2. First(j, sv_paths \ copied[t]) <=> j = i
      BY <1>2, FirstIsOne, PathFacts
    <3>. QED  BY <1>1, <1>2, <1>3, <2>1, <3>1, <3>2 DEF FileOf, Is, Pure, DefinesFor
  <2>. QED  BY <2>1, <2>2, <2>3 DEF DiskInv, Is, Root
<1>. QED  BY <1>4, <1>5, <1>6 DEF FInv

LEMMA HeaderInv == ASSUME FInv, NEW t \in Targets, EmptyHeader(t) PROVE FInv'
<1>0. PICK i \in svh_paths : /\ First(i, svh_paths \ emptied[t])
                             /\ disk' = [disk EXCEPT ![Root(t)][i] = Empty]
                             /\ emptied' = [emptied EXCEPT ![t] = @ \cup {i}]
  BY DEF EmptyHeader
<1>1. /\ hook[t] = "transform" /\ copied[t] = sv_paths
      /\ hook' = hook /\ tmp' = tmp /\ copied' = copied
  BY DEF EmptyHeader, Is
<1>2. i \in Indices /\ i \notin sv_paths
  BY PathFacts
<1>3. /\ DiskType'
      /\ \A j \in Indices : disk'[Root(t)][j] = IF j = i THEN Empty ELSE disk[Root(t)][j]
      /\ \A u \in Targets \ {t} : disk'[Root(u)] = disk[Root(u)]
  BY <1>0, <1>2, WriteFile DEF FInv
<1>4. FType'
  BY <1>0, <1>1, <1>3 DEF FInv, FType
<1>5. ASSUME NEW u \in Targets, u # t
      PROVE  (TmpInv(u) /\ OrderInv(u) /\ DiskInv(u))'
  BY <1>0, <1>1, <1>3, <1>5, Others DEF FInv, FType
<1>6. (TmpInv(t) /\ OrderInv(t) /\ DiskInv(t))'
  <2>1. emptied'[t] = emptied[t] \cup {i}
    BY <1>0 DEF FInv, FType
  <2>2. TmpInv(t)' /\ OrderInv(t)'
    BY <1>1, <2>1 DEF FInv, TmpInv, OrderInv, Is, Working, Pure, DefinesFor
  <2>3. ASSUME NEW j \in Indices PROVE disk'[Root(t)][j] = FileOf(t, j)'
    <3>1. disk[Root(t)][j] = FileOf(t, j)
      BY <1>1 DEF FInv, DiskInv, Working
    <3>. QED  BY <1>1, <1>2, <1>3, <2>1, <3>1 DEF FileOf, Is, Pure, DefinesFor
  <2>. QED  BY <1>1, <2>1, <2>2, <2>3 DEF DiskInv, Is, Root
<1>. QED  BY <1>4, <1>5, <1>6 DEF FInv

LEMMA ControlInv ==
  ASSUME FInv, NEW t \in Targets, RunTool(t) \/ Interrupt(t) \/ Over(t)
  PROVE  FInv'
<1>1. /\ hook' = [hook EXCEPT ![t] = IF RunTool(t) THEN "tool"
                                     ELSE IF Interrupt(t) THEN "interrupted" ELSE "idle"]
      /\ disk' = disk /\ tmp' = tmp /\ copied' = copied /\ emptied' = emptied
  BY DEF RunTool, Interrupt, Over, Goto
<1>2. FType'
  BY <1>1 DEF FInv, FType, DiskType, Places
<1>3. ASSUME NEW u \in Targets, u # t
      PROVE  (TmpInv(u) /\ OrderInv(u) /\ DiskInv(u))'
  BY <1>1, <1>3, Others DEF FInv, FType
<1>4. (TmpInv(t) /\ OrderInv(t) /\ DiskInv(t))'
  <2>1. CASE RunTool(t)
    <3>1. /\ hook[t] = "transform" /\ hook'[t] = "tool"
          /\ copied[t] = sv_paths /\ emptied[t] = svh_paths
      BY <1>1, <2>1 DEF FInv, FType, RunTool, Is
    <3>2. \A i \in Indices : FileOf(t, i)' = FileOf(t, i)
      BY <1>1, <3>1 DEF FileOf, Is, Pure, DefinesFor
    <3>3. TmpInv(t)' /\ OrderInv(t)'
      BY <1>1, <3>1 DEF FInv, TmpInv, OrderInv, Is, Working, Pure, DefinesFor
    <3>4. DiskInv(t)'
      BY <1>1, <3>1, <3>2 DEF FInv, DiskInv, Is, Working, Root
    <3>. QED  BY <3>3, <3>4
  <2>2. CASE ~RunTool(t)
    <3>1. hook'[t] \in {"interrupted", "idle"}
      BY <1>1, <2>2 DEF FInv, FType
    <3>. QED  BY <3>1 DEF TmpInv, OrderInv, DiskInv, Is, Working
  <2>. QED  BY <2>1, <2>2
<1>. QED  BY <1>2, <1>3, <1>4 DEF FInv

-----------------------------------------------------------------------------
(* The theorems about the formal targets.                                  *)

LEMMA FormalInitInv == ASSUME FormalInit PROVE FInv
BY DEF FormalInit, FInv, FType, DiskType, TmpInv, OrderInv, DiskInv, Is, Working, Places

LEMMA FormalNextInv == ASSUME FInv, [Next]_buildVars PROVE FInv'
<1>1. CASE UNCHANGED fVars
  <2>1. \A t, i : FileOf(t, i)' = FileOf(t, i)
    BY <1>1 DEF fVars, FileOf, Is, Pure, DefinesFor
  <2>2. FType'
    BY <1>1 DEF FInv, FType, DiskType, fVars
  <2>3. ASSUME NEW t \in Targets PROVE (TmpInv(t) /\ OrderInv(t) /\ DiskInv(t))'
    BY <1>1, <2>1 DEF FInv, TmpInv, OrderInv, DiskInv, fVars, Is, Root, Pure, DefinesFor
  <2>. QED  BY <2>2, <2>3 DEF FInv
<1>2. CASE FormalNext
  BY <1>2, ExportInv, ReadInv, TransformInv, CopyBeginStep, CopyEndStep, HeaderInv, ControlInv
     DEF FormalNext, Build
<1>. QED  BY <1>1, <1>2 DEF Next, buildVars

\* How far every hook has come, and what its build root holds.
THEOREM HookInvariance == Spec => []FInv
<1>1. Init => FInv
  BY FormalInitInv DEF Init
<1>. QED  BY <1>1, FormalNextInv, PTL DEF Spec

\* The formal tool reads a pure conversion of every file and empty headers, for
\* any file list and any number of targets that are made at the same time.
THEOREM ToolAlwaysReadsConversion == Spec => []ToolReadsConversion
<1>1. FInv => ToolReadsConversion
  <2>1. SUFFICES ASSUME FInv, NEW t \in Targets, Is(t, "tool"), NEW i \in Indices
                 PROVE  disk[Root(t)][i] =
                          CASE paths[i].ext = "sv"  -> Contents("converted", defines \cup paths[i].defines_if, TRUE)
                            [] paths[i].ext = "svh" -> Empty
                            [] OTHER                -> Source
    BY DEF ToolReadsConversion
  <2>2. /\ disk[Root(t)][i] = FileOf(t, i)
        /\ copied[t] = sv_paths /\ emptied[t] = svh_paths /\ ~Is(t, "copying")
    BY <2>1 DEF FInv, DiskInv, OrderInv, Working, Is
  <2>3. CASE i \in sv_paths
    <3>1. paths[i].ext = "sv" /\ paths[i].ext # "svh"
      BY <2>3 DEF sv_paths
    <3>. QED  BY <2>2, <2>3, <3>1 DEF FileOf, Pure, DefinesFor
  <2>4. CASE i \in svh_paths
    <3>1. paths[i].ext = "svh" /\ paths[i].ext # "sv" /\ i \notin sv_paths
      BY <2>4, PathFacts DEF svh_paths
    <3>. QED  BY <2>2, <2>4, <3>1 DEF FileOf
  <2>5. CASE i \notin sv_paths \cup svh_paths
    <3>1. paths[i].ext # "svh" /\ paths[i].ext # "sv"
      BY <2>5 DEF sv_paths, svh_paths
    <3>. QED  BY <2>2, <2>5, <3>1 DEF FileOf
  <2>. QED  BY <2>3, <2>4, <2>5
<1>. QED  BY <1>1, HookInvariance, PTL

\* If sv2v fails on a file, all sources are still there.
THEOREM FailureAlwaysLeavesSources == Spec => []FailureLeavesSources
<1>1. FInv => FailureLeavesSources
  BY DEF FInv, DiskInv, FailureLeavesSources
<1>. QED  BY <1>1, HookInvariance, PTL

-----------------------------------------------------------------------------
(* The CI job, for any files, configurations, tables and installations.    *)
(* The options are those of the configuration in every step but the first, *)
(* so a build that FuseSoC does not refuse has the parameters that the     *)
(* file gives to it.                                                       *)

Jobs == {"running", "green", "red"}

\* Step k of configuration i is done.
Passed(i, k) == job = "green" \/ i < n \/ (i = n /\ k < step)

RanMeant(i, s) == \E m \in Meant(Configs[i]) : [step |-> s, config |-> i, params |-> m] \in ran

CiType == /\ file \in Files \cup {Unparsable}
          /\ job \in Jobs \cup {None}
          /\ n \in 1 .. Len(Configs) /\ step \in 1 .. 5

OptsInv == job = "running" /\ step > 1 =>
             Config(n) # NoConfig /\ opts = FusesocOpts(Config(n))

FileInv == job = "green" \/ n > 1 \/ step > 1 => Accepted(file)

ChecksInv == \A i \in 1 .. Len(Configs), k \in 2 .. 4 : Passed(i, k) => RanMeant(i, Steps[k])

MarkInv == \A i \in 1 .. Len(Configs) : Passed(i, 5) /\ i \notin issues => RanMeant(i, "coremark")

CInv == CiType /\ OptsInv /\ FileInv /\ ChecksInv /\ MarkInv

LEMMA StepNames == /\ Len(Steps) = 5 /\ Steps[1] = "config"
                   /\ Steps[2] = "lint_verilator" /\ Steps[3] = "lint_verible"
                   /\ Steps[4] = "compliance" /\ Steps[5] = "coremark"
BY DEF Steps

\* A configuration that was found is one of the file's.
LEMMA Found ==
  ASSUME CiType, Config(n) # NoConfig
  PROVE  /\ Accepted(file)
         /\ \E k \in 1 .. Len(file) : file[k].name = Configs[n] /\ Config(n) = file[k].config
<1>1. Accepted(file) /\ \E k \in 1 .. Len(file) : file[k].name = Configs[n]
  BY DEF Config, parse_config
<1>2. Config(n) = file[CHOOSE k \in 1 .. Len(file) : file[k].name = Configs[n]].config
  BY <1>1 DEF Config, parse_config
<1>3. (CHOOSE k \in 1 .. Len(file) : file[k].name = Configs[n]) \in 1 .. Len(file)
      /\ file[CHOOSE k \in 1 .. Len(file) : file[k].name = Configs[n]].name = Configs[n]
  BY <1>1
<1>. QED  BY <1>1, <1>2, <1>3

\* What FuseSoC makes of the options of a configuration is what it means.
LEMMA GivenIsMeant ==
  ASSUME CInv, job = "running", step > 1
  PROVE  Given \in Meant(Configs[n])
<1>1. PICK k \in 1 .. Len(file) : file[k].name = Configs[n] /\ Config(n) = file[k].config
  BY Found DEF CInv, OptsInv
<1>2. /\ Accepted(file) /\ opts = FusesocOpts(file[k].config)
  BY <1>1, Found DEF CInv, OptsInv
<1>. DEFINE c == file[k].config
            m == [p \in DOMAIN Declared |-> IF p \in DOMAIN c THEN c[p].val ELSE Declared[p].default]
<1>3. \A p \in DOMAIN c :
        /\ c[p].val # Flag
        /\ IsBool(c[p]) => /\ c[p].val \in {0, 1}
                           /\ p \in DOMAIN Declared => Declared[p].default = 0
  BY <1>1, <1>2, FilesAssumption DEF CInv, CiType, Accepted, _verify_config
<1>4. \A o \in opts : /\ o.name \in DOMAIN c
                      /\ IsBool(c[o.name]) => c[o.name].val = 1
                      /\ o.text = IF IsBool(c[o.name]) THEN Flag ELSE c[o.name].val
  BY <1>2 DEF FusesocOpts
<1>5. \A p \in DOMAIN c : (IsBool(c[p]) => c[p].val = 1) => \E o \in opts : o.name = p
  <2>1. SUFFICES ASSUME NEW p \in DOMAIN c, IsBool(c[p]) => c[p].val = 1
                 PROVE  \E o \in opts : o.name = p
    OBVIOUS
  <2>2. [name |-> p, text |-> IF IsBool(c[p]) THEN Flag ELSE c[p].val] \in opts
    BY <1>2, <2>1 DEF FusesocOpts
  <2>. QED  BY <2>2
<1>6. ASSUME NEW p \in DOMAIN Declared PROVE Given[p] = m[p]
  <2>1. CASE \E o \in opts : o.name = p
    <3>. DEFINE o == CHOOSE o \in opts : o.name = p
    <3>1. o \in opts /\ o.name = p
      BY <2>1
    <3>2. Given[p] = IF o.text = Flag THEN 1 ELSE o.text
      BY <2>1 DEF Given
    <3>3. p \in DOMAIN c /\ (IsBool(c[p]) => c[p].val = 1)
          /\ o.text = IF IsBool(c[p]) THEN Flag ELSE c[p].val
      BY <1>4, <3>1
    <3>. HIDE DEF o, c
    <3>. QED  BY <1>3, <3>2, <3>3
  <2>2. CASE ~\E o \in opts : o.name = p
    <3>1. Given[p] = Declared[p].default
      BY <2>2 DEF Given
    <3>2. p \in DOMAIN c => IsBool(c[p]) /\ c[p].val # 1
      BY <1>5, <2>2
    <3>. HIDE DEF c
    <3>. QED  BY <1>3, <3>1, <3>2
  <2>. QED  BY <2>1, <2>2
<1>7. Given = m
  BY <1>6 DEF Given
<1>8. m \in Meant(Configs[n])
  BY <1>1 DEF Meant
<1>. QED  BY <1>7, <1>8

\* A step that passes is the only one that is done anew.
LEMMA AdvancePasses ==
  ASSUME CiType, job = "running", Advance, NEW i \in 1 .. Len(Configs), NEW k \in 2 .. 5, Passed(i, k)'
  PROVE  Passed(i, k) \/ (i = n /\ k = step)
BY ConfigsAssumption, StepNames DEF CiType, Advance, Passed

LEMMA AdvanceType ==
  ASSUME CiType, job = "running", Advance, file' = file
  PROVE  CiType' /\ (job' = "running" /\ step' > 1 => n' = n)
BY ConfigsAssumption, StepNames DEF CiType, Advance, Jobs

LEMMA FailType ==
  ASSUME CiType, job = "running", Fail, file' = file
  PROVE  CiType' /\ (\A i, k : Passed(i, k)' => Passed(i, k))
BY JobAssumption DEF CiType, Fail, Passed, Jobs

\* Nothing that was run is forgotten.
LEMMA RanStays ==
  ASSUME file' = file, ran \subseteq ran', NEW i, NEW s, RanMeant(i, s)
  PROVE  RanMeant(i, s)'
BY DEF RanMeant, Meant

LEMMA FailInv ==
  ASSUME CInv, job = "running", Fail, UNCHANGED <<ciEnv, ran, issues>>
  PROVE  CInv'
<1>1. /\ CiType' /\ job' = "red" /\ n' = n /\ step' = step
      /\ \A i, k : Passed(i, k)' => Passed(i, k)
  BY FailType DEF CInv, Fail, ciEnv
<1>2. \A i, s : RanMeant(i, s) => RanMeant(i, s)'
  BY RanStays DEF ciEnv
<1>3. OptsInv' /\ FileInv'
  BY <1>1 DEF CInv, OptsInv, FileInv, Accepted, ciEnv
<1>4. ChecksInv' /\ MarkInv'
  BY <1>1, <1>2 DEF CInv, ChecksInv, MarkInv
<1>. QED  BY <1>1, <1>3, <1>4 DEF CInv

LEMMA ConfigureInv == ASSUME CInv, Configure PROVE CInv'
<1>1. job = "running" /\ step = 1
  BY StepNames DEF CInv, CiType, Configure, At
<1>2. CASE Exits /\ Fail
  BY <1>1, <1>2, FailInv DEF Configure
<1>3. CASE ~Exits /\ Advance
  <2>1. /\ Config(n) # NoConfig /\ opts' = FusesocOpts(Config(n))
        /\ file' = file /\ ran' = ran /\ issues' = issues
    BY <1>1, <1>3 DEF Configure, Exits, ciEnv, Fail
  <2>2. CiType' /\ n' = n /\ step' = 2 /\ job' = "running"
    BY <1>1, <1>3, <2>1, AdvanceType, StepNames DEF CInv, CiType, Advance
  <2>3. Config(n)' = Config(n) /\ Accepted(file')
    BY <2>1, <2>2, Found DEF CInv, Config
  <2>4. OptsInv' /\ FileInv'
    BY <2>1, <2>2, <2>3 DEF OptsInv, FileInv
  <2>5. \A i \in 1 .. Len(Configs), k \in 2 .. 5 : Passed(i, k)' => Passed(i, k)
    BY <1>1, <1>3, AdvancePasses DEF CInv
  <2>6. \A i, s : RanMeant(i, s) => RanMeant(i, s)'
    BY <2>1, RanStays
  <2>7. ChecksInv' /\ MarkInv'
    BY <2>1, <2>5, <2>6 DEF CInv, ChecksInv, MarkInv
  <2>. QED  BY <2>2, <2>4, <2>7 DEF CInv
<1>. QED  BY <1>2, <1>3 DEF Configure

\* What a step after the first needs of the step that advances.
LEMMA LaterInv ==
  ASSUME CInv, job = "running", step > 1, Advance, UNCHANGED <<ciEnv, opts>>
  PROVE  CiType' /\ OptsInv' /\ FileInv'
<1>1. file' = file /\ opts' = opts
  BY DEF ciEnv
<1>2. CiType' /\ (job' = "running" /\ step' > 1 => n' = n)
  BY <1>1, AdvanceType DEF CInv
<1>3. Accepted(file)
  BY DEF CInv, FileInv
<1>4. Config(n) # NoConfig /\ opts = FusesocOpts(Config(n))
  BY DEF CInv, OptsInv
<1>5. n' = n => Config(n)' = Config(n)
  BY <1>1 DEF Config
<1>6. OptsInv'
  BY <1>1, <1>2, <1>4, <1>5 DEF OptsInv
<1>. QED  BY <1>1, <1>2, <1>3, <1>6 DEF FileInv

LEMMA CheckInv == ASSUME CInv, NEW s \in Checks, Check(s) PROVE CInv'
<1>1. job = "running" /\ step \in 2 .. 4 /\ Steps[step] = s
  BY StepNames DEF CInv, CiType, Check, At, Checks
<1>2. CASE Fail /\ UNCHANGED ran
  BY <1>1, <1>2, FailInv DEF Check
<1>3. CASE MayBuild(s) /\ ran' = ran \cup {Ran(Given)} /\ Advance
  <2>1. file' = file /\ issues' = issues /\ CiType' /\ OptsInv' /\ FileInv'
    BY <1>1, <1>3, LaterInv DEF Check, ciEnv
  <2>2. \A i \in 1 .. Len(Configs), k \in 2 .. 5 :
          Passed(i, k)' => Passed(i, k) \/ (i = n /\ k = step)
    BY <1>1, <1>3, AdvancePasses DEF CInv
  <2>3. \A i, r : RanMeant(i, r) => RanMeant(i, r)'
    BY <1>3, <2>1, RanStays
  <2>4. ASSUME NEW i, i = n PROVE RanMeant(i, s)'
    <3>1. Given \in Meant(Configs[i])
      BY <1>1, <2>4, GivenIsMeant
    <3>2. [step |-> s, config |-> i, params |-> Given] \in ran'
      BY <1>1, <1>3, <2>4 DEF Ran
    <3>. QED  BY <2>1, <3>1, <3>2 DEF RanMeant, Meant
  <2>5. ChecksInv'
    BY <1>1, <2>1, <2>2, <2>3, <2>4 DEF CInv, ChecksInv
  <2>6. MarkInv'
    BY <1>1, <2>1, <2>2, <2>3 DEF CInv, MarkInv
  <2>. QED  BY <2>1, <2>5, <2>6 DEF CInv
<1>. QED  BY <1>2, <1>3 DEF Check

LEMMA CoreMarkInv == ASSUME CInv, CoreMark PROVE CInv'
<1>1. job = "running" /\ step = 5 /\ Advance
  BY StepNames DEF CInv, CiType, CoreMark, At
<1>2. PICK built \in BOOLEAN, ok \in BOOLEAN :
        /\ simulator' = IF built THEN Given ELSE simulator
        /\ simulator' = None => ~ok
        /\ ran' = IF simulator' = None THEN ran ELSE ran \cup {Ran(simulator')}
        /\ issues' = IF Logged(built, ok) THEN issues \cup {n} ELSE issues
  BY DEF CoreMark
<1>3. file' = file /\ ran \subseteq ran' /\ issues \subseteq issues'
      /\ CiType' /\ OptsInv' /\ FileInv'
  BY <1>1, <1>2, LaterInv DEF CoreMark, ciEnv
<1>4. \A i \in 1 .. Len(Configs), k \in 2 .. 5 :
        Passed(i, k)' => Passed(i, k) \/ (i = n /\ k = step)
  BY <1>1, AdvancePasses DEF CInv
<1>5. \A i, s : RanMeant(i, s) => RanMeant(i, s)'
  BY <1>3, RanStays
<1>6. ASSUME NEW i, i = n, i \notin issues' PROVE RanMeant(i, "coremark")'
  <2>1. built /\ ok
    BY <1>2, <1>6 DEF Logged
  <2>2. Ran(Given) \in ran'
    BY <1>2, <2>1
  <2>3. Given \in Meant(Configs[i])
    BY <1>1, <1>6, GivenIsMeant
  <2>4. [step |-> "coremark", config |-> i, params |-> Given] \in ran'
    BY <1>1, <1>6, <2>2, StepNames DEF Ran
  <2>. QED  BY <1>3, <2>3, <2>4 DEF RanMeant, Meant
<1>7. ChecksInv'
  BY <1>1, <1>4, <1>5 DEF CInv, ChecksInv
<1>8. MarkInv'
  BY <1>3, <1>4, <1>5, <1>6 DEF CInv, MarkInv
<1>. QED  BY <1>3, <1>7, <1>8 DEF CInv

LEMMA CiInitInv == ASSUME Init PROVE CInv
BY ConfigsAssumption, JobAssumption
   DEF Init, CiInit, NoJob, CInv, CiType, OptsInv, FileInv, ChecksInv, MarkInv, Passed, Jobs

LEMMA CiNextInv == ASSUME CInv, [Next]_buildVars PROVE CInv'
<1>1. CASE UNCHANGED ciVars
  <2>1. CiType' /\ OptsInv' /\ FileInv'
    BY <1>1 DEF CInv, CiType, OptsInv, FileInv, Config, ciVars, ciEnv
  <2>2. /\ \A i, s : RanMeant(i, s)' = RanMeant(i, s)
        /\ \A i, k : Passed(i, k)' = Passed(i, k)
    BY <1>1 DEF RanMeant, Meant, Passed, ciVars, ciEnv
  <2>3. issues' = issues
    BY <1>1 DEF ciVars
  <2>4. ChecksInv' /\ MarkInv'
    BY <2>2, <2>3 DEF CInv, ChecksInv, MarkInv
  <2>. QED  BY <2>1, <2>4 DEF CInv
<1>2. CASE CiNext
  BY <1>2, ConfigureInv, CheckInv, CoreMarkInv DEF CiNext
<1>. QED  BY <1>1, <1>2 DEF Next, buildVars

\* Every step that has passed ran on the parameters of its configuration.
THEOREM JobInvariance == Spec => []CInv
<1>. QED  BY CiInitInv, CiNextInv, PTL DEF Spec

\* CoreMark was run on the configuration the step names, or an issue is logged,
\* for any files, configurations, tables and installations.
THEOREM CoreMarkAlwaysOrIssue == Spec => []CoreMarkOrIssue
<1>1. CInv => CoreMarkOrIssue
  BY DEF CInv, MarkInv, CoreMarkOrIssue, Passed, RanMeant
<1>. QED  BY <1>1, JobInvariance, PTL

\* The part of GreenMeansChecked that holds however versions are compared: a
\* job that passes has run every check on every configuration with the
\* parameters the file gives to it, and all configurations of the file set the
\* same ones.
ConfigurationsChecked ==
  job = "green" =>
    /\ Readable
    /\ \A i \in 1 .. Len(Configs), s \in Checks :
         \E m \in Meant(Configs[i]) : [step |-> s, config |-> i, params |-> m] \in ran
    /\ \A i, j \in 1 .. Len(file) : DOMAIN file[i].config = DOMAIN file[j].config

\* A green job has checked every configuration of a file without errors (the
\* steps of ci/cve2-rtl-ci-steps.yml under set -e, and cve2_config.py).
THEOREM GreenJobsCheckConfigurations == Spec => []ConfigurationsChecked
<1>1. CInv => ConfigurationsChecked
  <2>1. SUFFICES ASSUME CInv, job = "green" PROVE ConfigurationsChecked
    BY DEF ConfigurationsChecked
  <2>2. Accepted(file)
    BY <2>1 DEF CInv, FileInv
  <2>3. Readable
    BY <2>2 DEF Readable, Accepted, _verify_config
  <2>4. ASSUME NEW i \in 1 .. Len(Configs), NEW s \in Checks PROVE RanMeant(i, s)
    <3>1. PICK k \in 2 .. 4 : Steps[k] = s
      BY StepNames DEF Checks
    <3>. QED  BY <2>1, <3>1 DEF CInv, ChecksInv, Passed
  <2>5. ASSUME NEW i \in 1 .. Len(file) PROVE DOMAIN file[i].config = DOMAIN file[1].config
    <3>1. Len(file) \in Nat
      BY <2>1, <2>2, FilesAssumption DEF CInv, CiType, Accepted
    <3>2. CASE i = 1
      BY <3>2
    <3>3. CASE i \in 2 .. Len(file)
      <4>1. (DOMAIN file[1].config \ DOMAIN file[i].config)
              \cup (DOMAIN file[i].config \ DOMAIN file[1].config) = {}
        BY <2>2, <3>3 DEF Accepted, _verify_config_parameters
      <4>. QED  BY <4>1
    <3>. QED  BY <3>1, <3>2, <3>3
  <2>. QED  BY <2>3, <2>4, <2>5 DEF ConfigurationsChecked, RanMeant
<1>. QED  BY <1>1, JobInvariance, PTL

-----------------------------------------------------------------------------
(* Versions, as check_tool_requirements.py compares them.                  *)

\* The number of digits of a number of three or fewer.
LEMMA DigitsOfThree ==
  ASSUME NEW x \in 0 .. 999
  PROVE  Digits(x) = IF x < 10 THEN 1 ELSE IF x < 100 THEN 2 ELSE 3
<1>. DEFINE Is10(d) == x < 10 ^ d /\ (d = 1 \/ x >= 10 ^ (d - 1))
            P(d) == 10 ^ d
            k == IF x < 10 THEN 1 ELSE IF x < 100 THEN 2 ELSE 3
<1>1. /\ P(0) = 1 /\ P(1) = 10 /\ P(2) = 100 /\ P(3) = 1000 /\ P(4) = 10000 /\ P(5) = 100000
      /\ P(6) = 1000000
  OBVIOUS
<1>2. \A d : Is10(d) <=> x < P(d) /\ (d = 1 \/ x >= P(d - 1))
  OBVIOUS
<1>3. Digits(x) = CHOOSE d \in 1 .. 6 : Is10(d)
  BY DEF Digits
<1>. HIDE DEF P, Is10
<1>4. Is10(1) <=> x < 10
  BY <1>1, <1>2
<1>5. Is10(2) <=> x < 100 /\ x >= 10
  BY <1>1, <1>2
<1>6. Is10(3) <=> x >= 100
  BY <1>1, <1>2
<1>7. ~Is10(4) /\ ~Is10(5) /\ ~Is10(6)
  BY <1>1, <1>2
<1>8. ASSUME NEW d \in 1 .. 6
      PROVE  Is10(d) <=> d = k
  <2>1. d = 1 \/ d = 2 \/ d = 3 \/ d = 4 \/ d = 5 \/ d = 6
    OBVIOUS
  <2>. QED  BY <1>4, <1>5, <1>6, <1>7, <2>1
<1>9. k \in 1 .. 6
  OBVIOUS
<1>. HIDE DEF k
<1>10. Digits(x) = k
  BY <1>3, <1>8, <1>9
<1>. QED  BY <1>10 DEF k

\* The order of sequences of three and of five numbers.
LEMMA BeforeThree ==
  ASSUME NEW s, NEW t, Len(s) = 3
  PROVE  Before(s, t) <=> \/ s[1] < t[1]
                          \/ s[1] = t[1] /\ s[2] < t[2]
                          \/ s[1] = t[1] /\ s[2] = t[2] /\ s[3] < t[3]
<1>1. ASSUME NEW k \in 1 .. 3
      PROVE  (\A m \in 1 .. k - 1 : s[m] = t[m])
               <=> (k > 1 => s[1] = t[1]) /\ (k > 2 => s[2] = t[2])
  <2>1. k = 1 \/ k = 2 \/ k = 3
    OBVIOUS
  <2>. QED  BY <2>1
<1>. QED  BY <1>1 DEF Before

\* Of five, which Order makes of a version.
LEMMA BeforeFive ==
  ASSUME NEW s, NEW t, Len(s) = 5
  PROVE  Before(s, t) <=> \/ s[1] < t[1]
                          \/ s[1] = t[1] /\ s[2] < t[2]
                          \/ s[1] = t[1] /\ s[2] = t[2] /\ s[3] < t[3]
                          \/ s[1] = t[1] /\ s[2] = t[2] /\ s[3] = t[3] /\ s[4] < t[4]
                          \/ s[1] = t[1] /\ s[2] = t[2] /\ s[3] = t[3] /\ s[4] = t[4] /\ s[5] < t[5]
<1>1. ASSUME NEW k \in 1 .. 5
      PROVE  (\A m \in 1 .. k - 1 : s[m] = t[m])
               <=> /\ (k > 1 => s[1] = t[1]) /\ (k > 2 => s[2] = t[2])
                   /\ (k > 3 => s[3] = t[3]) /\ (k > 4 => s[4] = t[4])
  <2>1. k = 1 \/ k = 2 \/ k = 3 \/ k = 4 \/ k = 5
    OBVIOUS
  <2>. QED  BY <2>1
<1>. QED  BY <1>1 DEF Before

\* Two numbers are three, the last one 0.
LEMMA PaddedThree ==
  ASSUME NEW s \in Seq(Nat), Len(s) \in {2, 3}
  PROVE  /\ Padded(s) \in Seq(Nat) /\ Len(Padded(s)) = 3
         /\ Padded(s)[1] = s[1] /\ Padded(s)[2] = s[2]
         /\ Padded(s)[3] = IF Len(s) = 2 THEN 0 ELSE s[3]
         /\ s[1] \in Nat /\ s[2] \in Nat /\ Padded(s)[3] \in Nat
<1>1. s[1] \in Nat /\ s[2] \in Nat /\ (Len(s) = 3 => s[3] \in Nat)
  OBVIOUS
<1>2. CASE Len(s) = 2
  <2>1. Padded(s) = Append(s, 0)
    BY <1>2 DEF Padded
  <2>2. /\ Append(s, 0) \in Seq(Nat) /\ Len(Append(s, 0)) = Len(s) + 1
        /\ \A k \in 1 .. Len(s) : Append(s, 0)[k] = s[k]
        /\ Append(s, 0)[Len(s) + 1] = 0
    OBVIOUS
  <2>3. Append(s, 0)[1] = s[1] /\ Append(s, 0)[2] = s[2] /\ Append(s, 0)[3] = 0
    BY <1>2, <2>2
  <2>. HIDE DEF Padded
  <2>. QED  BY <1>1, <1>2, <2>1, <2>2, <2>3
<1>3. CASE Len(s) = 3
  <2>1. Padded(s) = s
    BY <1>3 DEF Padded
  <2>. QED  BY <1>1, <1>3, <2>1
<1>. QED  BY <1>2, <1>3

\* A version of two or three numbers, as its vendor orders it.
LEMMA OrderFive ==
  ASSUME NEW v, IsVersion(v), Len(v.nums) \in {2, 3}
  PROVE  /\ Len(Order(v)) = 5
         /\ Order(v)[1] = v.nums[1] /\ Order(v)[2] = v.nums[2]
         /\ Order(v)[3] = (IF Len(v.nums) = 2 THEN 0 ELSE v.nums[3])
         /\ Order(v)[4] = v.sp /\ Order(v)[5] = v.patch
         /\ v.nums[1] \in Nat /\ v.nums[2] \in Nat /\ Order(v)[3] \in Nat
<1>. DEFINE p == Padded(v.nums)
            e == <<v.sp, v.patch>>
<1>1. v.nums \in Seq(Nat) /\ v.sp \in Nat /\ v.patch \in Nat
  BY DEF IsVersion
<1>2. /\ p \in Seq(Nat) /\ Len(p) = 3
      /\ p[1] = v.nums[1] /\ p[2] = v.nums[2]
      /\ p[3] = IF Len(v.nums) = 2 THEN 0 ELSE v.nums[3]
      /\ v.nums[1] \in Nat /\ v.nums[2] \in Nat /\ p[3] \in Nat
  BY <1>1, PaddedThree
<1>3. e \in Seq(Nat) /\ Len(e) = 2 /\ e[1] = v.sp /\ e[2] = v.patch
  BY <1>1
<1>4. Order(v) = p \o e
  BY DEF Order
<1>. HIDE DEF p, e
<1>5. /\ Len(p \o e) = 5
      /\ (p \o e)[1] = p[1] /\ (p \o e)[2] = p[2] /\ (p \o e)[3] = p[3]
      /\ (p \o e)[4] = e[1] /\ (p \o e)[5] = e[2]
  <2>1. /\ Len(p \o e) = Len(p) + Len(e)
        /\ \A k \in 1 .. Len(p) + Len(e) :
             (p \o e)[k] = IF k <= Len(p) THEN p[k] ELSE e[k - Len(p)]
    BY <1>2, <1>3, ConcatProperties
  <2>2. Len(p) = 3 /\ Len(e) = 2
    BY <1>2, <1>3
  <2>. DEFINE f(k) == (p \o e)[k]
  <2>3. \A k \in 1 .. 5 : f(k) = IF k <= 3 THEN p[k] ELSE e[k - 3]
    BY <2>1, <2>2
  <2>. HIDE DEF f
  <2>4. /\ f(1) = p[1] /\ f(2) = p[2] /\ f(3) = p[3]
        /\ f(4) = e[4 - 3] /\ f(5) = e[5 - 3]
    BY <2>3
  <2>5. Len(p \o e) = 5
    BY <2>1, <2>2
  <2>. QED  BY <2>4, <2>5 DEF f
<1>. QED  BY <1>2, <1>3, <1>4, <1>5

\* Month, service pack and patch, compared as one number and one by one.
LEMMA JoinedOrder ==
  ASSUME NEW m \in Nat, NEW s \in 0 .. 9, NEW p \in 0 .. 99,
         NEW m1 \in Nat, NEW s1 \in 1 .. 9, NEW p1 \in 0 .. 99
  PROVE  LET less == \/ m < m1
                     \/ m = m1 /\ s < s1
                     \/ m = m1 /\ s = s1 /\ p < p1
         IN /\ Joined(m, s * 100 + p) \in Nat /\ Joined(m1, s1 * 100 + p1) \in Nat
            /\ less => Joined(m, s * 100 + p) < Joined(m1, s1 * 100 + p1)
            /\ s > 0 /\ ~less => Joined(m, s * 100 + p) >= Joined(m1, s1 * 100 + p1)
<1>. DEFINE x  == s * 100 + p
            x1 == s1 * 100 + p1
            J  == Joined(m, x)
            J1 == Joined(m1, x1)
<1>1. x \in 0 .. 999 /\ x1 \in 100 .. 999 /\ x1 \in 0 .. 999
  OBVIOUS
<1>2. /\ x < 10 => J = m * 10 + x
      /\ x >= 10 /\ x < 100 => J = m * 100 + x
      /\ x >= 100 => J = m * 1000 + x
  <2>. HIDE DEF x, x1
  <2>1. CASE x < 10
    <3>1. Digits(x) = 1
      BY <1>1, <2>1, DigitsOfThree
    <3>. QED  BY <1>1, <2>1, <3>1 DEF Joined
  <2>2. CASE x >= 10 /\ x < 100
    <3>1. Digits(x) = 2
      BY <1>1, <2>2, DigitsOfThree
    <3>. QED  BY <1>1, <2>2, <3>1 DEF Joined
  <2>3. CASE x >= 100
    <3>1. Digits(x) = 3
      BY <1>1, <2>3, DigitsOfThree
    <3>. QED  BY <1>1, <2>3, <3>1 DEF Joined
  <2>. QED  BY <1>1, <2>1, <2>2, <2>3
<1>3. J1 = m1 * 1000 + x1
  <2>. HIDE DEF x, x1
  <2>1. x1 >= 100
    BY <1>1
  <2>2. Digits(x1) = 3
    BY <1>1, <2>1, DigitsOfThree
  <2>. QED  BY <2>2 DEF Joined
<1>4. CASE s = 0
  <2>1. x < 100 /\ x = p
    BY <1>4
  <2>2. J = m * 10 + x \/ J = m * 100 + x
    <3>. HIDE DEF x, x1, J, J1
    <3>1. CASE x < 10
      BY <1>1, <1>2, <3>1
    <3>2. CASE ~(x < 10)
      BY <1>1, <1>2, <2>1, <3>2
    <3>. QED  BY <3>1, <3>2
  <2>3. J \in Nat /\ J1 \in Nat
    <3>. HIDE DEF x, x1, J, J1
    <3>. QED  BY <1>1, <1>3, <2>2
  <2>4. J <= m * 100 + x
    <3>. HIDE DEF x, x1, J, J1
    <3>. QED  BY <1>1, <2>2
  <2>5. m <= m1 => J < J1
    <3>. HIDE DEF x, J, J1
    <3>. QED  BY <1>1, <1>3, <2>1, <2>3, <2>4
  <2>. HIDE DEF J, J1
  <2>6. (\/ m < m1
         \/ m = m1 /\ s < s1
         \/ m = m1 /\ s = s1 /\ p < p1) => m <= m1
    OBVIOUS
  <2>. QED  BY <1>4, <2>3, <2>5, <2>6 DEF J, J1
<1>5. CASE s > 0
  <2>1. x \in 100 .. 999
    BY <1>5
  <2>2. J = m * 1000 + x
    <3>. HIDE DEF x, x1, J, J1
    <3>. QED  BY <1>1, <1>2, <2>1
  <2>. HIDE DEF J, J1
  <2>3. J = m * 1000 + s * 100 + p /\ J1 = m1 * 1000 + s1 * 100 + p1
    BY <1>3, <2>2
  <2>. QED  BY <2>3 DEF J, J1
<1>. QED  BY <1>4, <1>5

\* The versions that the check orders as the vendors do, for one tool.
LEMMA VcsCompared ==
  ASSUME NEW v, IsVersion(v), Len(v.nums) = 2, Fits(v),
         NEW w, IsVersion(w), Len(w.nums) = 2, Fits(w), w.sp > 0
  PROVE  LET a == <<v.nums[1], Joined(v.nums[2], v.sp * 100 + v.patch)>>
             b == <<w.nums[1], Joined(w.nums[2], w.sp * 100 + w.patch)>>
         IN /\ ~Before(Padded(a), Padded(b)) => ~Before(Order(v), Order(w))
            /\ v.sp > 0 /\ ~Before(Order(v), Order(w)) => ~Before(Padded(a), Padded(b))
<1>. DEFINE j == Joined(v.nums[2], v.sp * 100 + v.patch)
            k == Joined(w.nums[2], w.sp * 100 + w.patch)
            a == <<v.nums[1], j>>
            b == <<w.nums[1], k>>
            m == v.nums[2]
            n1 == w.nums[2]
            less == \/ m < n1
                    \/ m = n1 /\ v.sp < w.sp
                    \/ m = n1 /\ v.sp = w.sp /\ v.patch < w.patch
<1>1. /\ Len(Order(v)) = 5 /\ Order(v)[1] = v.nums[1] /\ Order(v)[2] = m /\ Order(v)[3] = 0
      /\ Order(v)[4] = v.sp /\ Order(v)[5] = v.patch /\ v.nums[1] \in Nat /\ m \in Nat
  BY OrderFive
<1>2. /\ Len(Order(w)) = 5 /\ Order(w)[1] = w.nums[1] /\ Order(w)[2] = n1 /\ Order(w)[3] = 0
      /\ Order(w)[4] = w.sp /\ Order(w)[5] = w.patch /\ w.nums[1] \in Nat /\ n1 \in Nat
  BY OrderFive
<1>3. /\ v.sp \in 0 .. 9 /\ v.patch \in 0 .. 99 /\ w.sp \in 1 .. 9 /\ w.patch \in 0 .. 99
  BY DEF Fits
<1>4. /\ j \in Nat /\ k \in Nat
      /\ less => j < k
      /\ v.sp > 0 /\ ~less => j >= k
  <2>. DEFINE s == v.sp
              p == v.patch
              s1 == w.sp
              p1 == w.patch
  <2>1. s \in 0 .. 9 /\ p \in 0 .. 99 /\ s1 \in 1 .. 9 /\ p1 \in 0 .. 99 /\ m \in Nat /\ n1 \in Nat
    BY <1>1, <1>2, <1>3
  <2>. HIDE DEF s, p, s1, p1, m, n1
  <2>2. LET l == \/ m < n1
                 \/ m = n1 /\ s < s1
                 \/ m = n1 /\ s = s1 /\ p < p1
        IN /\ Joined(m, s * 100 + p) \in Nat /\ Joined(n1, s1 * 100 + p1) \in Nat
           /\ l => Joined(m, s * 100 + p) < Joined(n1, s1 * 100 + p1)
           /\ s > 0 /\ ~l => Joined(m, s * 100 + p) >= Joined(n1, s1 * 100 + p1)
    BY <2>1, JoinedOrder
  <2>. QED  BY <2>2 DEF s, p, s1, p1, m, n1
<1>. HIDE DEF j, k
<1>5. /\ Len(Padded(a)) = 3 /\ Padded(a)[1] = v.nums[1] /\ Padded(a)[2] = j /\ Padded(a)[3] = 0
      /\ Padded(b)[1] = w.nums[1] /\ Padded(b)[2] = k /\ Padded(b)[3] = 0
  <2>1. /\ a \in Seq(Nat) /\ Len(a) = 2 /\ a[1] = v.nums[1] /\ a[2] = j
        /\ b \in Seq(Nat) /\ Len(b) = 2 /\ b[1] = w.nums[1] /\ b[2] = k
    <3>1. v.nums[1] \in Nat /\ j \in Nat /\ w.nums[1] \in Nat /\ k \in Nat
      BY <1>1, <1>2, <1>4
    <3>2. \A x, y \in Nat : /\ <<x, y>> \in Seq(Nat) /\ Len(<<x, y>>) = 2
                             /\ <<x, y>>[1] = x /\ <<x, y>>[2] = y
      OBVIOUS
    <3>. QED  BY <3>1, <3>2, Zenon
  <2>. HIDE DEF a, b
  <2>. QED  BY <2>1, PaddedThree
<1>6. Before(Padded(a), Padded(b)) <=> v.nums[1] < w.nums[1] \/ (v.nums[1] = w.nums[1] /\ j < k)
  <2>. HIDE DEF a, b
  <2>1. Before(Padded(a), Padded(b)) <=>
          \/ v.nums[1] < w.nums[1]
          \/ v.nums[1] = w.nums[1] /\ j < k
          \/ v.nums[1] = w.nums[1] /\ j = k /\ 0 < 0
    BY <1>5, BeforeThree
  <2>2. ~(0 < 0)
    OBVIOUS
  <2>. QED  BY <2>1, <2>2
<1>. HIDE DEF m, n1
<1>7. Before(Order(v), Order(w)) <=> v.nums[1] < w.nums[1] \/ (v.nums[1] = w.nums[1] /\ less)
  <2>1. Before(Order(v), Order(w)) <=>
          \/ v.nums[1] < w.nums[1]
          \/ v.nums[1] = w.nums[1] /\ m < n1
          \/ v.nums[1] = w.nums[1] /\ m = n1 /\ 0 < 0
          \/ v.nums[1] = w.nums[1] /\ m = n1 /\ v.sp < w.sp
          \/ v.nums[1] = w.nums[1] /\ m = n1 /\ v.sp = w.sp /\ v.patch < w.patch
    BY <1>1, <1>2, BeforeFive
  <2>2. ~(0 < 0)
    OBVIOUS
  <2>. QED  BY <2>1, <2>2
<1>. HIDE DEF less
<1>8. /\ ~Before(Padded(a), Padded(b)) => ~Before(Order(v), Order(w))
      /\ v.sp > 0 /\ ~Before(Order(v), Order(w)) => ~Before(Padded(a), Padded(b))
  <2>. HIDE DEF a, b
  <2>1. v.nums[1] \in Nat /\ w.nums[1] \in Nat
    BY <1>1, <1>2
  <2>2. j < k <=> ~(j >= k)
    BY <1>4
  <2>3. less => j < k
    BY <1>4
  <2>4. v.sp > 0 /\ ~less => ~(j < k)
    BY <1>4, <2>2
  <2>. QED  BY <1>6, <1>7, <2>3, <2>4, Zenon
<1>. QED  BY <1>8 DEF j, k

\* Service packs and patches are none of any other tool.
LEMMA OthersCompared ==
  ASSUME NEW v, IsVersion(v), Len(v.nums) \in {2, 3}, v.sp = 0, v.patch = 0,
         NEW w, IsVersion(w), Len(w.nums) \in {2, 3}, w.sp = 0, w.patch = 0
  PROVE  Before(Padded(v.nums), Padded(w.nums)) <=> Before(Order(v), Order(w))
<1>1. /\ Len(Order(v)) = 5
      /\ Order(v)[1] = v.nums[1] /\ Order(v)[2] = v.nums[2]
      /\ Order(v)[3] = (IF Len(v.nums) = 2 THEN 0 ELSE v.nums[3])
      /\ Order(v)[4] = 0 /\ Order(v)[5] = 0
  BY OrderFive
<1>2. /\ Order(w)[1] = w.nums[1] /\ Order(w)[2] = w.nums[2]
      /\ Order(w)[3] = (IF Len(w.nums) = 2 THEN 0 ELSE w.nums[3])
      /\ Order(w)[4] = 0 /\ Order(w)[5] = 0
  BY OrderFive
<1>3. v.nums \in Seq(Nat) /\ w.nums \in Seq(Nat)
  BY DEF IsVersion
<1>4. /\ Len(Padded(v.nums)) = 3
      /\ Padded(v.nums)[1] = v.nums[1] /\ Padded(v.nums)[2] = v.nums[2]
      /\ Padded(v.nums)[3] = IF Len(v.nums) = 2 THEN 0 ELSE v.nums[3]
  BY <1>3, PaddedThree
<1>5. /\ Padded(w.nums)[1] = w.nums[1] /\ Padded(w.nums)[2] = w.nums[2]
      /\ Padded(w.nums)[3] = IF Len(w.nums) = 2 THEN 0 ELSE w.nums[3]
  BY <1>3, PaddedThree
<1>6. ~(0 < 0)
  OBVIOUS
<1>7. /\ Padded(v.nums)[1] = Order(v)[1] /\ Padded(v.nums)[2] = Order(v)[2]
      /\ Padded(v.nums)[3] = Order(v)[3]
      /\ Padded(w.nums)[1] = Order(w)[1] /\ Padded(w.nums)[2] = Order(w)[2]
      /\ Padded(w.nums)[3] = Order(w)[3]
  BY <1>1, <1>2, <1>4, <1>5
<1>. DEFINE x == Order(v)
            y == Order(w)
<1>8. /\ Before(Padded(v.nums), Padded(w.nums)) <=>
           \/ x[1] < y[1]
           \/ x[1] = y[1] /\ x[2] < y[2]
           \/ x[1] = y[1] /\ x[2] = y[2] /\ x[3] < y[3]
  BY <1>4, <1>7, BeforeThree
<1>9. /\ Before(x, y) <=>
           \/ x[1] < y[1]
           \/ x[1] = y[1] /\ x[2] < y[2]
           \/ x[1] = y[1] /\ x[2] = y[2] /\ x[3] < y[3]
           \/ x[1] = y[1] /\ x[2] = y[2] /\ x[3] = y[3] /\ x[4] < y[4]
           \/ x[1] = y[1] /\ x[2] = y[2] /\ x[3] = y[3] /\ x[4] = y[4] /\ x[5] < y[5]
  BY <1>1, BeforeFive
<1>. QED  BY <1>1, <1>2, <1>6, <1>8, <1>9

\* The check of one tool is right: it passes only a version that is recent
\* enough, and every such version whose form it knows.
LEMMA GoodExact ==
  ASSUME NEW t, NEW req, NEW v, v # Unavailable, IsVersion(v), IsVersion(req.min_version),
         t = "vcs" => Fits(v) /\ Fits(req.min_version) /\ req.min_version.sp > 0
  PROVE  /\ Good(t, req, v) => ~Before(Order(v), Order(req.min_version))
         /\ /\ ~Before(Order(v), Order(req.min_version))
            /\ IsStrict(to_semver(t, req.min_version, TRUE))
            /\ Comparable(t, v)
            => Good(t, req, v)
<1>. DEFINE w   == req.min_version
            min == to_semver(t, w, TRUE)
            act == to_semver(t, v, FALSE)
<1>1. Good(t, req, v) <=> IsStrict(min) /\ IsStrict(act) /\ ~Before(Padded(act), Padded(min))
  BY DEF Good, TooOld
<1>2. /\ v.nums \in Seq(Nat) /\ v.sp \in Nat /\ v.patch \in Nat /\ Len(v.nums) \in Nat
      /\ v.sp > 0 => Len(v.nums) = 2
      /\ v.tail = "hash" => Len(v.nums) = 3 /\ v.sp = 0 /\ v.patch = 0
  BY DEF IsVersion
<1>3. /\ w.nums \in Seq(Nat) /\ w.sp \in Nat /\ w.patch \in Nat /\ Len(w.nums) \in Nat
      /\ w.sp > 0 => Len(w.nums) = 2
      /\ w.tail = "hash" => Len(w.nums) = 3 /\ w.sp = 0 /\ w.patch = 0
  BY DEF IsVersion
<1>4. ~IsStrict(Bad)
  BY DEF IsStrict, Bad
<1>5. CASE t = "vcs"
  <2>. DEFINE x == <<v.nums[1], Joined(v.nums[2], v.sp * 100 + v.patch)>>
              y == <<w.nums[1], Joined(w.nums[2], w.sp * 100 + w.patch)>>
  <2>1. act = IF Len(v.nums) # 2 THEN Bad ELSE x
    BY <1>5 DEF to_semver, VcsSemver
  <2>2. min = IF Len(w.nums) # 2 \/ w.tail # "" THEN Bad ELSE y
    BY <1>5 DEF to_semver, VcsSemver
  <2>3. IsStrict(x) /\ IsStrict(y)
    BY DEF IsStrict
  <2>4. Len(w.nums) = 2 /\ Fits(v) /\ Fits(w) /\ w.sp > 0
    BY <1>3, <1>5
  <2>5. Comparable(t, v) <=> v.sp > 0
    BY <1>5 DEF Comparable
  <2>6. Len(v.nums) = 2 =>
          /\ ~Before(Padded(x), Padded(y)) => ~Before(Order(v), Order(w))
          /\ v.sp > 0 /\ ~Before(Order(v), Order(w)) => ~Before(Padded(x), Padded(y))
    BY <2>4, VcsCompared
  <2>. HIDE DEF w, x, y, min, act
  <2>. QED  BY <1>1, <1>2, <1>4, <2>1, <2>2, <2>3, <2>5, <2>6 DEF w, min
<1>6. CASE t = "verible"
  <2>1. act = IF Len(v.nums) = 3 /\ v.tail = "hash" THEN v.nums ELSE Bad
    BY <1>6 DEF to_semver, VeribleSemver
  <2>2. min = IF Len(w.nums) = 3 /\ w.tail = "hash" THEN w.nums ELSE Bad
    BY <1>6 DEF to_semver, VeribleSemver
  <2>3. Comparable(t, v) <=> v.tail = "hash"
    BY <1>6 DEF Comparable
  <2>4. /\ v.tail = "hash" => IsStrict(v.nums)
        /\ w.tail = "hash" => IsStrict(w.nums)
    BY <1>2, <1>3 DEF IsStrict
  <2>5. v.tail = "hash" /\ w.tail = "hash" =>
          (Before(Padded(v.nums), Padded(w.nums)) <=> Before(Order(v), Order(w)))
    BY <1>2, <1>3, OthersCompared
  <2>. HIDE DEF w, min, act
  <2>6. IsStrict(min) => w.tail = "hash" /\ min = w.nums
    BY <1>4, <2>2
  <2>7. IsStrict(act) => v.tail = "hash" /\ act = v.nums
    BY <1>4, <2>1
  <2>8. v.tail = "hash" => act = v.nums
    BY <1>2, <2>1
  <2>. QED  BY <1>1, <2>3, <2>4, <2>5, <2>6, <2>7, <2>8 DEF w, min
<1>7. CASE t \notin {"vcs", "verible"}
  <2>1. act = IF v.sp = 0 /\ v.patch = 0 /\ v.tail = "" THEN v.nums ELSE Bad
    BY <1>7 DEF to_semver, PlainSemver
  <2>2. min = IF w.sp = 0 /\ w.patch = 0 /\ w.tail = "" THEN w.nums ELSE Bad
    BY <1>7 DEF to_semver, PlainSemver
  <2>3. Comparable(t, v) <=> IsStrict(act)
    BY <1>7 DEF Comparable, to_semver
  <2>4. IsStrict(act) => v.sp = 0 /\ v.patch = 0 /\ act = v.nums /\ Len(v.nums) \in {2, 3}
    BY <1>4, <2>1 DEF IsStrict
  <2>5. IsStrict(min) => w.sp = 0 /\ w.patch = 0 /\ min = w.nums /\ Len(w.nums) \in {2, 3}
    BY <1>4, <2>2 DEF IsStrict
  <2>6. IsStrict(act) /\ IsStrict(min) =>
          (Before(Padded(v.nums), Padded(w.nums)) <=> Before(Order(v), Order(w)))
    BY <2>4, <2>5, OthersCompared
  <2>. HIDE DEF w, min, act
  <2>. QED  BY <1>1, <2>3, <2>4, <2>5, <2>6 DEF w, min
<1>. QED  BY <1>5, <1>6, <1>7

-----------------------------------------------------------------------------
(* The check of all tools.                                                 *)

\* So it is for every tool of the table of a job, whatever is installed.
LEMMA ToolExact ==
  ASSUME VcsComparable, table \in Tables, installed \in Installations, table # Malformed,
         NEW t \in DOMAIN table, ~ReqErr(table[t])
  PROVE  /\ Good(t, Req(table[t]), installed[t]) => RecentEnough(t)
         /\ /\ RecentEnough(t)
            /\ IsStrict(to_semver(t, Req(table[t]).min_version, TRUE))
            /\ Comparable(t, installed[t])
            => Good(t, Req(table[t]), installed[t])
<1>. DEFINE req == Req(table[t])
            v   == installed[t]
<1>1. IsVersion(req.min_version) /\ t \in DOMAIN installed
  BY VersionsAssumption
<1>2. v # Unavailable => IsVersion(v)
  BY <1>1, VersionsAssumption
<1>3. t = "vcs" /\ v # Unavailable =>
        Fits(v) /\ Fits(req.min_version) /\ req.min_version.sp > 0
  BY <1>1 DEF VcsComparable
<1>4. RecentEnough(t) <=> v # Unavailable /\ ~Before(Order(v), Order(req.min_version))
  BY DEF RecentEnough
<1>5. Good(t, req, v) => v # Unavailable
  BY DEF Good
<1>6. v # Unavailable =>
         /\ Good(t, req, v) => ~Before(Order(v), Order(req.min_version))
         /\ /\ ~Before(Order(v), Order(req.min_version))
            /\ IsStrict(to_semver(t, req.min_version, TRUE))
            /\ Comparable(t, v)
            => Good(t, req, v)
  <2>. SUFFICES ASSUME v # Unavailable
                PROVE  /\ Good(t, req, v) => ~Before(Order(v), Order(req.min_version))
                       /\ /\ ~Before(Order(v), Order(req.min_version))
                          /\ IsStrict(to_semver(t, req.min_version, TRUE))
                          /\ Comparable(t, v)
                          => Good(t, req, v)
    OBVIOUS
  <2>1. IsVersion(v) /\ (t = "vcs" => Fits(v) /\ Fits(req.min_version) /\ req.min_version.sp > 0)
    BY <1>2, <1>3
  <2>. HIDE DEF req, v
  <2>. QED  BY <1>1, <2>1, GoodExact
<1>. QED  BY <1>4, <1>5, <1>6

\* The check passes only with tools that are recent enough.
LEMMA AllGoodRecent ==
  ASSUME VcsComparable, table \in Tables, installed \in Installations,
         NEW tools, all_good(table, tools, installed)
  PROVE  \A t \in Required(tools) : RecentEnough(t)
<1>1. /\ table # Malformed /\ \A t \in DOMAIN table : ~ReqErr(table[t])
      /\ missing_tools(table, tools, installed) = {} /\ pending_tools(table, tools) = {}
  BY DEF all_good
<1>2. SUFFICES ASSUME NEW t \in Required(tools) PROVE RecentEnough(t)
  OBVIOUS
<1>3. t \in Checked(table, tools) /\ t \in DOMAIN table
  BY <1>1, <1>2 DEF Required, Checked, pending_tools
<1>4. Good(t, Req(table[t]), installed[t])
  BY <1>1, <1>3 DEF missing_tools
<1>. QED  BY <1>1, <1>3, <1>4, ToolExact

\* With such tools, of versions it knows, it does pass.
LEMMA RecentAllGood ==
  ASSUME VcsComparable, table \in Tables, installed \in Installations,
         table # Malformed, \A t \in DOMAIN table : ~ReqErr(table[t]),
         NEW tools \in SUBSET DOMAIN table,
         \A t \in Required(tools) :
            /\ RecentEnough(t)
            /\ IsStrict(to_semver(t, Req(table[t]).min_version, TRUE))
            /\ Comparable(t, installed[t])
  PROVE  all_good(table, tools, installed)
<1>1. ASSUME NEW t \in Checked(table, tools)
      PROVE  Good(t, Req(table[t]), installed[t])
  <2>1. t \in DOMAIN table /\ t \in Required(tools)
    BY <1>1 DEF Checked, Required
  <2>. QED  BY <2>1, ToolExact
<1>2. pending_tools(table, tools) = {}
  BY DEF pending_tools, Checked
<1>3. missing_tools(table, tools, installed) = {}
  BY <1>1 DEF missing_tools
<1>. QED  BY <1>2, <1>3 DEF all_good

\* What the CI job keeps of its environment, and that the check of the tools
\* has passed before the second configuration.
ToolsInv ==
  /\ job # None => table \in Tables /\ installed \in Installations
  /\ job = "green" \/ (job = "running" /\ (n > 1 \/ step > 2)) => all_good(table, {}, installed)

\* The core that Verilator lints has the hook, by way of its tracer, the
\* assertion macros of that, and the waivers of those.
LEMMA LintIsHooked == Tool("lint_verilator") = "verilator" /\ Core["lint_verilator"] \in Hooked
<1>1. ASSUME NEW cores \in SUBSET DOMAIN depend, "vcve2_top_tracing" \in cores, Closed(cores)
      PROVE  "check_tool_requirements" \in cores
  <2>1. "vcve2_tracer" \in cores
    BY <1>1 DEF Closed, depend
  <2>2. "prim_assert" \in cores
    BY <1>1, <2>1 DEF Closed, depend
  <2>3. "lint_common" \in cores
    BY <1>1, <2>2 DEF Closed, depend
  <2>. QED  BY <1>1, <2>3 DEF Closed, depend
<1>2. "vcve2_top_tracing" \in DOMAIN depend
  BY DEF depend
<1>. QED  BY <1>1, <1>2 DEF Tool, Core, Hooked, Needs

\* No job has an environment at first.
LEMMA ToolsInit == Init => ToolsInv
BY ConfigsAssumption, JobAssumption DEF Init, CiInit, NoJob, ToolsInv

\* Verilator's lint, the second step of a configuration, has the tools checked.
LEMMA ToolsStep == CInv /\ ToolsInv /\ [Next]_buildVars => ToolsInv'
<1>. SUFFICES ASSUME CInv, ToolsInv, [Next]_buildVars PROVE ToolsInv'
  OBVIOUS
<1>1. CASE UNCHANGED ciVars
  BY <1>1 DEF ToolsInv, ciVars, ciEnv
<1>2. CASE job = "running" /\ CiNext
  <2>1. table' = table /\ installed' = installed
    BY <1>2 DEF CiNext, Configure, Check, CoreMark, ciEnv
  <2>2. step \in 1 .. 5 /\ n \in 1 .. Len(Configs) /\ job # None
    BY <1>2, JobAssumption DEF CInv, CiType
  <2>3. CASE Fail
    BY <1>2, <2>1, <2>2, <2>3 DEF ToolsInv, Fail
  <2>4. CASE Advance /\ step = 1
    BY <1>2, <2>1, <2>2, <2>4, StepNames, ConfigsAssumption DEF ToolsInv, Advance
  <2>5. CASE Advance /\ step = 2
    <3>1. MayBuild("lint_verilator")
      <4>1. Steps[step] = "lint_verilator"
        BY <2>5, StepNames
      <4>2. PICK s \in Checks : Check(s)
        BY <1>2, <4>1 DEF CiNext, Configure, CoreMark, At
      <4>3. s = "lint_verilator"
        BY <4>1, <4>2 DEF Check, At
      <4>4. ~Fail
        BY <1>2, <2>2, <2>5, JobAssumption, StepNames DEF Advance, Fail
      <4>. QED  BY <4>2, <4>3, <4>4 DEF Check
    <3>2. all_good(table, {}, installed)
      BY <3>1, LintIsHooked DEF MayBuild, Hook
    <3>. QED  BY <1>2, <2>1, <2>2, <3>2 DEF ToolsInv
  <2>6. CASE Advance /\ step > 2
    BY <1>2, <2>1, <2>2, <2>6 DEF ToolsInv
  <2>. QED  BY <1>2, <2>2, <2>3, <2>4, <2>5, <2>6 DEF CiNext, Configure, Check, CoreMark
<1>. QED  BY <1>1, <1>2 DEF Next, buildVars

\* The check of the tools passes only with tools that are recent enough, and with
\* those of a form it knows it does pass, for any tables and installations whose
\* releases of VCS fit (all_good and to_semver of check_tool_requirements.py).
THEOREM CheckAlwaysExact == ASSUME VcsComparable PROVE Spec => []CheckExact
<1>1. ToolsInv => CheckExact
  <2>. SUFFICES ASSUME ToolsInv, job = "running" PROVE CheckExact
    BY DEF CheckExact
  <2>1. table \in Tables /\ installed \in Installations
    BY JobAssumption DEF ToolsInv
  <2>2. \A tools \in SUBSET DOMAIN installed :
          all_good(table, tools, installed) => \A t \in Required(tools) : RecentEnough(t)
    BY <2>1, AllGoodRecent
  <2>3. table # Malformed /\ (\A t \in DOMAIN table : ~ReqErr(table[t])) =>
          \A tools \in SUBSET DOMAIN table :
            (\A t \in Required(tools) :
               /\ RecentEnough(t)
               /\ IsStrict(to_semver(t, Req(table[t]).min_version, TRUE))
               /\ Comparable(t, installed[t]))
            => all_good(table, tools, installed)
    BY <2>1, RecentAllGood
  <2>. QED  BY <2>2, <2>3 DEF CheckExact
<1>2. Init => CInv
  BY CiInitInv
<1>3. CInv /\ [Next]_buildVars => CInv'
  BY CiNextInv
<1>. QED  BY <1>1, <1>2, <1>3, ToolsInit, ToolsStep, PTL DEF Spec

\* A job that passes has run every check on every configuration, with the
\* parameters of the file and by tools that are recent enough, for any files,
\* configurations and tools, with releases of VCS that fit.
THEOREM GreenAlwaysMeansChecked == ASSUME VcsComparable PROVE Spec => []GreenMeansChecked
<1>1. ToolsInv /\ ConfigurationsChecked => GreenMeansChecked
  <2>. SUFFICES ASSUME ToolsInv, ConfigurationsChecked, job = "green" PROVE GreenMeansChecked
    BY DEF GreenMeansChecked
  <2>1. table \in Tables /\ installed \in Installations /\ all_good(table, {}, installed)
    BY JobAssumption DEF ToolsInv
  <2>2. \A t \in Required({}) : RecentEnough(t)
    BY <2>1, AllGoodRecent
  <2>. QED  BY <2>2 DEF ConfigurationsChecked, GreenMeansChecked
<1>2. Init => CInv
  BY CiInitInv
<1>3. CInv /\ [Next]_buildVars => CInv'
  BY CiNextInv
<1>. QED  BY <1>1, <1>2, <1>3, ToolsInit, ToolsStep, GreenJobsCheckConfigurations, PTL DEF Spec
=============================================================================
