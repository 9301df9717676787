----------------------------- MODULE Sv2vInPlace -----------------------------
(***************************************************************************)
(* util/sv2v_in_place.py: the hook of the formal flows that converts the   *)
(* sources FuseSoC has copied into a build root from SystemVerilog to      *)
(* Verilog, in place.  Several targets are made in parallel, each in a     *)
(* build root of its own (formal/data_ind_timing/Makefile); a build that   *)
(* has failed or was interrupted is started again.                         *)
(*                                                                         *)
(* A file's contents are what it is: the source, a conversion with some    *)
(* defines, empty, or partly written.  A conversion is pure if everything  *)
(* that sv2v read for it was a source.                                     *)
(*                                                                         *)
(* External: FuseSoC, sv2v, which may fail, and the formal tool.           *)
(***************************************************************************)
EXTENDS Integers, Sequences

CONSTANTS Targets,      \* the builds
          BuildRoot,    \* the build root of each
          paths,        \* the file list: for each path its extension, whether it
                        \* is a package, and the defines that --define-if adds
          defines,      \* --define
          MaxBuilds     \* bound: builds of a target

ASSUME PathsAssumption == Len(paths) \in Nat

\* Every target is built in a build root of its own.
ASSUME RootsAssumption ==
  \A t, u \in Targets : BuildRoot[t] = BuildRoot[u] => t = u

VARIABLES
  disk,                 \* the contents of the files in every build root
  hook,                 \* where the build of each target is
  tmp,                  \* the temporary directory: the conversions of some files
  copied, emptied,      \* which of them were copied back, which headers emptied
  builds                \* how often the target was built

fVars == <<disk, hook, tmp, copied, emptied, builds>>

Contents(kind, defs, pure) == [kind |-> kind, defines |-> defs, pure |-> pure]

Source  == Contents("source", {}, TRUE)
Empty   == Contents("empty", {}, TRUE)
Partly  == Contents("partial", {}, FALSE)

-----------------------------------------------------------------------------
(* The file list.                                                          *)

Indices == 1 .. Len(paths)

sv_paths  == { i \in Indices : paths[i].ext = "sv" }
svh_paths == { i \in Indices : paths[i].ext = "svh" }
pkg_paths == { i \in sv_paths : paths[i].pkg }

\* The list keeps its order: i is the next file of those in s.
First(i, s) == i \in s /\ \A j \in s : i <= j

DefinesFor(i) == defines \cup paths[i].defines_if

\* mutant: one build root for all targets.
OneRoot(t) == BuildRoot[CHOOSE u \in Targets : TRUE]

Root(t) == BuildRoot[t]

\* What sv2v reads to convert a file.
Inputs(i) == pkg_paths \cup {i} \cup svh_paths

-----------------------------------------------------------------------------
(* A build.                                                                *)

Is(t, place) == hook[t] = place
Goto(t, place) == hook' = [hook EXCEPT ![t] = place]

\* FuseSoC copies the sources.
Export(t) ==
  /\ Is(t, "idle") /\ builds[t] < MaxBuilds
  /\ builds' = [builds EXCEPT ![t] = @ + 1]
  /\ disk' = [disk EXCEPT ![Root(t)] = [i \in Indices |-> Source]]
  /\ tmp' = [tmp EXCEPT ![t] = <<>>]
  /\ copied' = [copied EXCEPT ![t] = {}]
  /\ emptied' = [emptied EXCEPT ![t] = {}]
  /\ Goto(t, "read")

\* Both lists are read, or the hook fails.
ReadLists(t) ==
  /\ Is(t, "read")
  /\ Goto(t, "transform") \/ Goto(t, "refused")
  /\ UNCHANGED <<disk, tmp, copied, emptied, builds>>

\* mutant: a file is copied back as soon as it is converted.
SomeTransformed(t) == copied[t] # DOMAIN tmp[t]

AllTransformed(t) == DOMAIN tmp[t] = sv_paths

\* transform_one
Converted(t, i) ==
  Contents("converted", DefinesFor(i), \A j \in Inputs(i) : disk[Root(t)][j] = Source)

\* Every file is converted into the temporary directory, or the hook fails.
TransformOne(t) ==
  /\ Is(t, "transform")
  /\ \E i \in sv_paths :
       /\ First(i, sv_paths \ DOMAIN tmp[t])
       /\ \/ /\ tmp' = [tmp EXCEPT ![t] = [j \in DOMAIN tmp[t] \cup {i} |->
                                             IF j = i THEN Converted(t, i) ELSE tmp[t][j]]]
             /\ UNCHANGED hook
          \/ Goto(t, "refused") /\ UNCHANGED tmp
  /\ UNCHANGED <<disk, copied, emptied, builds>>

\* Then all are copied back.
CopyBegin(t) ==
  /\ Is(t, "transform") /\ AllTransformed(t)
  /\ \E i \in DOMAIN tmp[t] :
       /\ First(i, DOMAIN tmp[t] \ copied[t])
       /\ disk' = [disk EXCEPT ![Root(t)][i] = Partly]
  /\ Goto(t, "copying")
  /\ UNCHANGED <<tmp, copied, emptied, builds>>

CopyEnd(t) ==
  /\ Is(t, "copying")
  /\ \E i \in DOMAIN tmp[t] :
       /\ First(i, DOMAIN tmp[t] \ copied[t])
       /\ disk' = [disk EXCEPT ![Root(t)][i] = tmp[t][i]]
       /\ copied' = [copied EXCEPT ![t] = @ \cup {i}]
  /\ Goto(t, "transform")
  /\ UNCHANGED <<tmp, emptied, builds>>

\* And the headers are emptied.
EmptyHeader(t) ==
  /\ Is(t, "transform") /\ copied[t] = sv_paths
  /\ \E i \in svh_paths :
       /\ First(i, svh_paths \ emptied[t])
       /\ disk' = [disk EXCEPT ![Root(t)][i] = Empty]
       /\ emptied' = [emptied EXCEPT ![t] = @ \cup {i}]
  /\ UNCHANGED <<hook, tmp, copied, builds>>

\* The hook ends without an error, and FuseSoC starts the tool.
RunTool(t) ==
  /\ Is(t, "transform") /\ copied[t] = sv_paths /\ emptied[t] = svh_paths
  /\ Goto(t, "tool")
  /\ UNCHANGED <<disk, tmp, copied, emptied, builds>>

\* Somebody interrupts the hook, the disk is full, or sv2v is not installed.
Interrupt(t) ==
  /\ hook[t] \notin {"idle", "tool", "refused"}
  /\ Goto(t, "interrupted")
  /\ UNCHANGED <<disk, tmp, copied, emptied, builds>>

\* The build is over.
Over(t) ==
  /\ hook[t] \in {"tool", "refused", "interrupted"}
  /\ Goto(t, "idle")
  /\ UNCHANGED <<disk, tmp, copied, emptied, builds>>

Build(t) == \/ Export(t) \/ ReadLists(t) \/ TransformOne(t) \/ CopyBegin(t) \/ CopyEnd(t)
            \/ EmptyHeader(t) \/ RunTool(t) \/ Interrupt(t) \/ Over(t)

FormalInit ==
  /\ disk = [r \in { BuildRoot[t] : t \in Targets } |-> [i \in Indices |-> Empty]]
  /\ hook = [t \in Targets |-> "idle"]
  /\ tmp = [t \in Targets |-> <<>>]
  /\ copied = [t \in Targets |-> {}]
  /\ emptied = [t \in Targets |-> {}]
  /\ builds = [t \in Targets |-> 0]

FormalNext == \E t \in Targets : Build(t)

-----------------------------------------------------------------------------
(* Properties.                                                             *)

\* The tool runs on a conversion of the sources: every file was converted from
\* sources only, never from what an other file's conversion, another target's
\* build or an earlier build has left, with its own defines, and no header is
\* left that it might include again (transform, main; the Makefile).
ToolReadsConversion ==
  \A t \in Targets : Is(t, "tool") => \A i \in Indices :
    disk[Root(t)][i] =
      CASE paths[i].ext = "sv"  -> Contents("converted", defines \cup paths[i].defines_if, TRUE)
        [] paths[i].ext = "svh" -> Empty
        [] OTHER                -> Source

\* If sv2v fails on any file, all sources are as they were (transform).
FailureLeavesSources ==
  \A t \in Targets : Is(t, "refused") =>
    \A i \in Indices : disk[Root(t)][i] = Source
=============================================================================
