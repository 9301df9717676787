-------------------------------- MODULE Vendor --------------------------------
(***************************************************************************)
(* util/vendor.py: a directory of the repository is a copy of a directory  *)
(* of an upstream repository with local patches applied.  A lock file      *)
(* names the upstream revision the copy was made from.  A run of the tool  *)
(* reads the description and the lock file, refreshes the patches, clones  *)
(* the upstream repository, imports the copy, writes the lock file and     *)
(* commits, one file or directory after the other; it may be interrupted,  *)
(* or a program it calls may fail, between any two steps (Abort).          *)
(*                                                                         *)
(* A directory is one value, its contents: which revision it was copied    *)
(* from, where in the repository, and which patches were applied.  What    *)
(* exclude_from_upstream leaves out is the same in every copy and is not   *)
(* modelled.  Two copies of different contents differ in a tracked file.   *)
(*                                                                         *)
(* External: git; the upstream repository and the repository the patches   *)
(* are taken from, whose branches may point anywhere whenever they are     *)
(* cloned; and the user, who may do anything to the working tree and the   *)
(* description between two runs.                                           *)
(***************************************************************************)
EXTENDS Integers, Sequences

CONSTANTS Urls,         \* upstream repositories
          MaxRev,       \* the revisions of each are numbered from 1 on
          Subdirs,      \* values of only_subdir, NoSubdir among them
          Paths,        \* paths in upstream and target directory, Root among them
          Root,         \* the path "."
          Patches,      \* names of patch files; they are applied in this order
          Descs,        \* the descriptions the user writes
          None,         \* no such file or directory, no value
          Broken,       \* contents of a lock file that does not parse
          Partial,      \* contents of a directory that is no copy: half written,
                        \* half removed, or edited
          MaxTrouble    \* bound: see trouble

Branch == 0             \* a revision that is the name of a branch

Upstream == [url : Urls, rev : Branch .. MaxRev, only_subdir : Subdirs]
Item     == [from : Paths, to : Paths, file : BOOLEAN, patched : BOOLEAN]
Desc     == [upstream : Upstream, patch_dir : BOOLEAN, patch_repo : BOOLEAN,
             mapping : BOOLEAN, items : Seq(Item)]
Content  == [upstream : Upstream, from : Paths, applied : SUBSET Patches]
Tree     == [lock : Upstream \cup {None, Broken},
             target : [Paths -> Content \cup {None, Partial}],
             patches : [Paths -> SUBSET Patches]]

\* The paths of a mapping do not overlap.
ASSUME DescsAssumption ==
  /\ Descs \subseteq Desc
  /\ \A d \in Descs : \A i, j \in 1 .. Len(d.items) :
       d.items[i].to \in {Root, d.items[j].to} => i = j

ASSUME PathsAssumption == Root \in Paths /\ Patches \subseteq Nat

ASSUME BoundsAssumption == MaxRev \in Nat \ {0} /\ MaxTrouble \in Nat

ASSUME ValuesAssumption ==
  /\ None \notin Upstream \cup Content \cup {Broken, Partial}
  /\ Broken \notin Upstream
  /\ Partial \notin Content

VARIABLES
  desc,                 \* the description
  work,                 \* the working tree
  staged, committed,    \* git's index and HEAD
  pc, args,             \* the run: its next step and command line
  held,                 \* the lock file it has read
  up, new_rev,          \* desc.upstream, and the revision that was cloned
  item, todo,           \* the item that is imported, the patches still to write
                        \* or to apply
  result,               \* how the last run ended
  trouble               \* how often the user has edited something or started a
                        \* run with options, and something has failed

git    == <<staged, committed>>
local  == <<held, up, new_rev, item, todo>>
vars   == <<desc, work, git, pc, args, local, result, trouble>>

-----------------------------------------------------------------------------
(* The description.                                                        *)

Args == [update : BOOLEAN, refresh : BOOLEAN, commit : BOOLEAN]

\* What the constructors of Desc refuse.
Malformed(d) ==
  \/ d.patch_repo /\ ~d.patch_dir
  \/ d.patch_repo /\ d.mapping
  \/ d.mapping /\ d.patch_dir # \E i \in 1 .. Len(d.items) : d.items[i].patched

\* Without a mapping everything is copied straight through.
Items == IF desc.mapping THEN desc.items
         ELSE <<[from |-> Root, to |-> Root, file |-> FALSE, patched |-> desc.patch_dir]>>

\* What import_from_upstream makes of an item of the mapping.
Imported(i, u, patches) ==
  [upstream |-> u, from |-> i.from, applied |-> IF i.patched THEN patches[i.to] ELSE {}]

-----------------------------------------------------------------------------
(* The working tree and git.                                               *)

\* git_is_clean_workdir: files that git does not track do not count.
Clean ==
  /\ staged = committed
  /\ committed.lock # None => work.lock = committed.lock
  /\ \A p \in Paths : /\ committed.target[p] # None => work.target[p] = committed.target[p]
                      /\ committed.patches[p] \subseteq work.patches[p]

Exists(p) == \E q \in Paths : (p = Root \/ p = q) /\ work.target[q] # None

\* Patches are written and applied in the order of their names.
Lowest(p, s) == p \in s /\ \A q \in s : p <= q
-----------------------------------------------------------------------------
(* A run.                                                                  *)

NoArgs == [update |-> FALSE, refresh |-> FALSE, commit |-> FALSE]

Trouble == trouble < MaxTrouble /\ trouble' = trouble + 1

Begin(a) ==
  /\ pc = "idle"
  /\ IF a = NoArgs THEN UNCHANGED trouble ELSE Trouble
  /\ pc' = "load" /\ args' = a /\ result' = "running"
  /\ UNCHANGED <<desc, work, git, local>>

\* The process ends, and its clone is removed.
End(r) == /\ pc' = "idle" /\ result' = r
          /\ args' = NoArgs
          /\ held' = None /\ up' = None /\ new_rev' = None
          /\ item' = 1 /\ todo' = {}

\* Errors in the description or in the lock file end the run.
Load ==
  /\ pc = "load"
  /\ \/ (Malformed(desc) \/ work.lock = Broken) /\ End("failed")
     \/ /\ ~Malformed(desc) /\ work.lock # Broken
        /\ held' = work.lock
        /\ up' = desc.upstream
        /\ pc' = "check"
        /\ UNCHANGED <<args, new_rev, item, todo, result>>
  /\ UNCHANGED <<desc, work, git, trouble>>

\* Without --update the upstream of the lock file takes the place of the
\* description's.
ChosenUpstream(update) == IF held # None /\ ~update THEN held ELSE up

Check ==
  /\ pc = "check"
  /\ LET update == args.update \/ held = None
         refused == \/ args.commit /\ ~Clean
                    \/ args.refresh /\ ~desc.patch_repo
     IN  \/ refused /\ End("failed")
         \/ /\ ~refused
            /\ args' = [args EXCEPT !.update = update]
            /\ up' = ChosenUpstream(update)
            /\ pc' = IF args.refresh THEN "unlink" ELSE "clone"
            /\ UNCHANGED <<held, new_rev, item, todo, result>>
  /\ UNCHANGED <<desc, work, git, trouble>>

\* refresh_patches removes the patches one by one, ...
Unlink ==
  /\ pc = "unlink"
  /\ \/ \E p \in work.patches[Root] :
          /\ work' = [work EXCEPT !.patches[Root] = @ \ {p}]
          /\ UNCHANGED pc
     \/ work.patches[Root] = {} /\ pc' = "export" /\ UNCHANGED work
  /\ UNCHANGED <<desc, git, args, local, result, trouble>>

\* ... clones the repository that has them as commits, ...
Export ==
  /\ pc = "export"
  /\ todo' \in SUBSET Patches
  /\ pc' = "format"
  /\ UNCHANGED <<desc, work, git, args, held, up, new_rev, item, result, trouble>>

\* ... and writes them.
FormatPatch ==
  /\ pc = "format"
  /\ \/ /\ \E p \in Patches : /\ Lowest(p, todo)
                             /\ work' = [work EXCEPT !.patches[Root] = @ \cup {p}]
                             /\ todo' = todo \ {p}
        /\ UNCHANGED pc
     \/ todo = {} /\ pc' = "clone" /\ UNCHANGED <<work, todo>>
  /\ UNCHANGED <<desc, git, args, held, up, new_rev, item, result, trouble>>

\* mutant: the revision that was cloned is compared with the description's.
DescribedRevision(r) == ~args.update /\ r # desc.upstream.rev

\* mutant: the revision that was cloned is not compared with anything.
AnyRevision(r) == FALSE

\* A lock file that was edited may name a branch.
Mismatch(r) == ~args.update /\ r # held.rev

Clone ==
  /\ pc = "clone"
  /\ \E r \in 1 .. MaxRev :
       /\ up.rev # Branch => r = up.rev
       /\ \/ Mismatch(r) /\ End("failed")
          \/ /\ ~Mismatch(r)
             /\ new_rev' = r
             /\ pc' = "rmtree"
             /\ UNCHANGED <<args, held, up, item, todo, result>>
  /\ UNCHANGED <<desc, work, git, trouble>>

-----------------------------------------------------------------------------
(* import_from_upstream.                                                   *)

\* What was cloned.
Cloned == [up EXCEPT !.rev = new_rev]

\* The target directory is removed file by file; errors are ignored, so
\* that some of it may be left.
RmtreeBegin ==
  /\ pc = "rmtree"
  /\ work' = [work EXCEPT !.target =
                [p \in Paths |-> IF @[p] = None THEN None ELSE Partial]]
  /\ pc' = "rmtree_end"
  /\ UNCHANGED <<desc, git, args, local, result, trouble>>

RmtreeEnd ==
  /\ pc = "rmtree_end"
  /\ \E left \in SUBSET { p \in Paths : work.target[p] # None } :
       /\ work' = [work EXCEPT !.target =
                    [p \in Paths |-> IF p \in left THEN Partial ELSE None]]
       /\ IF left = {} THEN UNCHANGED trouble ELSE Trouble
  /\ pc' = "copy"
  /\ UNCHANGED <<desc, git, args, local, result>>

AllImported == item > Len(Items)

\* shutil.copytree does not write to a directory that exists.
CopyBegin ==
  /\ pc = "copy" /\ ~AllImported
  /\ LET i == Items[item]
     IN  \/ ~i.file /\ Exists(i.to) /\ End("failed") /\ UNCHANGED work
         \/ /\ i.file \/ ~Exists(i.to)
            /\ work' = [work EXCEPT !.target[i.to] = Partial]
            /\ pc' = "copy_end"
            /\ UNCHANGED <<args, local, result>>
  /\ UNCHANGED <<desc, git, trouble>>

CopyEnd ==
  /\ pc = "copy_end"
  /\ LET i == Items[item]
     IN  /\ work' = [work EXCEPT !.target[i.to] =
                       [upstream |-> Cloned, from |-> i.from, applied |-> {}]]
         /\ todo' = IF i.patched THEN work.patches[i.to] ELSE {}
  /\ pc' = "apply"
  /\ UNCHANGED <<desc, git, args, held, up, new_rev, item, result, trouble>>

\* One patch after the other, then the next item.
ApplyPatch ==
  /\ pc = "apply"
  /\ \/ /\ \E p \in Patches :
             /\ Lowest(p, todo)
             /\ work' = [work EXCEPT !.target[Items[item].to].applied = @ \cup {p}]
             /\ todo' = todo \ {p}
        /\ UNCHANGED <<pc, item>>
     \/ /\ todo = {}
        /\ item' = item + 1
        /\ pc' = "copy"
        /\ UNCHANGED <<work, todo>>
  /\ UNCHANGED <<desc, git, args, held, up, new_rev, result, trouble>>

ImportDone ==
  /\ pc = "copy" /\ AllImported
  /\ pc' = IF args.update THEN "open_lock" ELSE "finish"
  /\ UNCHANGED <<desc, work, git, args, local, result, trouble>>

-----------------------------------------------------------------------------
(* The lock file and the commit.                                           *)

\* open(..., 'w') empties the lock file.
OpenLock ==
  /\ pc = "open_lock"
  /\ work' = [work EXCEPT !.lock = Broken]
  /\ pc' = "write_lock"
  /\ UNCHANGED <<desc, git, args, local, result, trouble>>

\* mutant: the lock file names what the description names.
Unresolved == up

LockData == Cloned

WriteLock ==
  /\ pc = "write_lock"
  /\ work' = [work EXCEPT !.lock = LockData]
  /\ pc' = "finish"
  /\ UNCHANGED <<desc, git, args, local, result, trouble>>

\* mutant: the lock file is not among the paths to commit.
WithoutLock == [staged EXCEPT !.target = work.target,
                              !.patches[Root] = IF args.refresh THEN work.patches[Root] ELSE @]

\* git add of the target directory, of the patches if they were refreshed,
\* and of the lock file.
Added == [staged EXCEPT !.target = work.target,
                        !.patches[Root] = IF args.refresh THEN work.patches[Root] ELSE @,
                        !.lock = work.lock]

Finish ==
  /\ pc = "finish"
  /\ \/ ~args.commit /\ End("ok") /\ UNCHANGED git
     \/ /\ args.commit
        /\ staged' = Added
        /\ pc' = "commit"
        /\ UNCHANGED <<committed, args, local, result>>
  /\ UNCHANGED <<desc, work, trouble>>

\* A commit that fails is worth a warning only.
Commit ==
  /\ pc = "commit"
  /\ committed' \in {staged, committed}
  /\ End("ok")
  /\ UNCHANGED <<desc, work, staged, trouble>>

\* A program fails, a directory or revision does not exist, a file cannot be
\* written, or somebody interrupts the run.
Abort ==
  /\ pc # "idle"
  /\ Trouble
  /\ End("failed")
  /\ UNCHANGED <<desc, work, git>>

Step == \/ Load \/ Check \/ Unlink \/ Export \/ FormatPatch \/ Clone
        \/ RmtreeBegin \/ RmtreeEnd \/ CopyBegin \/ CopyEnd \/ ApplyPatch
        \/ ImportDone \/ OpenLock \/ WriteLock \/ Finish \/ Commit

-----------------------------------------------------------------------------
(* The others.                                                             *)

\* The description, the patches, a file of a copy, the lock file, git checkout,
\* git add and git commit.
Edit == \/ /\ desc' \in Descs /\ UNCHANGED <<work, git>>
        \/ /\ \E p \in Paths, s \in SUBSET Patches : work' = [work EXCEPT !.patches[p] = s]
           /\ UNCHANGED <<desc, git>>
        \/ /\ \E p \in Paths : /\ work.target[p] # None
                             /\ work' = [work EXCEPT !.target[p] = Partial]
           /\ UNCHANGED <<desc, git>>
        \/ /\ work' = [work EXCEPT !.lock = None] /\ UNCHANGED <<desc, git>>
        \/ /\ work.lock \in Upstream
           /\ work' = [work EXCEPT !.lock.rev = Branch] /\ UNCHANGED <<desc, git>>
        \/ /\ work' = committed /\ staged' = committed /\ UNCHANGED <<desc, committed>>
        \/ /\ staged' = work /\ UNCHANGED <<desc, work, committed>>
        \/ /\ committed' = staged /\ UNCHANGED <<desc, work, staged>>

User == /\ pc = "idle"
        /\ Trouble
        /\ Edit
        /\ UNCHANGED <<pc, args, local, result>>

NoTree == [lock |-> None, target |-> [p \in Paths |-> None], patches |-> [p \in Paths |-> {}]]

Init == /\ desc \in Descs
        /\ work = NoTree /\ staged = NoTree /\ committed = NoTree
        /\ pc = "idle" /\ args = NoArgs /\ result = "none"
        /\ held = None /\ up = None /\ new_rev = None
        /\ item = 1 /\ todo = {}
        /\ trouble = 0

Next == (\E a \in Args : Begin(a)) \/ Step \/ Abort \/ User

Spec == Init /\ [][Next]_vars
-----------------------------------------------------------------------------
(* Properties.                                                             *)

\* Every variable has its type.
TypeOK ==
  /\ desc \in Descs
  /\ work \in Tree /\ staged \in Tree /\ committed \in Tree
  /\ args \in Args /\ item \in Nat /\ todo \subseteq Patches
  /\ held \in Upstream \cup {None} /\ up \in Upstream \cup {None}
  /\ new_rev \in 1 .. MaxRev \cup {None}
  /\ result \in {"none", "running", "ok", "failed"}
  /\ trouble \in 0 .. MaxTrouble

\* A tree is the copy its lock file names, with the patches ps applied.
Pinned(tree, ps) ==
  /\ tree.lock \in Upstream /\ tree.lock.rev # Branch
  /\ \A n \in 1 .. Len(Items) :
       tree.target[Items[n].to] = Imported(Items[n], tree.lock, ps)

\* A run that ends without an error leaves the copy that the lock file names,
\* with all patches that are in the patch directory, whatever earlier runs
\* that were interrupted, upstream or the user left before it (main).
SuccessMeansPinned == [][result = "running" /\ result' = "ok" => Pinned(work', work'.patches)]_vars

\* Except while it is written, the lock file never names a revision before the
\* whole copy of it is in place, and only a run with --update, or without a
\* lock file, changes it (main).
LockComesLast ==
  [][pc # "idle" /\ work'.lock # work.lock
       => /\ args.update
          /\ work'.lock # Broken => Pinned(work', work'.patches)]_vars

\* A commit of the tool holds a copy and the lock file that names it, and
\* nothing of what the user had not committed, apart from patches that were
\* refreshed (git_is_clean_workdir, git_add_commit).
CommitsItsOwn ==
  [][pc # "idle" /\ committed' # committed
       => /\ Pinned(committed', work.patches)
          /\ committed'.patches = [committed.patches EXCEPT
                ![Root] = IF args.refresh THEN work.patches[Root] ELSE @]]_vars
-----------------------------------------------------------------------------
(* Liveness: a run goes on unless it is aborted, and the user now and then *)
(* runs the tool without any option.                                       *)

FairSpec == Spec /\ WF_vars(Step) /\ WF_vars(Begin(NoArgs))

\* The lock file, if there is one, can be read and names a revision.
Readable == work.lock # Broken /\ (work.lock \in Upstream => work.lock.rev # Branch)

\* Whatever state the directory was left in, by runs that were interrupted at
\* any step or by the user, runs without options restore the copy and nobody
\* has to clean up, unless the description or the lock file cannot be used.
Recovers ==
  \/ []<>(pc = "idle" /\ Pinned(work, work.patches))
  \/ <>[](Malformed(desc) \/ ~Readable)
=============================================================================
