----------------------------- MODULE VendorProofs -----------------------------
(***************************************************************************)
(* Proofs about the vendor tool, for all descriptions, upstreams, patches  *)
(* and mappings, any behaviour of the user and of upstream, and any number *)
(* of runs, failures and interruptions.                                    *)
(***************************************************************************)
EXTENDS Vendor, TLAPS

-----------------------------------------------------------------------------
(* The inductive invariant: what a run has reached at each of its steps.   *)

Refreshing == {"unlink", "export", "format"}
Copying    == {"copy", "copy_end", "apply"}
Ending     == {"open_lock", "write_lock", "finish", "commit"}
Importing  == {"rmtree", "rmtree_end"} \cup Copying \cup Ending
Checked    == Refreshing \cup {"clone"} \cup Importing
Loaded     == Checked \cup {"check"}
Steps      == Loaded \cup {"idle", "load"}

\* What the run knows of the lock file, and which upstream it asks for.
HeldInv ==
  /\ pc \in Loaded => up \in Upstream
  /\ pc \in Loaded /\ (args.update => pc \notin {"write_lock", "finish", "commit"})
       => held = work.lock
  /\ pc \in Checked /\ ~args.update => held # None /\ up = held
  /\ pc \in {"open_lock", "write_lock"} => args.update

\* What was cloned, and that the lock file names it in the end.
CloneInv ==
  /\ pc \in Importing => /\ new_rev \in 1 .. MaxRev
                         /\ ~args.update => new_rev = held.rev
  /\ pc \in {"finish", "commit"} => work.lock = Cloned

\* Which patches an item has to get.
Wanted(i) == IF i.patched THEN work.patches[i.to] ELSE {}

\* The items before the current one are copies.
ItemsInv ==
  /\ item \in Nat \ {0}
  /\ pc \in Copying \cup Ending => \A n \in 1 .. Len(Items) :
       n < item => work.target[Items[n].to] = Imported(Items[n], Cloned, work.patches)

\* The current item is a copy with the patches that are not left to apply.
CurrentInv ==
  /\ pc \notin Copying \cup Ending => item = 1
  /\ pc \in {"copy_end", "apply"} => item \in 1 .. Len(Items)
  /\ pc \in Ending => item > Len(Items)
  /\ pc = "apply" => \E a \in SUBSET Patches :
       /\ work.target[Items[item].to] =
            [upstream |-> Cloned, from |-> Items[item].from, applied |-> a]
       /\ a \cup todo = Wanted(Items[item])

\* What is staged, in a run that is to commit.
GitInv ==
  /\ pc \in Checked \ {"commit"} /\ args.commit => staged = committed
  /\ pc = "commit" =>
       /\ staged.lock = work.lock
       /\ staged.target = work.target
       /\ staged.patches = [committed.patches EXCEPT
                              ![Root] = IF args.refresh THEN work.patches[Root] ELSE @]

PcInv == pc \in Steps /\ (pc # "idle" => result = "running")

IInv == TypeOK /\ PcInv /\ HeldInv /\ CloneInv /\ ItemsInv /\ CurrentInv /\ GitInv

-----------------------------------------------------------------------------
(* Lemmas about the definitions.                                           *)

\* Items are in order, and no two have the same target.
LEMMA ItemsFacts ==
  ASSUME desc \in Descs
  PROVE  /\ Items \in Seq(Item)
         /\ Len(Items) \in Nat
         /\ \A n \in 1 .. Len(Items) : /\ Items[n] \in Item
                                      /\ Items[n].to \in Paths
                                      /\ Items[n].from \in Paths
                                      /\ Items[n].patched \in BOOLEAN
         /\ \A m, n \in 1 .. Len(Items) : Items[m].to = Items[n].to => m = n
<1>1. desc \in Desc /\ desc.items \in Seq(Item)
  BY DescsAssumption DEF Desc
<1>2. CASE desc.mapping
  <2>1. Items = desc.items
    BY <1>2 DEF Items
  <2>2. \A m, n \in 1 .. Len(desc.items) : desc.items[m].to = desc.items[n].to => m = n
    BY DescsAssumption
  <2>3. \A n \in 1 .. Len(Items) : Items[n] \in Item
    BY <1>1, <2>1
  <2>4. \A n \in 1 .. Len(Items) : /\ Items[n].to \in Paths
                                  /\ Items[n].from \in Paths
                                  /\ Items[n].patched \in BOOLEAN
    BY <2>3 DEF Item
  <2>. QED  BY <1>1, <2>1, <2>2, <2>3, <2>4
<1>3. CASE ~desc.mapping
  <2>. DEFINE i == [from |-> Root, to |-> Root, file |-> FALSE, patched |-> desc.patch_dir]
  <2>1. i \in Item
    BY <1>1, PathsAssumption DEF Item, Desc
  <2>2. Items = <<i>>
    BY <1>3 DEF Items
  <2>. HIDE DEF i
  <2>3. Len(Items) = 1 /\ Items[1] = i /\ Items \in Seq(Item)
    BY <2>1, <2>2
  <2>4. i.to \in Paths /\ i.from \in Paths /\ i.patched \in BOOLEAN
    BY <2>1 DEF Item
  <2>. QED  BY <2>1, <2>3, <2>4
<1>. QED  BY <1>2, <1>3

\* What was cloned is an upstream whose revision is no branch.
LEMMA ClonedFacts ==
  ASSUME up \in Upstream, new_rev \in 1 .. MaxRev
  PROVE  Cloned \in Upstream /\ Cloned.rev # Branch /\ Cloned.rev = new_rev
BY DEF Cloned, Upstream, Branch

\* If the cloned revision is the one asked for, nothing else was cloned.
LEMMA ClonedIsUp ==
  ASSUME up \in Upstream, new_rev = up.rev
  PROVE  Cloned = up
BY DEF Cloned, Upstream

\* A working tree in parts.
LEMMA TreeFacts ==
  ASSUME NEW t \in Tree
  PROVE  /\ t.lock \in Upstream \cup {None, Broken}
         /\ t.target \in [Paths -> Content \cup {None, Partial}]
         /\ t.patches \in [Paths -> SUBSET Patches]
BY DEF Tree

\* A run that ends forgets everything.
LEMMA EndInv ==
  ASSUME TypeOK, NEW r \in {"ok", "failed"}, End(r),
         desc' \in Descs, work' \in Tree, staged' \in Tree, committed' \in Tree,
         trouble' \in 0 .. MaxTrouble
  PROVE  IInv'
<1>1. TypeOK'
  BY DEF TypeOK, End, NoArgs, Args
<1>2. pc' = "idle" /\ item' = 1
  BY DEF End
<1>3. PcInv' /\ HeldInv' /\ CloneInv' /\ ItemsInv' /\ CurrentInv' /\ GitInv'
  BY <1>2 DEF PcInv, HeldInv, CloneInv, ItemsInv, CurrentInv, GitInv,
     Steps, Loaded, Checked, Refreshing, Importing, Copying, Ending
<1>. QED  BY <1>1, <1>3 DEF IInv

LEMMA InitInv == Init => IInv
<1>. SUFFICES ASSUME Init PROVE IInv
  OBVIOUS
<1>1. NoTree \in Tree
  BY DEF NoTree, Tree
<1>2. TypeOK
  BY <1>1, BoundsAssumption DEF Init, TypeOK, NoArgs, Args
<1>3. pc = "idle" /\ item = 1
  BY DEF Init
<1>4. PcInv /\ HeldInv /\ CloneInv /\ ItemsInv /\ CurrentInv /\ GitInv
  BY <1>3 DEF PcInv, HeldInv, CloneInv, ItemsInv, CurrentInv, GitInv,
     Steps, Loaded, Checked, Refreshing, Importing, Copying, Ending
<1>. QED  BY <1>2, <1>4 DEF IInv

-----------------------------------------------------------------------------
(* The steps up to the clone.                                              *)

LEMMA BeginInv == ASSUME IInv, NEW a \in Args, Begin(a) PROVE IInv'
<1>1. TypeOK'
  <2>1. trouble' \in 0 .. MaxTrouble
    BY BoundsAssumption DEF IInv, TypeOK, Begin, Trouble
  <2>. QED  BY <2>1 DEF IInv, TypeOK, Begin, local, git
<1>2. pc' = "load" /\ result' = "running" /\ item' = item /\ item = 1
  BY DEF Begin, local, IInv, PcInv, CurrentInv, Copying, Ending
<1>3. PcInv' /\ HeldInv' /\ CloneInv' /\ ItemsInv' /\ CurrentInv' /\ GitInv'
  BY <1>2 DEF PcInv, HeldInv, CloneInv, ItemsInv, CurrentInv, GitInv,
     Steps, Loaded, Checked, Refreshing, Importing, Copying, Ending
<1>. QED  BY <1>1, <1>3 DEF IInv

LEMMA LoadInv == ASSUME IInv, Load PROVE IInv'
<1>1. desc' = desc /\ work' = work /\ staged' = staged /\ committed' = committed
          /\ trouble' = trouble
  BY DEF Load, git
<1>2. CASE End("failed")
  BY <1>1, <1>2, EndInv DEF IInv, TypeOK
<1>3. CASE ~End("failed")
  <2>1. /\ pc = "load" /\ work.lock # Broken
        /\ held' = work.lock /\ up' = desc.upstream /\ pc' = "check"
        /\ args' = args /\ new_rev' = new_rev /\ item' = item /\ todo' = todo
        /\ result' = result
    BY <1>3 DEF Load
  <2>2. up' \in Upstream /\ held' \in Upstream \cup {None}
    BY <1>1, <2>1, DescsAssumption, TreeFacts DEF IInv, TypeOK, Desc
  <2>3. TypeOK'
    BY <1>1, <2>1, <2>2 DEF IInv, TypeOK
  <2>4. PcInv' /\ HeldInv' /\ CloneInv' /\ ItemsInv' /\ CurrentInv' /\ GitInv'
    BY <1>1, <2>1, <2>2 DEF IInv, PcInv, HeldInv, CloneInv, ItemsInv, CurrentInv, GitInv,
       Steps, Loaded, Checked, Refreshing, Importing, Copying, Ending
  <2>. QED  BY <2>3, <2>4 DEF IInv
<1>. QED  BY <1>2, <1>3

LEMMA CheckInv == ASSUME IInv, Check PROVE IInv'
<1>1. desc' = desc /\ work' = work /\ staged' = staged /\ committed' = committed
          /\ trouble' = trouble /\ pc = "check"
  BY DEF Check, git
<1>2. CASE End("failed")
  BY <1>1, <1>2, EndInv DEF IInv, TypeOK
<1>3. CASE ~End("failed")
  <2>. DEFINE update == args.update \/ held = None
  <2>1. /\ args.commit => Clean
        /\ args' = [args EXCEPT !.update = update]
        /\ up' = ChosenUpstream(update)
        /\ pc' = IF args.refresh THEN "unlink" ELSE "clone"
        /\ held' = held /\ new_rev' = new_rev /\ item' = item /\ todo' = todo
        /\ result' = result
    BY <1>3 DEF Check
  <2>2. up \in Upstream /\ held \in Upstream \cup {None} /\ held = work.lock
    BY <1>1 DEF IInv, TypeOK, HeldInv, Loaded
  <2>3. args' \in Args /\ args'.update = update /\ args'.commit = args.commit
    BY <2>1 DEF IInv, TypeOK, Args
  <2>4. up' \in Upstream /\ (~update => held # None /\ up' = held)
    BY <2>1, <2>2 DEF ChosenUpstream
  <2>5. TypeOK'
    BY <1>1, <2>1, <2>3, <2>4 DEF IInv, TypeOK
  <2>. HIDE DEF update
  <2>6. pc' \in {"unlink", "clone"}
    BY <2>1
  <2>7. PcInv' /\ HeldInv' /\ CloneInv'
    BY <1>1, <2>1, <2>2, <2>3, <2>4, <2>6 DEF IInv, PcInv, HeldInv, CloneInv,
       Steps, Loaded, Checked, Refreshing, Importing, Copying, Ending
  <2>8. ItemsInv' /\ CurrentInv' /\ GitInv'
    BY <1>1, <2>1, <2>3, <2>6 DEF IInv, Clean, ItemsInv, CurrentInv, GitInv,
       Checked, Refreshing, Importing, Copying, Ending
  <2>. QED  BY <2>5, <2>7, <2>8 DEF IInv
<1>. QED  BY <1>2, <1>3

\* A step of the run before the import, which changes nothing it remembers
\* but the patches, and what is left to do of them.
LEMMA EarlyInv ==
  ASSUME IInv, pc \in Refreshing, pc' \in Refreshing \cup {"clone"},
         work' \in Tree, work'.lock = work.lock, todo' \subseteq Patches,
         UNCHANGED <<desc, git, args, held, up, new_rev, item, result, trouble>>
  PROVE  IInv'
<1>1. TypeOK'
  BY DEF IInv, TypeOK, git
<1>2. PcInv' /\ HeldInv' /\ CloneInv'
  BY DEF IInv, PcInv, HeldInv, CloneInv,
     Steps, Loaded, Checked, Refreshing, Importing, Copying, Ending
<1>3. ItemsInv' /\ CurrentInv' /\ GitInv'
  BY DEF IInv, ItemsInv, CurrentInv, GitInv, git,
     Checked, Refreshing, Importing, Copying, Ending
<1>. QED  BY <1>1, <1>2, <1>3 DEF IInv

LEMMA RefreshInv == ASSUME IInv, Unlink \/ Export \/ FormatPatch PROVE IInv'
<1>0. work \in Tree /\ todo \subseteq Patches
  BY DEF IInv, TypeOK
<1>1. CASE Unlink
  <2>1. work' \in Tree /\ work'.lock = work.lock
    BY <1>0, <1>1, PathsAssumption DEF Unlink, Tree
  <2>. QED  BY <1>0, <1>1, <2>1, EarlyInv DEF Unlink, local, Refreshing
<1>2. CASE Export
  BY <1>0, <1>2, EarlyInv DEF Export, Refreshing
<1>3. CASE FormatPatch
  <2>1. work' \in Tree /\ work'.lock = work.lock /\ todo' \subseteq Patches
    BY <1>0, <1>3, PathsAssumption DEF FormatPatch, Tree
  <2>. QED  BY <1>3, <2>1, EarlyInv DEF FormatPatch, Refreshing
<1>. QED  BY <1>1, <1>2, <1>3

LEMMA CloneStep == ASSUME IInv, Clone PROVE IInv'
<1>1. desc' = desc /\ work' = work /\ staged' = staged /\ committed' = committed
          /\ trouble' = trouble /\ pc = "clone"
  BY DEF Clone, git
<1>2. CASE End("failed")
  BY <1>1, <1>2, EndInv DEF IInv, TypeOK
<1>3. CASE ~End("failed")
  <2>1. /\ new_rev' \in 1 .. MaxRev /\ ~Mismatch(new_rev')
        /\ pc' = "rmtree" /\ args' = args /\ held' = held /\ up' = up
        /\ item' = item /\ todo' = todo /\ result' = result
    BY <1>3 DEF Clone
  <2>2. TypeOK'
    BY <1>1, <2>1 DEF IInv, TypeOK
  <2>3. ~args.update => new_rev' = held.rev
    BY <2>1 DEF Mismatch
  <2>4. PcInv' /\ HeldInv' /\ CloneInv'
    BY <1>1, <2>1, <2>3 DEF IInv, PcInv, HeldInv, CloneInv,
       Steps, Loaded, Checked, Refreshing, Importing, Copying, Ending
  <2>5. ItemsInv' /\ CurrentInv' /\ GitInv'
    BY <1>1, <2>1 DEF IInv, ItemsInv, CurrentInv, GitInv,
       Checked, Refreshing, Importing, Copying, Ending
  <2>. QED  BY <2>2, <2>4, <2>5 DEF IInv
<1>. QED  BY <1>2, <1>3

-----------------------------------------------------------------------------
(* The import.                                                             *)

\* A step of the import changes the target directory, and with it what
\* ItemsInv and CurrentInv say, but nothing the other conjuncts speak of.
LEMMA ImportInv ==
  ASSUME IInv, pc \in {"rmtree", "rmtree_end"} \cup Copying,
         pc' \in {"rmtree_end"} \cup Copying,
         work' \in Tree, work'.lock = work.lock, work'.patches = work.patches,
         item' \in Nat \ {0}, todo' \subseteq Patches, trouble' \in 0 .. MaxTrouble,
         UNCHANGED <<desc, git, args, held, up, new_rev, result>>,
         ItemsInv', CurrentInv'
  PROVE  IInv'
<1>1. TypeOK'
  BY DEF IInv, TypeOK, git
<1>2. PcInv' /\ HeldInv'
  BY DEF IInv, PcInv, HeldInv,
     Steps, Loaded, Checked, Refreshing, Importing, Copying, Ending
<1>3. CloneInv'
  BY DEF IInv, CloneInv, Importing, Copying, Ending
<1>4. GitInv'
  BY DEF IInv, GitInv, git, Checked, Refreshing, Importing, Copying, Ending
<1>. QED  BY <1>1, <1>2, <1>3, <1>4 DEF IInv

LEMMA RmtreeInv == ASSUME IInv, RmtreeBegin \/ RmtreeEnd PROVE IInv'
<1>0. work \in Tree /\ item = 1 /\ todo \subseteq Patches /\ trouble \in 0 .. MaxTrouble
  BY DEF IInv, TypeOK, CurrentInv, RmtreeBegin, RmtreeEnd, Copying, Ending
<1>1. /\ work' \in Tree /\ work'.lock = work.lock /\ work'.patches = work.patches
      /\ trouble' \in 0 .. MaxTrouble
  <2>1. CASE RmtreeBegin
    BY <1>0, <2>1 DEF RmtreeBegin, Tree
  <2>2. CASE RmtreeEnd
    BY <1>0, <2>2, BoundsAssumption DEF RmtreeEnd, Trouble, Tree
  <2>. QED  BY <2>1, <2>2
<1>2. /\ pc \in {"rmtree", "rmtree_end"} /\ pc' \in {"rmtree_end", "copy"}
      /\ UNCHANGED <<desc, git, args, held, up, new_rev, result>>
      /\ item' = 1 /\ todo' = todo
  BY <1>0 DEF RmtreeBegin, RmtreeEnd, local
<1>3. ItemsInv' /\ CurrentInv'
  BY <1>2 DEF ItemsInv, CurrentInv, Copying, Ending
<1>. QED  BY <1>0, <1>1, <1>2, <1>3, ImportInv DEF Copying

LEMMA CopyBeginInv == ASSUME IInv, CopyBegin PROVE IInv'
<1>0. /\ work \in Tree /\ desc \in Descs /\ item \in Nat \ {0} /\ pc = "copy"
      /\ desc' = desc /\ UNCHANGED git /\ trouble' = trouble
      /\ item \in 1 .. Len(Items)
  BY ItemsFacts DEF IInv, TypeOK, ItemsInv, CopyBegin, AllImported
<1>1. CASE End("failed")
  <2>1. work' = work \/ work' = [work EXCEPT !.target[Items[item].to] = Partial]
    BY DEF CopyBegin
  <2>2. work' \in Tree
    BY <1>0, <2>1, ItemsFacts DEF Tree
  <2>. QED  BY <1>0, <1>1, <2>2, EndInv DEF IInv, TypeOK, git
<1>2. CASE ~End("failed")
  <2>1. /\ work' = [work EXCEPT !.target[Items[item].to] = Partial]
        /\ pc' = "copy_end" /\ UNCHANGED <<args, local, result>>
    BY <1>2 DEF CopyBegin
  <2>2. /\ work' \in Tree /\ work'.lock = work.lock /\ work'.patches = work.patches
        /\ \A p \in Paths : p # Items[item].to => work'.target[p] = work.target[p]
    BY <1>0, <2>1, ItemsFacts DEF Tree
  <2>3. ItemsInv'
    <3>1. Items' = Items /\ Cloned' = Cloned /\ item' = item
      BY <1>0, <2>1 DEF Items, Cloned, local
    <3>2. ASSUME NEW n \in 1 .. Len(Items), n < item
          PROVE  work'.target[Items[n].to] = Imported(Items[n], Cloned, work'.patches)
      <4>1. Items[n].to # Items[item].to /\ Items[n].to \in Paths
        BY <1>0, <3>2, ItemsFacts
      <4>2. work.target[Items[n].to] = Imported(Items[n], Cloned, work.patches)
        BY <1>0, <3>2 DEF IInv, ItemsInv, Copying
      <4>. QED  BY <2>2, <4>1, <4>2
    <3>. QED  BY <1>0, <3>1, <3>2 DEF ItemsInv
  <2>4. CurrentInv'
    BY <1>0, <2>1 DEF CurrentInv, Items, local, Copying, Ending
  <2>. QED  BY <1>0, <2>1, <2>2, <2>3, <2>4, ImportInv DEF IInv, TypeOK, local, Copying
<1>. QED  BY <1>1, <1>2

LEMMA CopyEndInv == ASSUME IInv, CopyEnd PROVE IInv'
<1>0. /\ work \in Tree /\ desc \in Descs /\ pc = "copy_end"
      /\ item \in 1 .. Len(Items) /\ item \in Nat \ {0}
      /\ up \in Upstream /\ new_rev \in 1 .. MaxRev
  BY DEF IInv, TypeOK, ItemsInv, CurrentInv, HeldInv, CloneInv, CopyEnd,
     Loaded, Checked, Importing, Copying
<1>. DEFINE i == Items[item]
            c == [upstream |-> Cloned, from |-> i.from, applied |-> {}]
<1>1. /\ work' = [work EXCEPT !.target[i.to] = c]
      /\ todo' = IF i.patched THEN work.patches[i.to] ELSE {}
      /\ pc' = "apply"
      /\ UNCHANGED <<desc, git, args, held, up, new_rev, item, result, trouble>>
  BY DEF CopyEnd
<1>2. i \in Item /\ i.to \in Paths /\ i.from \in Paths
  BY <1>0, ItemsFacts
<1>3. c \in Content
  BY <1>0, <1>2, ClonedFacts DEF Content
<1>. HIDE DEF i, c
<1>4. /\ work' \in Tree /\ work'.lock = work.lock /\ work'.patches = work.patches
      /\ work'.target[i.to] = c
      /\ \A p \in Paths : p # i.to => work'.target[p] = work.target[p]
  BY <1>0, <1>1, <1>2, <1>3 DEF Tree
<1>5. Items' = Items /\ Cloned' = Cloned
  BY <1>1 DEF Items, Cloned
<1>6. ItemsInv'
  <2>1. ASSUME NEW n \in 1 .. Len(Items), n < item
        PROVE  work'.target[Items[n].to] = Imported(Items[n], Cloned, work'.patches)
    <3>1. Items[n].to # i.to /\ Items[n].to \in Paths
      BY <1>0, <2>1, ItemsFacts DEF i
    <3>2. work.target[Items[n].to] = Imported(Items[n], Cloned, work.patches)
      BY <1>0, <2>1 DEF IInv, ItemsInv, Copying
    <3>. QED  BY <1>4, <3>1, <3>2
  <2>. QED  BY <1>0, <1>1, <1>5, <2>1 DEF ItemsInv
<1>7. todo' \subseteq Patches
  BY <1>0, <1>1, <1>2 DEF Tree
<1>8. CurrentInv'
  <2>1. Wanted(Items[item])' = todo'
    BY <1>1, <1>4, <1>5 DEF Wanted, i
  <2>2. /\ work'.target[Items'[item'].to] =
             [upstream |-> Cloned', from |-> Items'[item'].from, applied |-> {}]
        /\ {} \cup todo' = Wanted(Items[item])'
    BY <1>1, <1>4, <1>5, <2>1 DEF i, c
  <2>3. \E a \in SUBSET Patches :
          /\ work'.target[Items'[item'].to] =
               [upstream |-> Cloned', from |-> Items'[item'].from, applied |-> a]
          /\ a \cup todo' = Wanted(Items[item])'
    BY <2>2
  <2>. QED  BY <1>0, <1>1, <1>5, <2>3 DEF CurrentInv, Copying, Ending
<1>. QED  BY <1>0, <1>1, <1>4, <1>6, <1>7, <1>8, ImportInv DEF IInv, TypeOK, Copying

\* The current item is a copy with some of its patches.
LEMMA ApplyFacts ==
  ASSUME IInv, pc = "apply"
  PROVE  /\ work \in Tree /\ desc \in Descs
         /\ item \in 1 .. Len(Items) /\ item \in Nat \ {0}
         /\ Items[item].to \in Paths /\ Items[item].from \in Paths
         /\ Cloned \in Upstream
         /\ \E a \in SUBSET Patches :
              /\ work.target[Items[item].to] =
                   [upstream |-> Cloned, from |-> Items[item].from, applied |-> a]
              /\ a \cup todo = Wanted(Items[item])
<1>1. work \in Tree /\ desc \in Descs /\ item \in 1 .. Len(Items) /\ item \in Nat \ {0}
  BY DEF IInv, TypeOK, ItemsInv, CurrentInv
<1>2. up \in Upstream /\ new_rev \in 1 .. MaxRev
  BY DEF IInv, HeldInv, CloneInv, Loaded, Checked, Importing, Copying
<1>. QED  BY <1>1, <1>2, ItemsFacts, ClonedFacts DEF IInv, CurrentInv

LEMMA ApplyOneInv ==
  ASSUME IInv, ApplyPatch, todo # {}
  PROVE  IInv'
<1>. DEFINE i == Items[item]
<1>1. PICK p \in todo :
        /\ work' = [work EXCEPT !.target[i.to].applied = @ \cup {p}]
        /\ todo' = todo \ {p}
  BY DEF ApplyPatch, Lowest
<1>2. /\ pc = "apply" /\ pc' = "apply" /\ item' = item
      /\ UNCHANGED <<desc, git, args, held, up, new_rev, result, trouble>>
  BY DEF ApplyPatch
<1>3. PICK a \in SUBSET Patches :
        /\ work.target[i.to] = [upstream |-> Cloned, from |-> i.from, applied |-> a]
        /\ a \cup todo = Wanted(i)
  BY <1>2, ApplyFacts
<1>. DEFINE c == [upstream |-> Cloned, from |-> i.from, applied |-> a \cup {p}]
<1>4. p \in Patches /\ todo \subseteq Patches
  BY DEF IInv, TypeOK
<1>5. i.to \in Paths /\ i.from \in Paths /\ Cloned \in Upstream /\ work \in Tree
          /\ desc \in Descs /\ item \in 1 .. Len(Items) /\ item \in Nat \ {0}
  BY <1>2, ApplyFacts
<1>6. c \in Content
  BY <1>4, <1>5 DEF Content
<1>. HIDE DEF i
<1>7. work' = [work EXCEPT !.target = [work.target EXCEPT ![i.to] = c]]
  <2>1. [work.target[i.to] EXCEPT !.applied = @ \cup {p}] = c
    BY <1>3
  <2>. QED  BY <1>1, <2>1
<1>. HIDE DEF c
<1>8. /\ work' \in Tree /\ work'.lock = work.lock /\ work'.patches = work.patches
      /\ work'.target[i.to] = c
      /\ \A q \in Paths : q # i.to => work'.target[q] = work.target[q]
  BY <1>5, <1>6, <1>7 DEF Tree
<1>9. Items' = Items /\ Cloned' = Cloned
  BY <1>2 DEF Items, Cloned
<1>10. ItemsInv'
  <2>1. ASSUME NEW n \in 1 .. Len(Items), n < item
        PROVE  work'.target[Items[n].to] = Imported(Items[n], Cloned, work'.patches)
    <3>1. Items[n].to # i.to /\ Items[n].to \in Paths
      BY <1>5, <2>1, ItemsFacts DEF i
    <3>2. work.target[Items[n].to] = Imported(Items[n], Cloned, work.patches)
      BY <1>2, <2>1 DEF IInv, ItemsInv, Copying
    <3>. QED  BY <1>8, <3>1, <3>2
  <2>. QED  BY <1>2, <1>5, <1>9, <2>1 DEF ItemsInv
<1>11. CurrentInv'
  <2>1. Wanted(Items[item])' = Wanted(i)
    BY <1>2, <1>8, <1>9 DEF Wanted, i
  <2>2. (a \cup {p}) \cup todo' = Wanted(Items[item])' /\ a \cup {p} \in SUBSET Patches
    BY <1>1, <1>3, <1>4, <2>1
  <2>3. work'.target[Items'[item'].to] =
          [upstream |-> Cloned', from |-> Items'[item'].from, applied |-> a \cup {p}]
    BY <1>2, <1>8, <1>9 DEF i, c
  <2>4. \E b \in SUBSET Patches :
          /\ work'.target[Items'[item'].to] =
               [upstream |-> Cloned', from |-> Items'[item'].from, applied |-> b]
          /\ b \cup todo' = Wanted(Items[item])'
    BY <2>2, <2>3
  <2>. QED  BY <1>2, <1>5, <1>9, <2>4 DEF CurrentInv, Copying, Ending
<1>. QED  BY <1>1, <1>2, <1>4, <1>5, <1>8, <1>10, <1>11, ImportInv DEF IInv, TypeOK, Copying

LEMMA ApplyDoneInv ==
  ASSUME IInv, ApplyPatch, todo = {}
  PROVE  IInv'
<1>1. /\ pc = "apply" /\ pc' = "copy" /\ item' = item + 1 /\ work' = work /\ todo' = todo
      /\ UNCHANGED <<desc, git, args, held, up, new_rev, result, trouble>>
  BY DEF ApplyPatch, Lowest
<1>2. work \in Tree /\ desc \in Descs /\ item \in 1 .. Len(Items) /\ item \in Nat \ {0}
  BY <1>1, ApplyFacts
<1>3. Items' = Items /\ Cloned' = Cloned
  BY <1>1 DEF Items, Cloned
<1>4. work.target[Items[item].to] = Imported(Items[item], Cloned, work.patches)
  BY <1>1, ApplyFacts DEF Imported, Wanted
<1>5. \A n \in 1 .. Len(Items) : n < item + 1 =>
        work.target[Items[n].to] = Imported(Items[n], Cloned, work.patches)
  <2>1. ASSUME NEW n \in 1 .. Len(Items), n < item + 1
        PROVE  work.target[Items[n].to] = Imported(Items[n], Cloned, work.patches)
    <3>1. CASE n < item
      BY <1>1, <3>1 DEF IInv, ItemsInv, Copying
    <3>2. CASE n = item
      BY <1>4, <3>2
    <3>. QED  BY <1>2, <2>1, <3>1, <3>2
  <2>. QED  BY <2>1
<1>6. ItemsInv'
  BY <1>1, <1>2, <1>3, <1>5 DEF ItemsInv
<1>7. CurrentInv'
  BY <1>1 DEF CurrentInv, Copying, Ending
<1>. QED  BY <1>1, <1>2, <1>6, <1>7, ImportInv DEF IInv, TypeOK, Copying

LEMMA ApplyInv == ASSUME IInv, ApplyPatch PROVE IInv'
BY ApplyOneInv, ApplyDoneInv

-----------------------------------------------------------------------------
(* The lock file, the commit, and what happens between two steps.          *)

\* The step changes nothing the import has done.
LEMMA EndingItems ==
  ASSUME IInv, pc \in Copying \cup Ending, pc' \in Ending, item > Len(Items),
         work'.target = work.target, work'.patches = work.patches,
         UNCHANGED <<desc, up, new_rev, item>>
  PROVE  ItemsInv' /\ CurrentInv'
<1>1. Items' = Items /\ Cloned' = Cloned
  BY DEF Items, Cloned
<1>. QED  BY <1>1 DEF IInv, ItemsInv, CurrentInv, Copying, Ending

LEMMA ImportDoneInv == ASSUME IInv, ImportDone PROVE IInv'
<1>1. /\ pc = "copy" /\ pc' = IF args.update THEN "open_lock" ELSE "finish"
      /\ item > Len(Items)
      /\ UNCHANGED <<desc, work, git, args, local, result, trouble>>
  BY DEF ImportDone, AllImported
<1>2. ItemsInv' /\ CurrentInv'
  BY <1>1, EndingItems DEF local, Copying, Ending
<1>3. TypeOK' /\ PcInv' /\ HeldInv'
  BY <1>1 DEF IInv, TypeOK, PcInv, HeldInv, local, git,
     Steps, Loaded, Checked, Refreshing, Importing, Copying, Ending
<1>4. CloneInv'
  <2>1. ~args.update => work.lock = Cloned
    BY <1>1, ClonedIsUp DEF IInv, HeldInv, CloneInv, Loaded, Checked, Importing, Copying
  <2>2. Cloned' = Cloned
    BY <1>1 DEF Cloned, local
  <2>. QED  BY <1>1, <2>1, <2>2 DEF IInv, CloneInv, local, Importing, Copying, Ending
<1>5. GitInv'
  BY <1>1 DEF IInv, GitInv, git, Checked, Refreshing, Importing, Copying, Ending
<1>. QED  BY <1>2, <1>3, <1>4, <1>5 DEF IInv

LEMMA OpenLockInv == ASSUME IInv, OpenLock PROVE IInv'
<1>1. /\ pc = "open_lock" /\ pc' = "write_lock"
      /\ work' = [work EXCEPT !.lock = Broken]
      /\ UNCHANGED <<desc, git, args, local, result, trouble>>
      /\ args.update /\ item > Len(Items) /\ work \in Tree
  BY DEF IInv, TypeOK, HeldInv, CurrentInv, OpenLock, Ending
<1>2. work' \in Tree /\ work'.target = work.target /\ work'.patches = work.patches
  BY <1>1 DEF Tree
<1>3. ItemsInv' /\ CurrentInv'
  BY <1>1, <1>2, EndingItems DEF local, Ending
<1>4. TypeOK' /\ PcInv' /\ HeldInv' /\ CloneInv' /\ GitInv'
  BY <1>1, <1>2 DEF IInv, TypeOK, PcInv, HeldInv, CloneInv, GitInv, local, git,
     Steps, Loaded, Checked, Refreshing, Importing, Copying, Ending
<1>. QED  BY <1>3, <1>4 DEF IInv

LEMMA WriteLockInv == ASSUME IInv, WriteLock PROVE IInv'
<1>1. /\ pc = "write_lock" /\ pc' = "finish"
      /\ work' = [work EXCEPT !.lock = Cloned]
      /\ UNCHANGED <<desc, git, args, local, result, trouble>>
      /\ args.update /\ item > Len(Items) /\ work \in Tree
      /\ up \in Upstream /\ new_rev \in 1 .. MaxRev
  BY DEF IInv, TypeOK, HeldInv, CloneInv, CurrentInv, WriteLock, LockData,
     Loaded, Checked, Importing, Ending
<1>2. /\ work' \in Tree /\ work'.lock = Cloned
      /\ work'.target = work.target /\ work'.patches = work.patches
  BY <1>1, ClonedFacts DEF Tree
<1>3. ItemsInv' /\ CurrentInv'
  BY <1>1, <1>2, EndingItems DEF local, Ending
<1>4. Cloned' = Cloned
  BY <1>1 DEF Cloned, local
<1>5. TypeOK' /\ PcInv' /\ HeldInv' /\ CloneInv' /\ GitInv'
  BY <1>1, <1>2, <1>4 DEF IInv, TypeOK, PcInv, HeldInv, CloneInv, GitInv, local, git,
     Steps, Loaded, Checked, Refreshing, Importing, Copying, Ending
<1>. QED  BY <1>3, <1>5 DEF IInv

LEMMA FinishInv == ASSUME IInv, Finish PROVE IInv'
<1>1. /\ pc = "finish" /\ UNCHANGED <<desc, work, trouble, committed>>
      /\ work \in Tree /\ staged \in Tree
  BY DEF IInv, TypeOK, Finish, git
<1>2. CASE End("ok")
  BY <1>1, <1>2, EndInv DEF IInv, TypeOK, Finish, git, End
<1>3. CASE ~End("ok")
  <2>1. /\ args.commit /\ staged' = Added /\ pc' = "commit"
        /\ UNCHANGED <<args, local, result>>
    BY <1>3 DEF Finish
  <2>2. /\ staged' \in Tree /\ staged'.lock = work.lock /\ staged'.target = work.target
        /\ staged'.patches = [staged.patches EXCEPT
                                ![Root] = IF args.refresh THEN work.patches[Root] ELSE @]
    BY <1>1, <2>1, PathsAssumption DEF Added, Tree
  <2>3. staged = committed
    BY <1>1, <2>1 DEF IInv, GitInv, Checked, Importing, Ending
  <2>4. ItemsInv' /\ CurrentInv'
    <3>1. item > Len(Items)
      BY <1>1 DEF IInv, CurrentInv, Ending
    <3>. QED  BY <1>1, <2>1, <3>1, EndingItems DEF local, Ending
  <2>5. Cloned' = Cloned
    BY <2>1 DEF Cloned, local
  <2>6. TypeOK' /\ PcInv' /\ HeldInv' /\ CloneInv'
    BY <1>1, <2>1, <2>2, <2>5 DEF IInv, TypeOK, PcInv, HeldInv, CloneInv, local,
       Steps, Loaded, Checked, Refreshing, Importing, Copying, Ending
  <2>7. GitInv'
    BY <1>1, <2>1, <2>2, <2>3 DEF GitInv, Checked
  <2>. QED  BY <2>4, <2>6, <2>7 DEF IInv
<1>. QED  BY <1>2, <1>3

LEMMA OutsideInv == ASSUME IInv, Commit \/ Abort \/ User PROVE IInv'
<1>0. desc \in Descs /\ work \in Tree /\ staged \in Tree /\ committed \in Tree
          /\ trouble \in 0 .. MaxTrouble
  BY DEF IInv, TypeOK
<1>1. CASE Commit
  BY <1>0, <1>1, EndInv DEF IInv, Commit
<1>2. CASE Abort
  <2>1. trouble' \in 0 .. MaxTrouble
    BY <1>0, <1>2, BoundsAssumption DEF Abort, Trouble
  <2>. QED  BY <1>0, <1>2, <2>1, EndInv DEF IInv, Abort, git
<1>3. CASE User
  <2>1. /\ pc = "idle" /\ trouble' \in 0 .. MaxTrouble
        /\ UNCHANGED <<pc, args, local, result>>
    BY <1>0, <1>3, BoundsAssumption DEF User, Trouble
  <2>2. desc' \in Descs /\ work' \in Tree /\ staged' \in Tree /\ committed' \in Tree
    <3>1. CASE desc' \in Descs /\ UNCHANGED <<work, git>>
      BY <1>0, <3>1 DEF git
    <3>2. CASE /\ \E p \in Paths, s \in SUBSET Patches : work' = [work EXCEPT !.patches[p] = s]
               /\ UNCHANGED <<desc, git>>
      BY <1>0, <3>2 DEF git, Tree
    <3>3. CASE /\ \E p \in Paths : /\ work.target[p] # None
                                   /\ work' = [work EXCEPT !.target[p] = Partial]
               /\ UNCHANGED <<desc, git>>
      BY <1>0, <3>3 DEF git, Tree
    <3>4. CASE work' = [work EXCEPT !.lock = None] /\ UNCHANGED <<desc, git>>
      BY <1>0, <3>4 DEF git, Tree
    <3>5. CASE /\ work.lock \in Upstream
               /\ work' = [work EXCEPT !.lock.rev = Branch] /\ UNCHANGED <<desc, git>>
      <4>1. [work.lock EXCEPT !.rev = Branch] \in Upstream
        BY <3>5, BoundsAssumption DEF Upstream, Branch
      <4>2. work' = [work EXCEPT !.lock = [work.lock EXCEPT !.rev = Branch]]
        BY <3>5
      <4>. QED  BY <1>0, <3>5, <4>1, <4>2 DEF git, Tree
    <3>6. CASE work' = committed /\ staged' = committed /\ UNCHANGED <<desc, committed>>
      BY <1>0, <3>6
    <3>7. CASE staged' = work /\ UNCHANGED <<desc, work, committed>>
      BY <1>0, <3>7
    <3>8. CASE committed' = staged /\ UNCHANGED <<desc, work, staged>>
      BY <1>0, <3>8
    <3>. QED  BY <1>3, <3>1, <3>2, <3>3, <3>4, <3>5, <3>6, <3>7, <3>8 DEF User, Edit
  <2>3. TypeOK'
    BY <2>1, <2>2 DEF IInv, TypeOK, local
  <2>4. PcInv' /\ HeldInv' /\ CloneInv' /\ ItemsInv' /\ CurrentInv' /\ GitInv'
    BY <2>1 DEF IInv, PcInv, HeldInv, CloneInv, ItemsInv, CurrentInv, GitInv, local,
       Steps, Loaded, Checked, Refreshing, Importing, Copying, Ending
  <2>. QED  BY <2>3, <2>4 DEF IInv
<1>. QED  BY <1>1, <1>2, <1>3

-----------------------------------------------------------------------------
(* The theorems.                                                           *)

LEMMA NextInv == ASSUME IInv, [Next]_vars PROVE IInv'
<1>1. CASE \E a \in Args : Begin(a)
  BY <1>1, BeginInv
<1>2. CASE Step
  BY <1>2, LoadInv, CheckInv, RefreshInv, CloneStep, RmtreeInv, CopyBeginInv, CopyEndInv,
     ApplyInv, ImportDoneInv, OpenLockInv, WriteLockInv, FinishInv, OutsideInv DEF Step
<1>3. CASE Abort \/ User
  BY <1>3, OutsideInv
<1>4. CASE UNCHANGED vars
  <2>1. TypeOK' /\ PcInv' /\ HeldInv' /\ CloneInv' /\ GitInv'
    BY <1>4 DEF IInv, TypeOK, PcInv, HeldInv, CloneInv, GitInv, Cloned, vars, local, git
  <2>2. ItemsInv' /\ CurrentInv'
    BY <1>4 DEF IInv, ItemsInv, CurrentInv, Items, Imported, Wanted, Cloned, vars, local
  <2>. QED  BY <2>1, <2>2 DEF IInv
<1>. QED  BY <1>1, <1>2, <1>3, <1>4 DEF Next

\* What a run has reached, at each of its steps, whatever happened before it.
THEOREM Invariance == Spec => []IInv
<1>. QED  BY InitInv, NextInv, PTL DEF Spec

\* Every variable has its type.
THEOREM TypeCorrect == Spec => []TypeOK
<1>1. IInv => TypeOK
  BY DEF IInv
<1>. QED  BY <1>1, Invariance, PTL

\* At the end of a run the lock file names the copy.
LEMMA PinnedAtEnd ==
  ASSUME IInv, pc \in {"finish", "commit"}
  PROVE  Pinned(work, work.patches)
<1>1. work.lock = Cloned /\ Cloned \in Upstream /\ Cloned.rev # Branch
  BY ClonedFacts DEF IInv, HeldInv, CloneInv, Loaded, Checked, Importing, Ending
<1>2. \A n \in 1 .. Len(Items) : work.target[Items[n].to] = Imported(Items[n], Cloned, work.patches)
  <2>1. item > Len(Items) /\ item \in Nat /\ Len(Items) \in Nat
    BY ItemsFacts DEF IInv, TypeOK, CurrentInv, Ending
  <2>. QED  BY <2>1 DEF IInv, ItemsInv, Ending
<1>. QED  BY <1>1, <1>2 DEF Pinned

\* Only two steps end a run without an error.
LEMMA OkSteps ==
  ASSUME [Next]_vars, result = "running", result' = "ok"
  PROVE  (Finish \/ Commit) /\ work' = work /\ desc' = desc
<1>1. ~UNCHANGED vars
  BY DEF vars
<1>2. ~(\E a \in Args : Begin(a)) /\ ~Abort /\ ~User
  BY DEF Begin, Abort, End, User
<1>3. ~(Load \/ Check \/ Unlink \/ Export \/ FormatPatch \/ Clone)
  BY DEF Load, Check, Unlink, Export, FormatPatch, Clone, End
<1>4. ~(RmtreeBegin \/ RmtreeEnd \/ CopyBegin \/ CopyEnd \/ ApplyPatch)
  BY DEF RmtreeBegin, RmtreeEnd, CopyBegin, CopyEnd, ApplyPatch, End
<1>5. ~(ImportDone \/ OpenLock \/ WriteLock)
  BY DEF ImportDone, OpenLock, WriteLock
<1>6. Finish \/ Commit
  BY <1>1, <1>2, <1>3, <1>4, <1>5 DEF Next, Step
<1>. QED  BY <1>6 DEF Finish, Commit

\* A run that ends without an error leaves the copy that the lock file names,
\* with its patches, whatever was left before it.
THEOREM SuccessPins == Spec => SuccessMeansPinned
<1>1. ASSUME IInv, [Next]_vars, result = "running", result' = "ok"
      PROVE  Pinned(work', work'.patches)
  <2>1. (Finish \/ Commit) /\ work' = work
    BY <1>1, OkSteps
  <2>2. pc \in {"finish", "commit"}
    BY <2>1 DEF Finish, Commit
  <2>. QED  BY <1>1, <2>1, <2>2, PinnedAtEnd
<1>2. IInv /\ [Next]_vars
        => [result = "running" /\ result' = "ok" => Pinned(work', work'.patches)]_vars
  BY <1>1
<1>. QED  BY <1>2, InitInv, NextInv, PTL DEF Spec, SuccessMeansPinned

\* Only two steps of a run change the lock file.
LEMMA LockSteps ==
  ASSUME [Next]_vars, pc # "idle", work'.lock # work.lock, work \in Tree
  PROVE  OpenLock \/ WriteLock
<1>1. ~UNCHANGED vars
  BY DEF vars
<1>2. ~(\E a \in Args : Begin(a)) /\ ~Abort /\ ~User
  BY DEF Begin, Abort, User
<1>3. ~(Load \/ Check \/ Export \/ Clone \/ ImportDone \/ Finish \/ Commit)
  BY DEF Load, Check, Export, Clone, ImportDone, Finish, Commit
<1>4. ~(Unlink \/ FormatPatch \/ RmtreeBegin \/ RmtreeEnd)
  BY DEF Unlink, FormatPatch, RmtreeBegin, RmtreeEnd, Tree
<1>5. ~(CopyBegin \/ CopyEnd \/ ApplyPatch)
  BY DEF CopyBegin, CopyEnd, ApplyPatch, Tree
<1>. QED  BY <1>1, <1>2, <1>3, <1>4, <1>5 DEF Next, Step

\* Except while it is written, the lock file names a copy that is in place.
THEOREM LockIsLast == Spec => LockComesLast
<1>1. ASSUME IInv, [Next]_vars, pc # "idle", work'.lock # work.lock
      PROVE  /\ args.update
             /\ work'.lock # Broken => Pinned(work', work'.patches)
  <2>0. work \in Tree
    BY <1>1 DEF IInv, TypeOK
  <2>1. CASE OpenLock
    BY <1>1, <2>0, <2>1 DEF OpenLock, IInv, HeldInv, Tree
  <2>2. CASE WriteLock
    <3>1. work' = [work EXCEPT !.lock = Cloned] /\ pc = "write_lock"
      BY <2>2 DEF WriteLock, LockData
    <3>2. /\ work'.lock = Cloned /\ work'.target = work.target
          /\ work'.patches = work.patches
      BY <2>0, <3>1 DEF Tree
    <3>3. args.update
      BY <1>1, <3>1 DEF IInv, HeldInv
    <3>4. Cloned \in Upstream /\ Cloned.rev # Branch
      BY <1>1, <3>1, ClonedFacts DEF IInv, HeldInv, CloneInv, Loaded, Checked, Importing, Ending
    <3>5. \A n \in 1 .. Len(Items) :
            work.target[Items[n].to] = Imported(Items[n], Cloned, work.patches)
      <4>1. item > Len(Items) /\ item \in Nat /\ Len(Items) \in Nat
        BY <1>1, <3>1, ItemsFacts DEF IInv, TypeOK, CurrentInv, Ending
      <4>. QED  BY <1>1, <3>1, <4>1 DEF IInv, ItemsInv, Ending
    <3>. QED  BY <3>2, <3>3, <3>4, <3>5 DEF Pinned
  <2>. QED  BY <1>1, <2>0, <2>1, <2>2, LockSteps
<1>2. IInv /\ [Next]_vars
        => [pc # "idle" /\ work'.lock # work.lock
             => /\ args.update
                /\ work'.lock # Broken => Pinned(work', work'.patches)]_vars
  BY <1>1
<1>. QED  BY <1>2, InitInv, NextInv, PTL DEF Spec, LockComesLast

\* A commit of the tool holds a copy, the lock file that names it, and nothing
\* of the user's.
THEOREM CommitsNothingElse == Spec => CommitsItsOwn
<1>1. ASSUME IInv, [Next]_vars, pc # "idle", committed' # committed
      PROVE  /\ Pinned(committed', work.patches)
             /\ committed'.patches = [committed.patches EXCEPT
                   ![Root] = IF args.refresh THEN work.patches[Root] ELSE @]
  <2>1. Commit
    <3>1. ~(\E a \in Args : Begin(a)) /\ ~Abort /\ ~User /\ ~UNCHANGED vars
      BY <1>1 DEF Begin, Abort, User, vars, git
    <3>2. ~(Load \/ Check \/ Unlink \/ Export \/ FormatPatch \/ Clone)
      BY <1>1 DEF Load, Check, Unlink, Export, FormatPatch, Clone, git
    <3>3. ~(RmtreeBegin \/ RmtreeEnd \/ CopyBegin \/ CopyEnd \/ ApplyPatch)
      BY <1>1 DEF RmtreeBegin, RmtreeEnd, CopyBegin, CopyEnd, ApplyPatch, git
    <3>4. ~(ImportDone \/ OpenLock \/ WriteLock \/ Finish)
      BY <1>1 DEF ImportDone, OpenLock, WriteLock, Finish, git
    <3>. QED  BY <1>1, <3>1, <3>2, <3>3, <3>4 DEF Next, Step
  <2>2. committed' = staged /\ pc = "commit"
    BY <1>1, <2>1 DEF Commit
  <2>3. Pinned(work, work.patches)
    BY <1>1, <2>2, PinnedAtEnd
  <2>4. /\ staged.lock = work.lock /\ staged.target = work.target
        /\ staged.patches = [committed.patches EXCEPT
                ![Root] = IF args.refresh THEN work.patches[Root] ELSE @]
    BY <1>1, <2>2 DEF IInv, GitInv, TypeOK, Tree
  <2>. QED  BY <2>2, <2>3, <2>4 DEF Pinned
<1>2. IInv /\ [Next]_vars
        => [pc # "idle" /\ committed' # committed
             => /\ Pinned(committed', work.patches)
                /\ committed'.patches = [committed.patches EXCEPT
                      ![Root] = IF args.refresh THEN work.patches[Root] ELSE @]]_vars
  BY <1>1
<1>. QED  BY <1>2, InitInv, NextInv, PTL DEF Spec, CommitsItsOwn
=============================================================================
