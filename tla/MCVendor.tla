------------------------------- MODULE MCVendor -------------------------------
(***************************************************************************)
(* Model checking Vendor: descriptions like those of the repository        *)
(* (vendor/*.vendor.hjson), a whole copy with a patch repository and a     *)
(* mapping of two directories one of which is patched, and one that is     *)
(* refused.                                                                *)
(***************************************************************************)
EXTENDS Vendor

CONSTANTS u1, u2, whole, sub, top, x, y

It(from, to, file, patched) == [from |-> from, to |-> to, file |-> file, patched |-> patched]

Whole == [upstream |-> [url |-> u1, rev |-> Branch, only_subdir |-> whole],
          patch_dir |-> TRUE, patch_repo |-> TRUE, mapping |-> FALSE, items |-> <<>>]

Mapped == [upstream |-> [url |-> u2, rev |-> 1, only_subdir |-> sub],
           patch_dir |-> TRUE, patch_repo |-> FALSE, mapping |-> TRUE,
           items |-> <<It(y, x, TRUE, FALSE), It(x, y, FALSE, TRUE)>>]

Refused == [Mapped EXCEPT !.patch_repo = TRUE]

MCDescs == {Whole, Mapped, Refused}
=============================================================================
