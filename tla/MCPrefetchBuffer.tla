--------------------------- MODULE MCPrefetchBuffer ---------------------------
(* Instance of PrefetchBuffer for TLC.                                       *)
EXTENDS PrefetchBuffer

\* Memory word: compressed lower half, compressed upper half, bus error.
W(l, u, e) == [c0 |-> l, c1 |-> u, err |-> e]

FromZero(s) == [i \in 0 .. Len(s) - 1 |-> s[i + 1]]

\* 32 | 16 32- | -32 16, the last word failing: every alignment of every size,
\* an error in the second and in the first half of a 32-bit instruction that
\* crosses a word boundary.
MCPrograms == { FromZero(<< W(FALSE, FALSE, FALSE), W(TRUE, FALSE, FALSE),
                            W(FALSE, TRUE, TRUE) >>) }

\* Fetching starts at 0 after reset; branches go to an unaligned address.
MCTargets == {3}
=============================================================================
