----------------------------- MODULE MCVectorUnit -----------------------------
(***************************************************************************)
(* Model checking VectorUnit: eight vector registers of two words in two   *)
(* groups, then six words of data.  Every byte of the memory is different  *)
(* at first, and Alu tells the orders of its operands apart.               *)
(***************************************************************************)
EXTENDS VectorUnit

MCNRegs       == 8
MCWordsPerReg == 2
MCAguWords    == 8
MCNWords      == 22
MCByte        == 0 .. 250
MCZeroByte    == 0

MCInitialMemory == [w \in Words |-> [l \in Lanes |-> 4 * w + l + 1]]
MCScalar        == [l \in Lanes |-> 200 + l]
MCAlu(a, b, c)  == (3 * a + 7 * b + 19 * c + 11) % 251

DataAddr(l) == [word |-> VrfWords + 1, lane |-> l]

Op(kind, regs, bytes) ==
  [kind |-> kind, rs1 |-> regs[1], rs2 |-> regs[2], rd |-> regs[3], bytes |-> bytes,
   off |-> 0, addr |-> DataAddr(0), unit |-> TRUE, stride |-> 0]

Slide(kind, bytes, off) == [Op(kind, <<0, 2, 4>>, bytes) EXCEPT !.off = off]
Access(kind, lane, bytes) == [Op(kind, <<0, 0, 2>>, bytes) EXCEPT !.addr = DataAddr(lane)]
Strided(kind, n, bytes) == [Access(kind, 0, bytes) EXCEPT !.unit = FALSE, !.stride = n]
ScalarAccess(kind, w, lane) ==
  [Op(kind, <<0, 0, 0>>, 0) EXCEPT !.addr = [word |-> w, lane |-> lane], !.unit = FALSE]

\* vl in bytes: none, part of a word, one word, more, and more than a register
\* (register groups are then aligned, as LMUL = 2 requires).
Sizes == {0, 3, 4, 5, 8, 9}

Regs(n) == IF n = 9 THEN {<<0, 6, 2>>, <<2, 0, 2>>}
           ELSE {<<2, 1, 2>>, <<0, 2, 2>>, <<5, 7, 6>>}

Arith == UNION { { Op(k, r, n) : k \in {"vv", "vx", "macc_vv", "macc_vx", "mv_v"},
                                 r \in Regs(n) } : n \in Sizes }

Slides == { Slide("slideup", n, d) : n \in {5, 8, 9}, d \in {0, 1, 3, 4, 5} }
     \cup { Slide("slidedown", n, d) : n \in {5, 8, 9}, d \in {0, 1, 3, 4, 5} }

\* Slides the code handles: the offset is less than vl (else the number of
\* iterations wraps around), and the borrow described in README for the others.
Handled(i) == /\ i.off < i.bytes
              /\ ~(i.kind = "slidedown" /\ i.bytes % 4 = 0 /\ i.off % 4 # 0)

Loads  == { Access("load", l, n) : l \in Lanes, n \in Sizes }
     \cup { Strided("load", s, n) : s \in {0, 8, 12}, n \in {4, 8} }
Stores == { Access("store", 0, n) : n \in Sizes }
     \cup { Strided("store", s, n) : s \in {0, 8, 12}, n \in {4, 8} }

Vectors == Arith \cup { i \in Slides : Handled(i) } \cup Loads \cup Stores

\* Before each a load, a store, an arithmetic instruction or a scalar store,
\* behind each one that uses the LSU and one that does not; then a scalar load
\* of what was written.
Before == { Access("load", 1, 5), Access("store", 0, 5), Op("macc_vv", <<0, 1, 2>>, 5),
            ScalarAccess("sw", 2, 3) }
Behind == { Op("macc_vv", <<0, 1, 2>>, 5), ScalarAccess("sw", 2, 3) }

MCPrograms ==
     { <<a, v, ScalarAccess("lw", 4, 2)>> : a \in Before, v \in Vectors }
\cup { <<v, a, ScalarAccess("lw", 17, 1)>> : a \in Behind, v \in Vectors }

\* The delays the core tolerates.
MCLateGrant  == {<<"arith", "VRF">>, <<"load", "LSU">>, <<"store", "VRF">>, <<"scalar", "LSU">>}
MCLateAnswer == {<<"load", "LSU">>, <<"store", "LSU">>, <<"scalar", "LSU">>}
NoneLate     == {}

\* One instruction, for the run with bubbles.
OneAdd == {<<Op("vx", <<0, 1, 2>>, 4)>>}
=============================================================================
