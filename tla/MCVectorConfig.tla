---------------------------- MODULE MCVectorConfig ----------------------------
(***************************************************************************)
(* Model checking VectorConfig: all types (of the reserved SEWs, one) with *)
(* AVL from the register that is written and with vl kept, and words for   *)
(* the other sources of AVL and of the type, among them each pair of       *)
(* registers that may be the same one.  VLEN = 32 makes VLMAX 1 to 32, and *)
(* the values of register a are around some of these and their doubles;    *)
(* those of b, and as types those of a, are supported and others.          *)
(***************************************************************************)
EXTENDS VectorConfig

CONSTANTS a, b

MCRegs   == {a, b}
MCValues == [r \in MCRegs |-> IF r = a THEN {0, 1, 3, 7, 16, 17, 31, 32, 63, 65}
                                       ELSE {7, 17, 40}]

Vset(form, rd, rs1, rs2, uimm, zimm) ==
  [kind |-> "vset", form |-> form, rd |-> rd, rs1 |-> rs1, rs2 |-> rs2,
   uimm |-> uimm, zimm |-> zimm]

\* vtype of SEW = 8 * 2^sew and LMUL = 2^lmul
Type(sew, lmul) == 8 * sew + (lmul % 8)
MCTypes == { Type(sew, lmul) : sew \in 0 .. 3, lmul \in -4 .. 3 }

StraightWords ==
  { [kind |-> "op"] }
  \cup { Vset("vsetvli", a, a, x0, 0, t) : t \in MCTypes }
  \cup { Vset("vsetvli", x0, x0, x0, 0, t) : t \in MCTypes }
  \cup { Vset("vsetivli", a, x0, x0, 5, Type(1, 0)), Vset("vsetvli", x0, a, x0, 0, Type(0, -1)) }
  \cup { Vset("vsetvl", w[1], w[2], w[3], 0, 0) :
           w \in {<<a, a, b>>, <<x0, x0, b>>, <<x0, a, a>>, <<a, b, x0>>, <<a, b, a>>, <<a, a, a>>} }

BranchWords == { [kind |-> "branch"], Vset("vsetivli", a, x0, x0, 5, Type(0, 1)) }
=============================================================================
