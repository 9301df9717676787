------------------------------- MODULE MCMultDiv -------------------------------
(***************************************************************************)
(* Model checking MultDiv: words of eight bits, so that lanes have two and *)
(* four, and operands at the limits of the word, its halves and its        *)
(* lanes, signed and unsigned.                                             *)
(***************************************************************************)
EXTENDS MultDiv

MCOperands == {0, 1, 7, 15, 16, 127, 128, 129, 170, 255}

MCCorners == {0, 129}

Divisions == {"div", "divu", "rem", "remu"}

\* All that the multipliers get right (see README for MULH on the first).
MCBuilds == ({"SingleCycle"} \X (Divisions \cup {"mul", "vmul_8", "vmul_16"}))
              \cup ({"Fast"} \X (Divisions \cup {"mul", "mulh", "mulhsu", "mulhu"}))

SingleMulh == {<<"SingleCycle", "mulh">>}
=============================================================================
