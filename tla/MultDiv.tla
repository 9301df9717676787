-------------------------------- MODULE MultDiv --------------------------------
(***************************************************************************)
(* The multiplier and divider (rtl/vcve2_multdiv_fast.sv), with the ALU's  *)
(* adder as the divider uses it (rtl/vcve2_ex_block.sv, rtl/vcve2_alu.sv)  *)
(* and the two intermediate value registers (rtl/vcve2_id_stage.sv).       *)
(*                                                                         *)
(* The width is a parameter: 2 * H bits, where the code has H = 16, with   *)
(* the same halves and quarters.  A step is one cycle.  The instruction    *)
(* stays in ID until valid_o; Pipeline has the stall.                      *)
(***************************************************************************)
EXTENDS Integers, FiniteSets

CONSTANTS
  H,         \* bits of half a word
  Operands,  \* values of the operands
  Corners,   \* operands of one instruction of any two in a row
  Length,    \* instructions from reset on
  Builds     \* pairs of a multiplier, and an operation it is given

VARIABLES
  RV32M,                   \* the multiplier that is built: a parameter of the code
  valid, instr,            \* the instruction in ID
  imd_val_q,               \* intermediate values, of W + 2 bits
  mult_state_q,
  md_state_q, div_counter_q, op_numerator_q, op_quotient_q, div_by_zero_q,
  left,                    \* bound: instructions still to come
  cycle                    \* history: cycles that instr has been in EX

mdVars == <<imd_val_q, mult_state_q, md_state_q, div_counter_q,
            op_numerator_q, op_quotient_q, div_by_zero_q>>
vars   == <<RV32M, valid, instr, mdVars, left, cycle>>

W       == 2 * H
Q       == H \div 2
Word    == 0 .. 2^W - 1

\* The instructions: operator_i and signed_mode_i (of op_a, of op_b).
Ops == {"mul", "mulh", "mulhsu", "mulhu", "div", "divu", "rem", "remu", "vmul_8", "vmul_16"}
Multipliers == {"SingleCycle", "Fast"}

operator_of(op) == CASE op \in {"mul", "vmul_8", "vmul_16"} -> "MULL"
                     [] op \in {"mulh", "mulhsu", "mulhu"}  -> "MULH"
                     [] op \in {"div", "divu"}              -> "DIV"
                     [] op \in {"rem", "remu"}              -> "REM"
signed_a(op) == op \in {"mulh", "mulhsu", "div", "rem"}
signed_b(op) == op \in {"mulh", "div", "rem"}

ASSUME MultDivAssumption ==
  /\ H \in {2, 4, 8, 16}
  /\ Operands \subseteq Word /\ Corners \subseteq Operands /\ Length \in Nat
  /\ Builds \subseteq Multipliers \X Ops
  /\ \A b \in Builds : b[2] \in {"vmul_8", "vmul_16"} => b[1] = "SingleCycle"

-----------------------------------------------------------------------------
(* Fields of words.                                                        *)

Lo(x)        == x % 2^H
Hi(x)        == (x \div 2^H) % 2^H
BitOf(x, i)  == (x \div 2^i) % 2 = 1
Msb(x)       == BitOf(x, W - 1)
\* {sign, x} as a signed number, for an x of n bits.
Signed(sign, x, n) == IF sign THEN x - 2^n ELSE x

op     == operator_of(instr.op)
a      == instr.a
b      == instr.b
sign_a == signed_a(instr.op) /\ Msb(a)
sign_b == signed_b(instr.op) /\ Msb(b)

vector  == instr.op \in {"vmul_8", "vmul_16"}
mult_en == valid /\ op \in {"MULL", "MULH"}
div_en  == valid /\ op \in {"DIV", "REM"}
div_sel == op \in {"DIV", "REM"}

-----------------------------------------------------------------------------
(* Single-cycle multiplier: three products in MULL, one in MULH.  For      *)
(* vectors its multipliers work on a lane each.                            *)

\* The upper part of the intermediate value, extended by its sign.
accum == LET i == imd_val_q[0] IN
         (i \div 2^H) + (IF signed_a(instr.op) /\ BitOf(i, W + 1)
                         THEN 2^(W + 2) - 2^(H + 2) ELSE 0)

Mult1 == Lo(a) * Lo(b)
Mult2 == Lo(a) * Signed(sign_b, Hi(b), H)
Mult3 == Signed(sign_a, Hi(a), H)
           * (IF mult_state_q = "MULL" THEN Lo(b) ELSE Signed(sign_b, Hi(b), H))

\* An intermediate value is read back as a signed number.
AsSigned(x) == Signed(BitOf(x, W + 1), x, W + 2)

single_mac_res == IF mult_state_q = "MULL" THEN Hi(Mult1) + Mult2 + Mult3
                                           ELSE AsSigned(accum) + Mult3

Lane(x, n, l)   == (x \div 2^(n * l)) % 2^n
LaneSigned(x, n, l) == Signed(BitOf(x, n * l + n - 1), Lane(x, n, l), n)

mult_res_vec ==
  IF instr.op = "vmul_8"
  THEN LET p(l) == Lane(LaneSigned(a, Q, l) * LaneSigned(b, Q, l), Q, 0)
       IN p(0) + 2^Q * p(1) + 2^(2 * Q) * p(2) + 2^(3 * Q) * p(3)
  ELSE Lane(LaneSigned(a, H, 0) * LaneSigned(b, H, 0), H, 0)
         + 2^H * Lane(Lane(a, H, 1) * Lane(b, H, 1), H, 0)

\* All cases lose the two bits above the word.
single_mac_res_d ==
  IF vector THEN mult_res_vec
  ELSE IF mult_state_q = "MULL" /\ op = "MULL"
       THEN 2^H * Lo(single_mac_res) + Lo(Mult1)
  ELSE single_mac_res % 2^W

single_valid   == IF mult_state_q = "MULL" THEN mult_en /\ op = "MULL" ELSE TRUE
single_state_d == IF mult_state_q = "MULL" /\ op # "MULL" THEN "MULH" ELSE "MULL"

-----------------------------------------------------------------------------
(* Fast multiplier: one product per cycle.                                 *)

fast_a == IF mult_state_q \in {"ALBL", "ALBH"} THEN Lo(a) ELSE Signed(sign_a, Hi(a), H)
fast_b == IF mult_state_q \in {"ALBL", "AHBL"} THEN Lo(b) ELSE Signed(sign_b, Hi(b), H)

fast_accum == CASE mult_state_q = "ALBL" -> 0
                [] mult_state_q = "ALBH" -> Hi(imd_val_q[0])
                [] mult_state_q = "AHBL" -> IF op = "MULL" THEN Hi(imd_val_q[0]) ELSE imd_val_q[0]
                [] mult_state_q = "AHBH" -> accum

fast_mac_res == fast_a * fast_b + AsSigned(fast_accum)

fast_mac_res_d == IF op = "MULL" /\ mult_state_q \in {"ALBH", "AHBL"}
                  THEN 2^H * Lo(fast_mac_res) + Lo(imd_val_q[0])
                  ELSE fast_mac_res % 2^(W + 2)

\* mutant: MULL waits for AHBH as well
AllFour == mult_state_q = "AHBH"
fast_valid == mult_state_q = IF op = "MULL" THEN "AHBL" ELSE "AHBH"

fast_state_d == CASE mult_state_q = "ALBL" -> "ALBH"
                  [] mult_state_q = "ALBH" -> "AHBL"
                  [] mult_state_q = "AHBL" -> IF op = "MULL" THEN "ALBL" ELSE "AHBH"
                  [] mult_state_q = "AHBH" -> "ALBL"

-----------------------------------------------------------------------------
Single       == RV32M = "SingleCycle"
mac_res_d    == IF Single THEN single_mac_res_d ELSE fast_mac_res_d
mult_valid   == IF Single THEN single_valid ELSE fast_valid
mult_state_d == IF Single THEN single_state_d ELSE fast_state_d

-----------------------------------------------------------------------------
(* Divider: long division of absolute values.  The adder of the ALU gives  *)
(* x - y for alu_operand_a_o = {x, 1}, alu_operand_b_o = {~y, 1}.          *)

MdIs(s) == md_state_q = s

Minus(x, y) == (x - y) % 2^W

remainder_q      == imd_val_q[0] % 2^W
op_denominator_q == imd_val_q[1] % 2^W
res_adder_h      == Minus(remainder_q, op_denominator_q)

is_greater_equal == IF Msb(remainder_q) = Msb(op_denominator_q)
                    THEN ~Msb(res_adder_h) ELSE Msb(remainder_q)

next_remainder == IF is_greater_equal THEN res_adder_h ELSE remainder_q
next_quotient  == op_quotient_q
                    + (IF is_greater_equal /\ ~BitOf(op_quotient_q, div_counter_q)
                       THEN 2^div_counter_q ELSE 0)

\* mutant: the sign of the quotient does not look at the divisor
SignOfA         == sign_a /\ ~div_by_zero_q
div_change_sign == sign_a # sign_b /\ ~div_by_zero_q
rem_change_sign == sign_a

div_counter_d == IF md_state_q \in {"MD_IDLE", "MD_ABS_A", "MD_ABS_B"} THEN W - 1
                 ELSE (div_counter_q - 1) % W

op_remainder_d ==
  CASE MdIs("MD_IDLE") -> IF op = "DIV" THEN 2^(W + 2) - 1 ELSE a
    [] MdIs("MD_ABS_B") -> op_numerator_q \div 2^(W - 1)
    [] MdIs("MD_COMP")  -> 2 * next_remainder + ((op_numerator_q \div 2^div_counter_d) % 2)
    [] MdIs("MD_LAST")  -> IF op = "DIV" THEN next_quotient ELSE next_remainder
    [] MdIs("MD_CHANGE_SIGN") ->
         IF (IF op = "DIV" THEN div_change_sign ELSE rem_change_sign)
         THEN Minus(0, remainder_q) ELSE imd_val_q[0]
    [] OTHER -> imd_val_q[0]

AfterComp    == IF div_counter_q = 1 THEN "MD_LAST" ELSE "MD_COMP"

md_state_d ==
  CASE MdIs("MD_IDLE")        -> IF Minus(0, b) = 0 THEN "MD_FINISH" ELSE "MD_ABS_A"
    [] MdIs("MD_ABS_A")       -> "MD_ABS_B"
    [] MdIs("MD_ABS_B")       -> "MD_COMP"
    [] MdIs("MD_COMP")        -> AfterComp
    [] MdIs("MD_LAST")        -> "MD_CHANGE_SIGN"
    [] MdIs("MD_CHANGE_SIGN") -> "MD_FINISH"
    [] MdIs("MD_FINISH")      -> "MD_IDLE"

valid_o == mult_valid \/ MdIs("MD_FINISH")
multdiv_result_o == IF div_sel THEN remainder_q ELSE mac_res_d % 2^W

-----------------------------------------------------------------------------
InstrsWith(values) ==
  { [op |-> p[2], a |-> x, b |-> y] :
      p \in { p \in Builds : p[1] = RV32M }, x \in values, y \in values }
Instrs == InstrsWith(Operands)

\* A bound: of two instructions in a row, one has operands in Corners.
Following(i) == IF {i.a, i.b} \subseteq Corners THEN Instrs ELSE InstrsWith(Corners)

Init ==
  /\ RV32M \in { p[1] : p \in Builds }
  /\ valid = FALSE /\ instr \in InstrsWith(Corners)
  /\ left = Length /\ cycle = 1
  /\ imd_val_q = [i \in {0, 1} |-> 0]
  /\ mult_state_q = IF Single THEN "MULL" ELSE "ALBL"
  /\ md_state_q = "MD_IDLE" /\ div_counter_q = 0
  /\ op_numerator_q = 0 /\ op_quotient_q = 0 /\ div_by_zero_q = FALSE

MultClock == mult_state_q' = IF mult_en THEN mult_state_d ELSE mult_state_q

DivClock ==
  IF div_en
  THEN /\ md_state_q' = md_state_d /\ div_counter_q' = div_counter_d
       /\ op_numerator_q' = IF MdIs("MD_ABS_A") THEN IF sign_a THEN Minus(0, a) ELSE a
                            ELSE op_numerator_q
       /\ op_quotient_q' = CASE MdIs("MD_ABS_A") -> 0
                             [] MdIs("MD_COMP")  -> next_quotient
                             [] OTHER            -> op_quotient_q
       /\ div_by_zero_q' = IF MdIs("MD_IDLE") /\ op = "DIV" THEN b = 0 ELSE div_by_zero_q
  ELSE UNCHANGED <<md_state_q, div_counter_q, op_numerator_q, op_quotient_q, div_by_zero_q>>

op_denominator_d == IF MdIs("MD_ABS_B") THEN IF sign_b THEN Minus(0, b) ELSE b
                    ELSE op_denominator_q

ImdClock ==
  imd_val_q' = [i \in {0, 1} |->
    CASE i = 0 /\ div_en  -> op_remainder_d
      [] i = 0 /\ mult_en -> mac_res_d
      [] i = 1 /\ div_en  -> op_denominator_d
      [] OTHER            -> imd_val_q[i]]

\* The next instruction comes at once, or after cycles with ID empty.
IdClock ==
  IF valid /\ ~valid_o
  THEN UNCHANGED <<valid, instr, left>> /\ cycle' = cycle + 1
  ELSE /\ valid' \in IF left > 0 THEN BOOLEAN ELSE {FALSE}
       /\ left' = IF valid' THEN left - 1 ELSE left
       /\ instr' \in IF valid' THEN Following(instr) ELSE {instr}
       /\ cycle' = 1

Clock == MultClock /\ DivClock /\ ImdClock /\ IdClock /\ RV32M' = RV32M

Spec == Init /\ [][Clock]_vars

-----------------------------------------------------------------------------
(* Properties.                                                             *)

\* The value of an operand, quotients rounded towards zero, and what each
\* instruction computes.  Division by zero gives -1 with the dividend as the
\* remainder, and the one quotient that is too large wraps around.
Value(x, signed) == IF signed /\ x >= 2^(W - 1) THEN x - 2^W ELSE x
Abs(n)           == IF n < 0 THEN -n ELSE n
Quotient(n, d)   == IF (n < 0) # (d < 0) THEN -(Abs(n) \div Abs(d)) ELSE Abs(n) \div Abs(d)

Lanes(n) == { l \in 0 .. 3 : n * l < W }
Result(i) ==
  LET x == Value(i.a, signed_a(i.op))
      y == Value(i.b, signed_b(i.op))
      LaneProducts(n) == [l \in Lanes(n) |-> (Lane(i.a, n, l) * Lane(i.b, n, l)) % 2^n]
  IN CASE i.op = "mul" -> (x * y) % 2^W
       [] i.op \in {"mulh", "mulhsu", "mulhu"} -> ((x * y) \div 2^W) % 2^W
       [] i.op \in {"div", "divu"} -> IF y = 0 THEN 2^W - 1 ELSE Quotient(x, y) % 2^W
       [] i.op \in {"rem", "remu"} -> IF y = 0 THEN i.a ELSE (x - y * Quotient(x, y)) % 2^W
       [] i.op = "vmul_8"  -> CHOOSE r \in Word : \A l \in Lanes(Q) : Lane(r, Q, l) = LaneProducts(Q)[l]
       [] i.op = "vmul_16" -> CHOOSE r \in Word : \A l \in Lanes(H) : Lane(r, H, l) = LaneProducts(H)[l]

\* Whatever instructions came before and left in the registers they share,
\* an instruction is given its result.
ResultCorrect == valid /\ valid_o => multdiv_result_o = Result(instr)

\* Each instruction takes the cycles its kind takes, so the FSMs were at rest
\* when it started: "MUL instructions in a single cycle and MULH instructions
\* in two", "MUL instructions in 3 cycles and MULH instructions in 4"; a
\* division one for each bit and five more, unless it is by zero.
Cycles(i) ==
  CASE operator_of(i.op) = "MULL" -> IF Single THEN 1 ELSE 3
    [] operator_of(i.op) = "MULH" -> IF Single THEN 2 ELSE 4
    [] OTHER -> IF i.b = 0 THEN 2 ELSE W + 5

Latency == valid => cycle <= Cycles(instr) /\ (valid_o <=> cycle = Cycles(instr))
=============================================================================
