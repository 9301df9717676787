----------------------------- MODULE VectorConfig -----------------------------
(***************************************************************************)
(* vset{i}vl{i}: the vector configuration (rtl/vcve2_core.sv), and the     *)
(* write of the new vl to the register rd (rtl/vcve2_wb.sv).               *)
(*                                                                         *)
(* The decoder derives vcfg_write_o from the bits in the IF-ID register    *)
(* and nothing qualifies it, so what matters is how long they stay there   *)
(* and whether they are valid.  Pipeline has that control; here, an        *)
(* instruction other than vset leaves ID at any time, and a vset in its    *)
(* first cycle: nothing stalls it, and the controller is in DECODE when    *)
(* valid instructions other than the special ones are in ID.               *)
(*                                                                         *)
(* vma and vta are left out: nothing reads them.                           *)
(***************************************************************************)
EXTENDS Integers

CONSTANTS
  VLEN,      \* bits of a vector register
  Regs,      \* the registers the program uses
  x0,        \* the register that is zero
  Values,    \* for each register, what other instructions may write to it
  Words,     \* the instructions that may be fetched
  Reserved   \* do programs use "keep vl" where the standard reserves it?

VARIABLES
  instr_valid_id_q, instr,        \* IF-ID register
  rf,                             \* register file
  vsew_q, vlmul_q, vl_q, vill_q   \* SEW = 8 * 2^vsew, LMUL = 2^vlmul

config == <<vsew_q, vlmul_q, vl_q, vill_q>>
vars   == <<instr_valid_id_q, instr, rf, config>>

\* The fields of three bits, vlmul as signed.
Sews  == 0 .. 7
Lmuls == -4 .. 3

\* vsetvli takes the type from zimm and AVL from rs1, vsetivli AVL from uimm,
\* and vsetvl the type from rs2.
VsetWords == [kind : {"vset"}, form : {"vsetvli", "vsetivli", "vsetvl"},
              rd : Regs \cup {x0}, rs1 : Regs \cup {x0}, rs2 : Regs \cup {x0},
              uimm : Nat, zimm : Nat]
OtherWords == [kind : {"op", "branch"}]

ASSUME ConfigAssumption ==
  /\ VLEN \in {8 * 2^n : n \in 2 .. 10}
  /\ x0 \notin Regs
  /\ Values \in [Regs -> SUBSET Nat]
  /\ \A w \in Words :
       IF w.kind = "vset"
       THEN w \in VsetWords /\ (w.form # "vsetivli" /\ w.rs1 = x0 => w.rd = x0)
       ELSE w \in OtherWords
  /\ Reserved \in BOOLEAN

-----------------------------------------------------------------------------
(* Decoder.  rs1 = x0 with rd # x0 is left out (see ConfigAssumption).  It *)
(* raises vl_max_o, "set vl to VLMAX", which is connected to nothing, so   *)
(* that AVL is the 0 of x0.                                                *)

vcfg_write == instr.kind = "vset"
vl_keep    == vcfg_write /\ instr.form # "vsetivli" /\ instr.rs1 = x0 /\ instr.rd = x0

\* The operands, from the registers as they are in this cycle.
Read(r)       == IF r = x0 THEN 0 ELSE rf[r]
avl           == IF instr.form = "vsetivli" THEN instr.uimm ELSE Read(instr.rs1)
alu_operand_b == IF instr.form = "vsetvl" THEN Read(instr.rs2) ELSE instr.zimm

-----------------------------------------------------------------------------
(* The next configuration.                                                 *)

\* Three bits each of operand b, the lower three with a sign.
vsew_d  == IF vcfg_write THEN (alu_operand_b \div 8) % 8 ELSE vsew_q
vlmul_d == IF vcfg_write THEN ((alu_operand_b + 4) % 8) - 4 ELSE vlmul_q

VlMax(sew, lmul) == IF lmul > 0 THEN ((VLEN \div 8) \div 2^sew) * 2^lmul
                                ELSE ((VLEN \div 8) \div 2^sew) \div 2^(-lmul)

Supported(sew, lmul) == \/ sew = 0 /\ lmul \in -2 .. 3
                        \/ sew = 1 /\ lmul \in -1 .. 3
                        \/ sew = 2 /\ lmul \in 0 .. 3

\* The table of changes that keep vl: SEW and LMUL scale alike.
KeepsVl(sew, lmul) ==
  /\ {vsew_q, sew} \subseteq 0 .. 2
  /\ lmul - vlmul_q = sew - vsew_q
  /\ sew # vsew_q => -4 \notin {vlmul_q, lmul}

\* mutant: half of an odd AVL is rounded down
RoundedDown(max) == IF avl <= max THEN avl ELSE IF avl <= 2 * max THEN avl \div 2 ELSE max
SetVl(max) == IF avl <= max THEN avl
              ELSE IF avl <= 2 * max THEN (avl \div 2) + (avl % 2) ELSE max

vl_d == IF ~vcfg_write \/ vl_keep THEN vl_q
        ELSE IF Supported(vsew_d, vlmul_d) THEN SetVl(VlMax(vsew_d, vlmul_d)) ELSE 0

vill_d == IF ~vcfg_write THEN vill_q
          ELSE IF vl_keep THEN ~KeepsVl(vsew_d, vlmul_d)
          ELSE ~Supported(vsew_d, vlmul_d)

-----------------------------------------------------------------------------
(* Vector loads and stores encode their own element width, and LMUL is     *)
(* scaled with it, in three bits.                                          *)

\* mutant: scaled the other way
ScaledBack(eew) == (((vlmul_q + vsew_q - eew) + 4) % 8) - 4
mem_lmul(eew)   == (((vlmul_q + eew - vsew_q) + 4) % 8) - 4

-----------------------------------------------------------------------------
RegisterFiles == { f \in [Regs -> UNION { Values[r] : r \in Regs }] :
                     \A r \in Regs : f[r] \in Values[r] }

Init ==
  /\ instr_valid_id_q = FALSE /\ instr = [kind |-> "op"]
  /\ rf \in RegisterFiles
  /\ vsew_q = 2 /\ vlmul_q = 0 /\ vl_q = 0 /\ vill_q = FALSE

ConfigClock ==
  /\ vsew_q'  = vsew_d
  /\ vlmul_q' = vlmul_d
  /\ vl_q'    = vl_d
  /\ vill_q'  = vill_d

\* executes: the valid instruction is in its last cycle.
RfClock(executes) ==
  IF vcfg_write THEN rf' = IF instr.rd = x0 THEN rf ELSE [rf EXCEPT ![instr.rd] = vl_d]
  ELSE \/ rf' = rf
       \/ /\ executes /\ instr.kind = "op"
          /\ \E r \in Regs : \E v \in Values[r] : rf' = [rf EXCEPT ![r] = v]

\* A taken branch sets the PC in its last cycle, when ID is ready and takes
\* an instruction that has been fetched from after the branch; it is
\* "squashed by the incoming pc_set_i", which makes it invalid.
IfIdClock(executes, new_instr) ==
  /\ instr_valid_id_q' = \/ new_instr /\ ~(executes /\ instr.kind = "branch")
                         \/ instr_valid_id_q /\ ~executes
  /\ IF new_instr THEN instr' \in Words ELSE instr' = instr

\* The standard reserves "keep vl" for types with the same VLMAX.
ProgramRule == instr_valid_id_q /\ vl_keep /\ ~Reserved =>
                 /\ ~vill_q
                 /\ Supported(vsew_d, vlmul_d)
                 /\ VlMax(vsew_d, vlmul_d) = VlMax(vsew_q, vlmul_q)

Clock ==
  \E last, fetch_valid \in BOOLEAN :
    LET executes == instr_valid_id_q /\ (last \/ vcfg_write) IN
      /\ ConfigClock
      /\ RfClock(executes)
      /\ IfIdClock(executes, fetch_valid /\ (instr_valid_id_q => executes))
      /\ ProgramRule'

Spec == Init /\ [][Clock]_vars

-----------------------------------------------------------------------------
(* Properties.                                                             *)

\* What one vset must do, from the standard: its type is supported if an
\* element of 32 bits would not be less than SEW / LMUL; VLMAX = LMUL * VLEN / SEW;
\* vl is AVL if that fits, VLMAX if AVL is at least twice that, and at least
\* half of AVL in between.
TypeSupported(sew, lmul) ==
  sew \in 0 .. 2 /\ lmul # -4 /\ 8 * 2^sew * 16 <= 32 * 2^(lmul + 4)
StandardVlMax(sew, lmul) ==
  CHOOSE n \in 0 .. VLEN : n * 8 * 2^sew * 16 = VLEN * 2^(lmul + 4)

VlFor(vl, max) == /\ vl <= max
                  /\ avl <= max => vl = avl
                  /\ avl >= 2 * max => vl = max
                  /\ 2 * vl >= avl \/ vl = max

\* Computed from the operands as they are now.
VsetDone ==
  /\ vsew_q' = vsew_d /\ vlmul_q' = vlmul_d
  /\ vill_q' = ~TypeSupported(vsew_d, vlmul_d)
  /\ vl_keep => vl_q' = vl_q
  /\ ~vl_keep => IF vill_q' THEN vl_q' = 0
                 ELSE VlFor(vl_q', StandardVlMax(vsew_d, vlmul_d))
  /\ rf' = IF instr.rd = x0 THEN rf ELSE [rf EXCEPT ![instr.rd] = vl_q']

\* A vsetvl that writes the new vl over its own type.
OverwritesType ==
  vcfg_write /\ instr.form = "vsetvl" /\ instr.rd # x0 /\ instr.rd = instr.rs2

\* The configuration and the registers change as the instructions that are
\* executed say, each once: the bits of a vset that stay in ID after it, and
\* compute again from the registers, one of which it may have written with the
\* new vl, change nothing, and neither does a vset that was fetched but is not
\* executed.  The exception is a vsetvl with rd = rs2: it is done once more, with
\* vl as its type, in every cycle its bits stay (see the README).
ConfigFollowsProgram ==
  [][IF vcfg_write /\ (instr_valid_id_q \/ OverwritesType) THEN VsetDone
     ELSE /\ UNCHANGED config
          /\ ~instr_valid_id_q \/ instr.kind # "op" => UNCHANGED rf]_vars

\* In a supported configuration vl elements fit into a register group, and so
\* they do for the element width of a load or store when the scaled LMUL is
\* supported: the arithmetic in three bits never wraps around to one.
GroupHoldsVl ==
  ~vill_q => /\ Supported(vsew_q, vlmul_q) /\ vl_q <= VlMax(vsew_q, vlmul_q)
             /\ \A eew \in 0 .. 2 : Supported(eew, mem_lmul(eew)) =>
                                      vl_q <= VlMax(eew, mem_lmul(eew))
=============================================================================
