-------------------------- MODULE VectorConfigProofs --------------------------
(***************************************************************************)
(* Proofs about the vector configuration, for every VLEN, any registers    *)
(* and values and any straight-line program that uses "keep vl" as the     *)
(* standard allows.  (After a taken branch a vset that is not executed     *)
(* changes the configuration: see the README.)                             *)
(***************************************************************************)
EXTENDS VectorConfig, TLAPS

\* Straight-line programs that keep vl only where the standard allows it.
Standard == ~Reserved /\ \A w \in Words : w.kind # "branch"

-----------------------------------------------------------------------------
(* VLMAX, in units of that of the smallest supported group.                *)

M == VLEN \div 32

\* What a supported type multiplies it with: it depends on LMUL / SEW only.
Groups(d) == CASE d = -2 -> 1 [] d = -1 -> 2 [] d = 0 -> 4
               [] d = 1 -> 8 [] d = 2 -> 16 [] d = 3 -> 32

\* The provers calculate with powers whose exponent is a number only.
Power(k) == 2^k

LEMMA SmallPowers ==
  /\ Power(0) = 1 /\ Power(1) = 2 /\ Power(2) = 4 /\ Power(3) = 8
  /\ Power(4) = 16 /\ Power(5) = 32 /\ Power(6) = 64 /\ Power(7) = 128
BY DEF Power

LEMMA VlMaxPowers ==
  ASSUME NEW sew, NEW lmul
  PROVE  VlMax(sew, lmul) = IF lmul > 0 THEN ((VLEN \div 8) \div Power(sew)) * Power(lmul)
                                        ELSE ((VLEN \div 8) \div Power(sew)) \div Power(-lmul)
BY Zenon DEF VlMax, Power

LEMMA SmallestGroup == M \in Nat \ {0} /\ VLEN = 32 * M
<1>1. PICK n \in 2 .. 10 : VLEN = 8 * 2^n
  BY ConfigAssumption
<1>2. CASE n \in 2 .. 4
  <2>1. CASE n = 2
    BY <1>1, <2>1, 2^2 = 4 DEF M
  <2>2. CASE n = 3
    BY <1>1, <2>2, 2^3 = 8 DEF M
  <2>3. CASE n = 4
    BY <1>1, <2>3, 2^4 = 16 DEF M
  <2>. QED  BY <1>2, <2>1, <2>2, <2>3
<1>3. CASE n \in 5 .. 7
  <2>1. CASE n = 5
    BY <1>1, <2>1, 2^5 = 32 DEF M
  <2>2. CASE n = 6
    BY <1>1, <2>2, 2^6 = 64 DEF M
  <2>3. CASE n = 7
    BY <1>1, <2>3, 2^7 = 128 DEF M
  <2>. QED  BY <1>3, <2>1, <2>2, <2>3
<1>4. CASE n \in 8 .. 10
  <2>1. CASE n = 8
    BY <1>1, <2>1, 2^8 = 256 DEF M
  <2>2. CASE n = 9
    BY <1>1, <2>2, 2^9 = 512 DEF M
  <2>3. CASE n = 10
    BY <1>1, <2>3, 2^10 = 1024 DEF M
  <2>. QED  BY <1>4, <2>1, <2>2, <2>3
<1>. QED  BY <1>2, <1>3, <1>4

\* The number of elements in one register.
LEMMA PerRegister ==
  ASSUME NEW sew \in 0 .. 2
  PROVE  (VLEN \div 8) \div Power(sew) = IF sew = 0 THEN 4 * M ELSE IF sew = 1 THEN 2 * M ELSE M
<1>1. VLEN \div 8 = 4 * M /\ M \in Nat
  BY SmallestGroup
<1>2. Power(sew) = IF sew = 0 THEN 1 ELSE IF sew = 1 THEN 2 ELSE 4
  BY SmallPowers
<1>3. /\ (4 * M) \div 1 = 4 * M /\ (4 * M) \div 2 = 2 * M /\ (4 * M) \div 4 = M
  BY <1>1
<1>. QED  BY <1>1, <1>2, <1>3

LEMMA VlMaxValue ==
  ASSUME NEW sew \in Int, NEW lmul \in Int, Supported(sew, lmul)
  PROVE  /\ lmul - sew \in -2 .. 3
         /\ VlMax(sew, lmul) = M * Groups(lmul - sew) /\ VlMax(sew, lmul) \in Nat
<1>1. M \in Nat
  BY SmallestGroup
<1>2. sew \in 0 .. 2 /\ lmul \in sew - 2 .. 3
  BY DEF Supported
<1>3. CASE lmul > 0
  <2>1. Power(lmul) = IF lmul = 1 THEN 2 ELSE IF lmul = 2 THEN 4 ELSE 8
    BY <1>2, <1>3, SmallPowers
  <2>2. VlMax(sew, lmul) = (IF sew = 0 THEN 4 * M ELSE IF sew = 1 THEN 2 * M ELSE M)
                             * (IF lmul = 1 THEN 2 ELSE IF lmul = 2 THEN 4 ELSE 8)
    BY <1>2, <1>3, <2>1, PerRegister, VlMaxPowers
  <2>3. CASE sew = 0
    BY <1>1, <1>2, <1>3, <2>2, <2>3 DEF Groups
  <2>4. CASE sew = 1
    BY <1>1, <1>2, <1>3, <2>2, <2>4 DEF Groups
  <2>5. CASE sew = 2
    BY <1>1, <1>2, <1>3, <2>2, <2>5 DEF Groups
  <2>. QED  BY <1>2, <2>3, <2>4, <2>5
<1>4. CASE lmul <= 0
  <2>1. -lmul \in 0 .. 2 /\ Power(-lmul) = IF lmul = 0 THEN 1 ELSE IF lmul = -1 THEN 2 ELSE 4
    BY <1>2, <1>4, SmallPowers
  <2>2. VlMax(sew, lmul) = (IF sew = 0 THEN 4 * M ELSE IF sew = 1 THEN 2 * M ELSE M)
                             \div (IF lmul = 0 THEN 1 ELSE IF lmul = -1 THEN 2 ELSE 4)
    BY <1>2, <1>4, <2>1, PerRegister, VlMaxPowers
  <2>3. CASE sew = 0
    BY <1>1, <1>2, <1>4, <2>2, <2>3 DEF Groups
  <2>4. CASE sew = 1
    BY <1>1, <1>2, <1>4, <2>2, <2>4 DEF Groups
  <2>5. CASE sew = 2
    BY <1>1, <1>2, <1>4, <2>2, <2>5 DEF Groups
  <2>. QED  BY <1>2, <2>3, <2>4, <2>5
<1>. QED  BY <1>2, <1>3, <1>4

\* So two supported types with the same LMUL / SEW have the same VLMAX.
LEMMA SameVlMax ==
  ASSUME NEW s \in Int, NEW l \in Int, NEW t \in Int, NEW k \in Int,
         Supported(s, l), Supported(t, k), l - s = k - t
  PROVE  VlMax(s, l) = VlMax(t, k)
BY VlMaxValue

\* A different one has another.
LEMMA OtherVlMax ==
  ASSUME NEW s \in Int, NEW l \in Int, NEW t \in Int, NEW k \in Int,
         Supported(s, l), Supported(t, k), VlMax(s, l) = VlMax(t, k)
  PROVE  l - s = k - t
<1>1. M * Groups(l - s) = M * Groups(k - t) /\ l - s \in -2 .. 3 /\ k - t \in -2 .. 3
  BY VlMaxValue
<1>2. \A d \in -2 .. 3 : Groups(d) \in {1, 2, 4, 8, 16, 32}
  BY DEF Groups
<1>3. \A d, e \in -2 .. 3 : Groups(d) = Groups(e) => d = e
  BY DEF Groups
<1>4. \A x, y \in {1, 2, 4, 8, 16, 32} : M * x = M * y => x = y
  BY SmallestGroup
<1>. QED  BY <1>1, <1>2, <1>3, <1>4

\* The types the code supports are those the standard requires, and its VLMAX
\* is the standard's.
LEMMA StandardTypes ==
  ASSUME NEW sew \in Sews, NEW lmul \in Lmuls
  PROVE  TypeSupported(sew, lmul) <=> Supported(sew, lmul)
<1>1. TypeSupported(sew, lmul) <=> /\ sew \in 0 .. 2 /\ lmul # -4
                                   /\ 8 * Power(sew) * 16 <= 32 * Power(lmul + 4)
  BY Zenon DEF TypeSupported, Power
<1>2. lmul # -4 => Power(lmul + 4) = CASE lmul = -3 -> 2 [] lmul = -2 -> 4 [] lmul = -1 -> 8
                                       [] lmul = 0 -> 16 [] lmul = 1 -> 32 [] lmul = 2 -> 64
                                       [] lmul = 3 -> 128
  BY SmallPowers DEF Lmuls
<1>3. CASE sew = 0
  BY <1>1, <1>2, <1>3, SmallPowers DEF Supported, Lmuls
<1>4. CASE sew = 1
  BY <1>1, <1>2, <1>4, SmallPowers DEF Supported, Lmuls
<1>5. CASE sew = 2
  BY <1>1, <1>2, <1>5, SmallPowers DEF Supported, Lmuls
<1>. QED  BY <1>1, <1>3, <1>4, <1>5 DEF Supported

LEMMA StandardVlMaxIs ==
  ASSUME NEW sew \in Int, NEW lmul \in Int, Supported(sew, lmul)
  PROVE  StandardVlMax(sew, lmul) = VlMax(sew, lmul)
<1>1. StandardVlMax(sew, lmul) =
        CHOOSE n \in 0 .. VLEN : n * 8 * Power(sew) * 16 = VLEN * Power(lmul + 4)
  BY Zenon DEF StandardVlMax, Power
<1>2. sew \in 0 .. 2 /\ lmul \in sew - 2 .. 3 /\ M \in Nat /\ VLEN = 32 * M
  BY SmallestGroup DEF Supported
<1>3. Power(sew) = IF sew = 0 THEN 1 ELSE IF sew = 1 THEN 2 ELSE 4
  BY <1>2, SmallPowers
<1>4. Power(lmul + 4) = CASE lmul = -2 -> 4 [] lmul = -1 -> 8 [] lmul = 0 -> 16
                          [] lmul = 1 -> 32 [] lmul = 2 -> 64 [] lmul = 3 -> 128
  BY <1>2, SmallPowers
<1>5. VlMax(sew, lmul) = M * Groups(lmul - sew) /\ Groups(lmul - sew) \in {1, 2, 4, 8, 16, 32}
  BY VlMaxValue DEF Groups
<1>6. VlMax(sew, lmul) \in 0 .. VLEN
  BY <1>2, <1>5
<1>7. \A n \in 0 .. VLEN : n * 8 * Power(sew) * 16 = VLEN * Power(lmul + 4)
                             <=> n = VlMax(sew, lmul)
  <2>. SUFFICES ASSUME NEW n \in 0 .. VLEN
       PROVE  n * 8 * Power(sew) * 16 = VLEN * Power(lmul + 4) <=> n = VlMax(sew, lmul)
    OBVIOUS
  <2>1. CASE sew = 0
    BY <1>2, <1>3, <1>4, <1>5, <2>1 DEF Groups
  <2>2. CASE sew = 1
    BY <1>2, <1>3, <1>4, <1>5, <2>2 DEF Groups
  <2>3. CASE sew = 2
    BY <1>2, <1>3, <1>4, <1>5, <2>3 DEF Groups
  <2>. QED  BY <1>2, <2>1, <2>2, <2>3
<1>. QED  BY <1>1, <1>6, <1>7

\* The new vl never exceeds VLMAX, and obeys the standard's rules.
LEMMA SetVlFor ==
  ASSUME avl \in Nat, NEW max \in Nat
  PROVE  VlFor(SetVl(max), max)
BY DEF SetVl, VlFor

LEMMA SetVlFits ==
  ASSUME avl \in Nat, NEW max \in Nat
  PROVE  SetVl(max) \in Nat /\ SetVl(max) <= max
BY DEF SetVl

\* LMUL scaled in three bits: where it wraps around the result is not supported.
LEMMA ScaledLmul ==
  ASSUME vsew_q \in Int, vlmul_q \in Int, Supported(vsew_q, vlmul_q),
         NEW eew \in 0 .. 2, Supported(eew, mem_lmul(eew))
  PROVE  VlMax(eew, mem_lmul(eew)) = VlMax(vsew_q, vlmul_q)
<1>1. vsew_q \in 0 .. 2 /\ vlmul_q \in -2 .. 3
  BY DEF Supported
<1>2. mem_lmul(eew) \in Int /\ mem_lmul(eew) - eew = vlmul_q - vsew_q
  BY <1>1 DEF mem_lmul, Supported
<1>. QED  BY <1>1, <1>2, SameVlMax

-----------------------------------------------------------------------------
(* The inductive invariant.                                                *)

ConfigTypeOK ==
  /\ instr_valid_id_q \in BOOLEAN /\ instr \in Words \cup {[kind |-> "op"]}
  /\ rf \in [Regs -> Nat] /\ vsew_q \in Sews /\ vlmul_q \in Lmuls /\ vl_q \in Nat
  /\ vill_q \in BOOLEAN

Fits(sew, lmul) == Supported(sew, lmul) /\ vl_q <= VlMax(sew, lmul)

\* The bits of a vset that stay in ID after it has executed say what the
\* configuration is already: computing it again keeps it.
Leftover ==
  ~instr_valid_id_q /\ vcfg_write /\ ~OverwritesType =>
    /\ vsew_q = vsew_d /\ vlmul_q = vlmul_d
    /\ vl_keep => Fits(vsew_q, vlmul_q)
    /\ vl_d = vl_q /\ (vill_d <=> vill_q)
    /\ instr.rd # x0 => rf[instr.rd] = vl_q

IInv == /\ ConfigTypeOK /\ ProgramRule
        /\ ~vill_q => Fits(vsew_q, vlmul_q)
        /\ Leftover

LEMMA Vsets ==
  ASSUME ConfigTypeOK, vcfg_write
  PROVE  /\ instr \in VsetWords
         /\ vsew_d \in Sews /\ vlmul_d \in Lmuls /\ avl \in Nat /\ alu_operand_b \in Nat
<1>1. instr \in Words
  BY DEF ConfigTypeOK, vcfg_write
<1>2. instr \in VsetWords
  BY <1>1, ConfigAssumption DEF vcfg_write
<1>3. Read(instr.rs1) \in Nat /\ Read(instr.rs2) \in Nat
  BY <1>2 DEF VsetWords, Read, ConfigTypeOK
<1>4. avl \in Nat /\ alu_operand_b \in Nat
  BY <1>2, <1>3 DEF VsetWords, avl, alu_operand_b
<1>5. vsew_d \in Sews /\ vlmul_d \in Lmuls
  BY <1>4 DEF vsew_d, vlmul_d, Sews, Lmuls
<1>. QED  BY <1>2, <1>4, <1>5

\* The vsets that keep vl write no register.
LEMMA KeepsType ==
  ASSUME vl_keep
  PROVE  vcfg_write /\ instr.rd = x0 /\ ~OverwritesType
BY DEF vl_keep, OverwritesType

\* A vset finds its type where it was, unless it overwrites it, and AVL or vl.
LEMMA OperandsAgain ==
  ASSUME ConfigTypeOK, vcfg_write, ~OverwritesType, instr' = instr,
         rf' = IF instr.rd = x0 THEN rf ELSE [rf EXCEPT ![instr.rd] = vl_d]
  PROVE  /\ vsew_d' = vsew_d /\ vlmul_d' = vlmul_d
         /\ avl' = avl \/ avl' = vl_d
         /\ instr.rd # x0 => rf'[instr.rd] = vl_d
<1>1. instr \in VsetWords /\ rf \in [Regs -> Nat]
  BY Vsets DEF ConfigTypeOK
<1>2. ASSUME NEW r \in Regs \cup {x0}
      PROVE  /\ r # instr.rd \/ instr.rd = x0 => Read(r)' = Read(r)
             /\ Read(r)' = Read(r) \/ Read(r)' = vl_d
  BY <1>1, <1>2 DEF Read
<1>3. alu_operand_b' = alu_operand_b
  <2>1. CASE instr.form = "vsetvl"
    <3>1. instr.rs2 # instr.rd \/ instr.rd = x0
      BY <2>1 DEF OverwritesType
    <3>2. Read(instr.rs2)' = Read(instr.rs2)
      BY <1>1, <1>2, <3>1 DEF VsetWords
    <3>. QED  BY <2>1, <3>2 DEF alu_operand_b, Read
  <2>2. CASE instr.form # "vsetvl"
    BY <2>2 DEF alu_operand_b
  <2>. QED  BY <2>1, <2>2
<1>4. avl' = avl \/ avl' = vl_d
  <2>1. CASE instr.form = "vsetivli"
    BY <2>1 DEF avl
  <2>2. CASE instr.form # "vsetivli"
    <3>1. Read(instr.rs1)' = Read(instr.rs1) \/ Read(instr.rs1)' = vl_d
      BY <1>1, <1>2 DEF VsetWords
    <3>. QED  BY <2>2, <3>1 DEF avl, Read
  <2>. QED  BY <2>1, <2>2
<1>5. vsew_d' = vsew_d /\ vlmul_d' = vlmul_d
  BY <1>3 DEF vsew_d, vlmul_d, vcfg_write
<1>6. instr.rd # x0 => rf'[instr.rd] = vl_d
  BY <1>1 DEF VsetWords
<1>. QED  BY <1>4, <1>5, <1>6

\* What a step does to the configuration.
LEMMA ConfigStep ==
  ASSUME IInv, ConfigClock, Standard, vcfg_write
  PROVE  /\ vsew_q' = vsew_d /\ vlmul_q' = vlmul_d /\ vl_q' \in Nat
         /\ ~vill_q' \/ vl_keep => Supported(vsew_d, vlmul_d)
                                   /\ vl_q' <= VlMax(vsew_d, vlmul_d)
<1>1. vsew_d \in Int /\ vlmul_d \in Int /\ avl \in Nat /\ vl_q \in Nat
  BY Vsets DEF IInv, ConfigTypeOK, Sews, Lmuls
<1>2. vsew_q' = vsew_d /\ vlmul_q' = vlmul_d
  BY DEF ConfigClock
<1>3. CASE vl_keep
  <2>1. vl_q' = vl_q
    BY <1>3 DEF ConfigClock, vl_d
  <2>2. CASE instr_valid_id_q
    <3>1. /\ ~vill_q /\ Supported(vsew_d, vlmul_d)
          /\ VlMax(vsew_d, vlmul_d) = VlMax(vsew_q, vlmul_q)
      BY <1>3, <2>2 DEF IInv, ProgramRule, Standard
    <3>2. vl_q <= VlMax(vsew_q, vlmul_q)
      BY <3>1 DEF IInv, Fits
    <3>. QED  BY <1>1, <1>2, <2>1, <3>1, <3>2
  <2>3. CASE ~instr_valid_id_q
    <3>1. Supported(vsew_d, vlmul_d) /\ vl_q <= VlMax(vsew_d, vlmul_d)
      BY <1>3, <2>3, KeepsType DEF IInv, Leftover, Fits
    <3>. QED  BY <1>1, <1>2, <2>1, <3>1
  <2>. QED  BY <2>2, <2>3
<1>4. CASE ~vl_keep
  <2>1. CASE Supported(vsew_d, vlmul_d)
    <3>1. vl_q' = SetVl(VlMax(vsew_d, vlmul_d))
      BY <1>4, <2>1 DEF ConfigClock, vl_d
    <3>. QED  BY <1>1, <1>2, <1>4, <2>1, <3>1, VlMaxValue, SetVlFits
  <2>2. CASE ~Supported(vsew_d, vlmul_d)
    <3>1. vl_q' = 0 /\ vill_q'
      BY <1>4, <2>2 DEF ConfigClock, vl_d, vill_d
    <3>. QED  BY <1>2, <1>4, <3>1
  <2>. QED  BY <2>1, <2>2
<1>. QED  BY <1>3, <1>4

\* Programs keep vl only between types that the code's table allows.
LEMMA KeepsAllowed ==
  ASSUME IInv, Standard, vl_keep
  PROVE  KeepsVl(vsew_d, vlmul_d)
<1>1. vsew_d \in Int /\ vlmul_d \in Int /\ vsew_q \in Int /\ vlmul_q \in Int
  BY Vsets DEF IInv, ConfigTypeOK, Sews, Lmuls, vl_keep
<1>2. Supported(vsew_d, vlmul_d) /\ Supported(vsew_q, vlmul_q)
      /\ vlmul_d - vlmul_q = vsew_d - vsew_q
  <2>1. CASE instr_valid_id_q
    <3>1. /\ ~vill_q /\ Supported(vsew_d, vlmul_d)
          /\ VlMax(vsew_d, vlmul_d) = VlMax(vsew_q, vlmul_q)
      BY <2>1 DEF IInv, ProgramRule, Standard
    <3>2. Supported(vsew_q, vlmul_q)
      BY <3>1 DEF IInv, Fits
    <3>3. vlmul_d - vsew_d = vlmul_q - vsew_q
      BY <1>1, <3>1, <3>2, OtherVlMax
    <3>. QED  BY <1>1, <3>1, <3>2, <3>3
  <2>2. CASE ~instr_valid_id_q
    BY <1>1, <2>2, KeepsType DEF IInv, Leftover, Fits
  <2>. QED  BY <2>1, <2>2
<1>. QED  BY <1>1, <1>2 DEF KeepsVl, Supported

\* A vset computed again, from the value it has written, gives the same.
LEMMA Idempotent ==
  ASSUME IInv, ConfigClock, Standard, vcfg_write, ~OverwritesType, instr' = instr,
         rf' = IF instr.rd = x0 THEN rf ELSE [rf EXCEPT ![instr.rd] = vl_d]
  PROVE  /\ vsew_d' = vsew_q' /\ vlmul_d' = vlmul_q'
         /\ vl_d' = vl_q' /\ (vill_d' <=> vill_q')
         /\ instr.rd # x0 => rf'[instr.rd] = vl_q'
<1>1. vl_q' = vl_d /\ vill_q' = vill_d /\ vsew_q' = vsew_d /\ vlmul_q' = vlmul_d
  BY DEF ConfigClock
<1>2. vsew_d \in Int /\ vlmul_d \in Int /\ avl \in Nat
  BY Vsets DEF IInv, Sews, Lmuls
<1>5. /\ vsew_d' = vsew_d /\ vlmul_d' = vlmul_d /\ (avl' = avl \/ avl' = vl_d)
      /\ instr.rd # x0 => rf'[instr.rd] = vl_d
  BY OperandsAgain DEF IInv
<1>3. CASE vl_keep
  <2>1. vl_d' = vl_q'
    BY <1>3 DEF vl_d, vl_keep, vcfg_write
  <2>2. KeepsVl(vsew_d, vlmul_d)
    BY <1>3, KeepsAllowed
  <2>3. KeepsVl(vsew_d, vlmul_d)'
    <3>1. KeepsVl(vsew_d, vlmul_d)' <=>
            /\ {vsew_q', vsew_d'} \subseteq 0 .. 2
            /\ vlmul_d' - vlmul_q' = vsew_d' - vsew_q'
            /\ vsew_d' # vsew_q' => -4 \notin {vlmul_q', vlmul_d'}
      BY DEF KeepsVl
    <3>. QED  BY <1>1, <1>2, <1>5, <2>2, <3>1 DEF KeepsVl
  <2>4. ~vill_d /\ ~vill_d'
    BY <1>3, <2>2, <2>3 DEF vill_d, vl_keep, vcfg_write
  <2>. QED  BY <1>1, <1>5, <2>1, <2>4
<1>4. CASE ~vl_keep
  <2>1. vill_d <=> ~Supported(vsew_d, vlmul_d)
    BY <1>4 DEF vill_d
  <2>2. vill_d' <=> ~Supported(vsew_d, vlmul_d)
    BY <1>4, <1>5 DEF vill_d, vl_keep, vcfg_write, Supported
  <2>3. vl_d' = vl_d
    <3>1. CASE ~Supported(vsew_d, vlmul_d)
      BY <1>4, <1>5, <3>1 DEF vl_d, vl_keep, vcfg_write, Supported
    <3>2. CASE Supported(vsew_d, vlmul_d)
      <4>. DEFINE max == VlMax(vsew_d, vlmul_d)
      <4>1. max \in Nat /\ max' = max
        BY <1>2, <1>5, <3>2, VlMaxValue DEF VlMax
      <4>2. vl_d = SetVl(max) /\ SetVl(max) <= max /\ SetVl(max) \in Nat
        BY <1>2, <1>4, <3>2, <4>1, SetVlFits DEF vl_d
      <4>3. vl_d' = SetVl(max)'
        BY <1>4, <1>5, <3>2 DEF vl_d, vl_keep, vcfg_write, Supported
      <4>4. avl' = avl \/ avl' = SetVl(max)
        BY <1>5, <4>2
      <4>5. SetVl(max)' = IF avl' <= max THEN avl'
                          ELSE IF avl' <= 2 * max THEN (avl' \div 2) + (avl' % 2) ELSE max
        BY <4>1 DEF SetVl
      <4>6. CASE avl' = avl
        BY <4>2, <4>3, <4>5, <4>6 DEF SetVl
      <4>7. CASE avl' = SetVl(max)
        BY <4>2, <4>3, <4>5, <4>7
      <4>. QED  BY <4>4, <4>6, <4>7
    <3>. QED  BY <3>1, <3>2
  <2>. QED  BY <1>1, <1>5, <2>1, <2>2, <2>3
<1>. QED  BY <1>3, <1>4

LEMMA ClockStep ==
  ASSUME IInv, Clock, Standard
  PROVE  IInv'
<1>1. PICK last \in BOOLEAN, fetch_valid \in BOOLEAN :
        LET executes == instr_valid_id_q /\ (last \/ vcfg_write) IN
          /\ ConfigClock /\ RfClock(executes)
          /\ IfIdClock(executes, fetch_valid /\ (instr_valid_id_q => executes))
          /\ ProgramRule'
  BY DEF Clock
<1>. DEFINE executes == instr_valid_id_q /\ (last \/ vcfg_write)
            new_instr == fetch_valid /\ (instr_valid_id_q => executes)
<1>2. ConfigClock /\ RfClock(executes) /\ IfIdClock(executes, new_instr) /\ ProgramRule'
  BY <1>1
<1>3. instr.kind # "branch"
  BY DEF IInv, ConfigTypeOK, Standard
<1>4. /\ instr_valid_id_q' \in BOOLEAN
      /\ instr' \in Words \cup {[kind |-> "op"]}
      /\ ~instr_valid_id_q' => instr' = instr
      /\ ~instr_valid_id_q' /\ vcfg_write => ~new_instr
  <2>1. CASE new_instr
    BY <1>2, <1>3, <2>1 DEF IfIdClock
  <2>2. CASE ~new_instr
    BY <1>2, <2>2 DEF IfIdClock, IInv, ConfigTypeOK
  <2>. QED  BY <2>1, <2>2
<1>5. CASE vcfg_write
  <2>1. /\ vsew_q' = vsew_d /\ vlmul_q' = vlmul_d /\ vl_q' \in Nat
        /\ ~vill_q' \/ vl_keep => Supported(vsew_d, vlmul_d)
                                  /\ vl_q' <= VlMax(vsew_d, vlmul_d)
    BY <1>2, <1>5, ConfigStep
  <2>2. rf' \in [Regs -> Nat]
    <3>1. rf' = IF instr.rd = x0 THEN rf ELSE [rf EXCEPT ![instr.rd] = vl_d]
      BY <1>2, <1>5 DEF RfClock
    <3>2. vl_d = vl_q'
      BY <1>2 DEF ConfigClock
    <3>. QED  BY <2>1, <3>1, <3>2 DEF IInv, ConfigTypeOK
  <2>6. vill_q' \in BOOLEAN
    BY <1>2, <1>5 DEF ConfigClock, vill_d, KeepsVl, Supported
  <2>3. ConfigTypeOK'
    BY <1>4, <1>5, <2>1, <2>2, <2>6, Vsets DEF ConfigTypeOK, IInv
  <2>4. ~vill_q' => Fits(vsew_q, vlmul_q)'
    BY <2>1 DEF Fits
  <2>5. Leftover'
    <3>. SUFFICES ASSUME ~instr_valid_id_q', vcfg_write', ~OverwritesType' PROVE Leftover'
      BY DEF Leftover
    <3>1. instr' = instr
      BY <1>4
    <3>2. ~OverwritesType
      BY <3>1 DEF OverwritesType, vcfg_write
    <3>3. /\ vsew_d' = vsew_q' /\ vlmul_d' = vlmul_q'
          /\ vl_d' = vl_q' /\ (vill_d' <=> vill_q')
          /\ instr.rd # x0 => rf'[instr.rd] = vl_q'
      BY <1>2, <1>5, <3>1, <3>2, Idempotent DEF RfClock
    <3>. QED  BY <2>1, <3>1, <3>3 DEF Leftover, Fits, vl_keep, vcfg_write
  <2>. QED  BY <1>2, <2>3, <2>4, <2>5 DEF IInv
<1>6. CASE ~vcfg_write
  <2>1. /\ vsew_q' = vsew_q /\ vlmul_q' = vlmul_q /\ vl_q' = vl_q /\ (vill_q' <=> vill_q)
    BY <1>2, <1>6 DEF ConfigClock, vsew_d, vlmul_d, vl_d, vill_d
  <2>2. rf' \in [Regs -> Nat]
    BY <1>2, <1>6, ConfigAssumption DEF RfClock, IInv, ConfigTypeOK
  <2>3. ConfigTypeOK'
    BY <1>4, <2>1, <2>2 DEF ConfigTypeOK, IInv
  <2>4. ~vill_q' => Fits(vsew_q, vlmul_q)'
    BY <2>1 DEF IInv, Fits
  <2>5. Leftover'
    BY <1>4, <1>6 DEF Leftover, vcfg_write
  <2>. QED  BY <1>2, <2>3, <2>4, <2>5 DEF IInv
<1>. QED  BY <1>5, <1>6

LEMMA InitInv == Init => IInv
<1>. SUFFICES ASSUME Init PROVE IInv
  OBVIOUS
<1>1. ConfigTypeOK /\ ~vcfg_write
  <2>1. instr_valid_id_q \in BOOLEAN /\ instr = [kind |-> "op"] /\ rf \in [Regs -> Nat]
    BY ConfigAssumption DEF Init, RegisterFiles
  <2>2. vsew_q \in Sews /\ vlmul_q \in Lmuls /\ vl_q \in Nat
    BY DEF Init, Sews, Lmuls
  <2>3. vill_q \in BOOLEAN
    BY Zenon DEF Init
  <2>. QED  BY <2>1, <2>2, <2>3 DEF ConfigTypeOK, vcfg_write
<1>2. Fits(vsew_q, vlmul_q)
  <2>1. Supported(2, 0)
    BY DEF Supported
  <2>2. VlMax(2, 0) \in Nat
    BY <2>1, VlMaxValue
  <2>. QED  BY <2>1, <2>2 DEF Init, Fits
<1>. QED  BY <1>1, <1>2 DEF IInv, ProgramRule, Leftover, vl_keep

\* IInv holds in every reachable state.
THEOREM Invariance ==
  ASSUME Standard
  PROVE  Spec => []IInv
<1>1. IInv /\ [Clock]_vars => IInv'
  <2>. SUFFICES ASSUME IInv, [Clock]_vars PROVE IInv'
    OBVIOUS
  <2>1. CASE Clock
    BY <2>1, ClockStep
  <2>2. CASE UNCHANGED vars
    <3>1. vsew_d' = vsew_d /\ vlmul_d' = vlmul_d /\ avl' = avl
      BY <2>2 DEF vars, config, vsew_d, vlmul_d, avl, alu_operand_b, Read, vcfg_write
    <3>2. vl_d' = vl_d /\ vill_d' = vill_d
      BY <2>2, <3>1 DEF vars, config, vl_d, vill_d, vl_keep, vcfg_write, Supported, SetVl,
         VlMax, KeepsVl
    <3>. QED  BY <2>2, <3>1, <3>2 DEF OverwritesType, vars, config, IInv, ConfigTypeOK, ProgramRule, Leftover,
                 Fits, vl_keep, vcfg_write
  <2>. QED  BY <2>1, <2>2
<1>. QED  BY <1>1, InitInv, PTL DEF Spec

\* In straight-line programs vl elements always fit into a register group, with
\* the element width and the LMUL of the configuration and with those scaled for
\* every load and store, for every VLEN: the scaling in three bits never wraps
\* around to a supported LMUL.
THEOREM GroupsHoldVl ==
  ASSUME Standard
  PROVE  Spec => []GroupHoldsVl
<1>1. IInv => GroupHoldsVl
  <2>. SUFFICES ASSUME IInv, ~vill_q
       PROVE  /\ Supported(vsew_q, vlmul_q) /\ vl_q <= VlMax(vsew_q, vlmul_q)
              /\ \A eew \in 0 .. 2 : Supported(eew, mem_lmul(eew)) =>
                                       vl_q <= VlMax(eew, mem_lmul(eew))
    BY DEF GroupHoldsVl
  <2>1. Fits(vsew_q, vlmul_q) /\ vsew_q \in Int /\ vlmul_q \in Int
    BY DEF IInv, ConfigTypeOK, Sews, Lmuls
  <2>2. ASSUME NEW eew \in 0 .. 2, Supported(eew, mem_lmul(eew))
        PROVE  vl_q <= VlMax(eew, mem_lmul(eew))
    BY <2>1, <2>2, ScaledLmul DEF Fits
  <2>. QED  BY <2>1, <2>2 DEF Fits
<1>. QED  BY <1>1, Invariance, PTL

\* In straight-line programs the configuration and the registers change as the
\* vsets that are executed say, each once: what a vset whose bits stay in ID
\* computes from the registers, one of which it has just written, is what is
\* there, and the new vl is one that the standard allows, for every VLEN, AVL and
\* type.  Only a vsetvl with rd = rs2 is done again, with vl as its type.
THEOREM ConfigFollows ==
  ASSUME Standard
  PROVE  Spec => ConfigFollowsProgram
<1>. DEFINE Follows == IF vcfg_write /\ (instr_valid_id_q \/ OverwritesType) THEN VsetDone
                       ELSE /\ UNCHANGED config
                            /\ ~instr_valid_id_q \/ instr.kind # "op" => UNCHANGED rf
<1>1. ASSUME IInv, Clock PROVE Follows
  <2>1. PICK executes \in BOOLEAN :
          ConfigClock /\ RfClock(executes) /\ (executes => instr_valid_id_q)
    BY <1>1 DEF Clock, IInv, ConfigTypeOK, vcfg_write
  <2>2. CASE vcfg_write
    <3>1. /\ vsew_q' = vsew_d /\ vlmul_q' = vlmul_d /\ vl_q' = vl_d /\ vill_q' = vill_d
          /\ rf' = IF instr.rd = x0 THEN rf ELSE [rf EXCEPT ![instr.rd] = vl_q']
      BY <2>1, <2>2 DEF ConfigClock, RfClock
    <3>2. vsew_d \in Sews /\ vlmul_d \in Lmuls /\ avl \in Nat
      BY <1>1, <2>2, Vsets DEF IInv
    <3>3. CASE instr_valid_id_q \/ OverwritesType
      <4>1. vl_keep => vl_q' = vl_q /\ (vill_q' <=> FALSE) /\ Supported(vsew_d, vlmul_d)
        BY <1>1, <3>1, <3>3, KeepsAllowed, KeepsType
           DEF vl_d, vill_d, vl_keep, IInv, ProgramRule, Standard
      <4>2. ~vl_keep => (vill_q' <=> ~Supported(vsew_d, vlmul_d))
        BY <2>2, <3>1 DEF vill_d
      <4>3. vill_q' = ~TypeSupported(vsew_d, vlmul_d)
        <5>1. vill_q' \in BOOLEAN
          BY <3>1, <1>1, <2>2 DEF vill_d, KeepsVl, Supported
        <5>. QED  BY <3>2, <4>1, <4>2, <5>1, StandardTypes
      <4>4. ASSUME ~vl_keep
            PROVE  IF vill_q' THEN vl_q' = 0
                   ELSE VlFor(vl_q', StandardVlMax(vsew_d, vlmul_d))
        <5>1. CASE ~Supported(vsew_d, vlmul_d)
          BY <2>2, <3>1, <4>2, <4>4, <5>1 DEF vl_d
        <5>2. CASE Supported(vsew_d, vlmul_d)
          <6>1. vl_q' = SetVl(VlMax(vsew_d, vlmul_d))
            BY <2>2, <3>1, <4>4, <5>2 DEF vl_d
          <6>2. vsew_d \in Int /\ vlmul_d \in Int
            BY <3>2 DEF Sews, Lmuls
          <6>. QED  BY <3>2, <4>2, <4>4, <5>2, <6>1, <6>2, VlMaxValue, StandardVlMaxIs,
                       SetVlFor
        <5>. QED  BY <5>1, <5>2
      <4>. QED  BY <2>2, <3>1, <3>3, <4>1, <4>3, <4>4 DEF VsetDone
    <3>4. CASE ~instr_valid_id_q /\ ~OverwritesType
      <4>1. /\ vsew_q = vsew_d /\ vlmul_q = vlmul_d /\ vl_d = vl_q
            /\ (vill_d <=> vill_q) /\ (instr.rd # x0 => rf[instr.rd] = vl_q)
        BY <1>1, <2>2, <3>4 DEF IInv, Leftover
      <4>2. vill_d \in BOOLEAN /\ vill_q \in BOOLEAN
        BY <1>1, <2>2 DEF vill_d, KeepsVl, Supported, IInv, ConfigTypeOK
      <4>3. rf' = rf
        BY <1>1, <2>2, <3>1, <4>1, Vsets DEF IInv, ConfigTypeOK, VsetWords
      <4>. QED  BY <3>1, <3>4, <4>1, <4>2, <4>3 DEF config
    <3>. QED  BY <3>3, <3>4
  <2>3. CASE ~vcfg_write
    <3>1. UNCHANGED config
      BY <2>1, <2>3 DEF ConfigClock, config, vsew_d, vlmul_d, vl_d, vill_d
    <3>2. ~instr_valid_id_q \/ instr.kind # "op" => rf' = rf
      BY <2>1, <2>3 DEF RfClock
    <3>. QED  BY <2>3, <3>1, <3>2
  <2>. QED  BY <2>2, <2>3
<1>2. IInv /\ [Clock]_vars => [Follows]_vars
  BY <1>1
<1>. QED  BY <1>2, Invariance, PTL DEF Spec, ConfigFollowsProgram
=============================================================================
