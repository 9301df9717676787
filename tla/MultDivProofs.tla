---------------------------- MODULE MultDivProofs ----------------------------
(***************************************************************************)
(* Proofs about the multiplier and divider, for every width, any operands  *)
(* and any sequence of instructions on either multiplier: how long an      *)
(* instruction takes, and that its result is right.                        *)
(***************************************************************************)
EXTENDS MultDiv, TLAPS

-----------------------------------------------------------------------------
(* The inductive invariant: in which cycle of an instruction each FSM is   *)
(* where.                                                                  *)

InstrType == [op : Ops, a : Word, b : Word]

Runs(i) == operator_of(i.op)

ControlTypeOK ==
  /\ RV32M \in Multipliers /\ valid \in BOOLEAN /\ instr \in InstrType
  /\ cycle \in Nat

MultRest == IF Single THEN "MULL" ELSE "ALBL"
MultAtRest == mult_state_q = MultRest
DivAtRest  == md_state_q = "MD_IDLE"

\* The multiplier's FSM counts the cycles of a multiplication.
MultPhase ==
  IF Single
  THEN \/ cycle = 1 /\ mult_state_q = "MULL"
       \/ cycle = 2 /\ mult_state_q = "MULH" /\ op = "MULH"
  ELSE \/ cycle = 1 /\ mult_state_q = "ALBL"
       \/ cycle = 2 /\ mult_state_q = "ALBH"
       \/ cycle = 3 /\ mult_state_q = "AHBL"
       \/ cycle = 4 /\ mult_state_q = "AHBH" /\ op = "MULH"

\* The divider's does with its counter, from which it takes the bits.
DivPhase ==
  \/ cycle = 1 /\ md_state_q = "MD_IDLE"
  \/ b = 0 /\ cycle = 2 /\ md_state_q = "MD_FINISH"
  \/ /\ b # 0
     /\ \/ cycle = 2 /\ md_state_q = "MD_ABS_A"
        \/ cycle = 3 /\ md_state_q = "MD_ABS_B"
        \/ /\ md_state_q = "MD_COMP"
           /\ div_counter_q \in 1 .. W - 1 /\ cycle = W + 3 - div_counter_q
        \/ cycle = W + 3 /\ md_state_q = "MD_LAST"
        \/ cycle = W + 4 /\ md_state_q = "MD_CHANGE_SIGN"
        \/ cycle = W + 5 /\ md_state_q = "MD_FINISH"

\* Only the unit an instruction needs leaves its initial state.  The counter
\* starts at the top when the divider comes to use it.
PhaseInv ==
  /\ ~valid \/ div_sel => MultAtRest
  /\ ~valid \/ ~div_sel => DivAtRest
  /\ valid /\ ~div_sel => MultPhase
  /\ valid /\ div_sel => DivPhase
  /\ valid /\ div_sel /\ md_state_q \in {"MD_ABS_A", "MD_ABS_B"} => div_counter_q = W - 1

IInv == ControlTypeOK /\ PhaseInv

-----------------------------------------------------------------------------
(* The width, and the test of the divisor.                                 *)

LEMMA Width == W \in {4, 8, 16, 32} /\ 2^W \in Nat \ {0}
<1>1. H \in {2, 4, 8, 16}
  BY MultDivAssumption
<1>2. CASE H = 2
  BY <1>2, 2^4 = 16 DEF W
<1>3. CASE H = 4
  BY <1>3, 2^8 = 256 DEF W
<1>4. CASE H = 8
  BY <1>4, 2^16 = 65536 DEF W
<1>5. CASE H = 16
  BY <1>5, 2^32 = 4294967296 DEF W
<1>. QED  BY <1>1, <1>2, <1>3, <1>4, <1>5

\* The adder's test for zero, 0 - op_b_i, is right.
LEMMA DivisorZero ==
  ASSUME ControlTypeOK
  PROVE  Minus(0, b) = 0 <=> b = 0
<1>1. \A p \in Nat \ {0} : \A d \in 0 .. p - 1 : (0 - d) % p = 0 <=> d = 0
  OBVIOUS
<1>2. b \in 0 .. 2^W - 1
  BY DEF ControlTypeOK, InstrType, b, Word
<1>. QED  BY <1>1, <1>2, Width DEF Minus

\* What the FSMs tell instructions apart by.
LEMMA Kinds ==
  ASSUME ControlTypeOK
  PROVE  /\ op \in {"MULL", "MULH", "DIV", "REM"}
         /\ div_sel <=> op \in {"DIV", "REM"}
         /\ div_en <=> valid /\ div_sel
         /\ mult_en <=> valid /\ ~div_sel
         /\ Single <=> RV32M = "SingleCycle"
         /\ Cycles(instr) = IF op = "MULL" THEN IF Single THEN 1 ELSE 3
                            ELSE IF op = "MULH" THEN IF Single THEN 2 ELSE 4
                            ELSE IF b = 0 THEN 2 ELSE W + 5
<1>1. op \in {"MULL", "MULH", "DIV", "REM"}
  BY DEF ControlTypeOK, InstrType, op, operator_of, Ops
<1>. QED  BY <1>1 DEF div_sel, div_en, mult_en, Single, Cycles, op, b

-----------------------------------------------------------------------------
(* When an instruction ends.                                               *)

LEMMA EndsInTime ==
  ASSUME IInv, valid
  PROVE  cycle <= Cycles(instr) /\ (valid_o <=> cycle = Cycles(instr))
<1>. USE DEF IInv
<1>1. CASE div_sel
  <2>1. ~mult_valid
    <3>1. CASE Single
      BY <1>1, <3>1, Kinds DEF PhaseInv, MultAtRest, MultRest, mult_valid, single_valid
    <3>2. CASE ~Single
      BY <1>1, <3>2, Kinds DEF PhaseInv, MultAtRest, MultRest, mult_valid, fast_valid
    <3>. QED  BY <3>1, <3>2
  <2>2. DivPhase /\ (valid_o <=> md_state_q = "MD_FINISH")
    BY <1>1, <2>1 DEF PhaseInv, valid_o, MdIs
  <2>3. Cycles(instr) = IF b = 0 THEN 2 ELSE W + 5
    BY <1>1, Kinds
  <2>. QED  BY <2>2, <2>3, Width DEF DivPhase
<1>2. CASE ~div_sel
  <2>1. MultPhase /\ (valid_o <=> mult_valid) /\ mult_en /\ op \in {"MULL", "MULH"}
    BY <1>2, Kinds DEF PhaseInv, DivAtRest, valid_o, MdIs
  <2>2. CASE Single
    <3>1. mult_valid <=> (mult_state_q = "MULL" => op = "MULL")
      BY <2>1, <2>2 DEF mult_valid, single_valid
    <3>. QED  BY <2>1, <2>2, <3>1, Kinds DEF MultPhase
  <2>3. CASE ~Single
    <3>1. mult_valid <=> mult_state_q = IF op = "MULL" THEN "AHBL" ELSE "AHBH"
      BY <2>3 DEF mult_valid, fast_valid
    <3>. QED  BY <2>1, <2>3, <3>1, Kinds DEF MultPhase
  <2>. QED  BY <2>2, <2>3
<1>. QED  BY <1>1, <1>2

-----------------------------------------------------------------------------
(* The invariant is inductive.                                             *)

LEMMA InstrsType ==
  ASSUME RV32M \in Multipliers, NEW values \in SUBSET Word
  PROVE  InstrsWith(values) \subseteq InstrType
<1>1. SUFFICES ASSUME NEW p \in Builds, NEW x \in values, NEW y \in values
               PROVE  [op |-> p[2], a |-> x, b |-> y] \in InstrType
  BY DEF InstrsWith
<1>2. p[2] \in Ops
  BY MultDivAssumption
<1>. QED  BY <1>2 DEF InstrType

LEMMA ControlType ==
  ASSUME ControlTypeOK, Clock
  PROVE  ControlTypeOK'
<1>1. RV32M' = RV32M
  BY DEF Clock
<1>2. CASE valid /\ ~valid_o
  BY <1>1, <1>2 DEF ControlTypeOK, Clock, IdClock
<1>3. CASE ~(valid /\ ~valid_o)
  <2>1. valid' \in BOOLEAN /\ cycle' = 1
    BY <1>3 DEF Clock, IdClock
  <2>2. instr' \in InstrType
    <3>1. Following(instr) \subseteq InstrType
      BY InstrsType, MultDivAssumption DEF Following, Instrs, ControlTypeOK
    <3>. QED  BY <1>3, <3>1 DEF Clock, IdClock, ControlTypeOK
  <2>. QED  BY <1>1, <2>1, <2>2 DEF ControlTypeOK
<1>. QED  BY <1>2, <1>3

\* With its last cycle an instruction leaves both FSMs as it found them.
LEMMA BackToRest ==
  ASSUME IInv, Clock, ~(valid /\ ~valid_o)
  PROVE  PhaseInv'
<1>. USE DEF IInv
<1>1. RV32M' = RV32M /\ cycle' = 1 /\ valid' \in BOOLEAN /\ (MultRest' <=> MultRest)
  BY DEF Clock, IdClock, MultRest, Single
<1>2. mult_state_q' = MultRest
  <2>1. CASE mult_en
    <3>1. valid /\ ~div_sel /\ MultPhase /\ cycle = Cycles(instr)
      BY <2>1, Kinds, EndsInTime DEF PhaseInv
    <3>2. mult_state_q' = mult_state_d
      BY <2>1 DEF Clock, MultClock
    <3>3. CASE Single
      BY <3>1, <3>2, <3>3, Kinds DEF MultPhase, MultRest, mult_state_d, single_state_d
    <3>4. CASE ~Single
      BY <3>1, <3>2, <3>4, Kinds DEF MultPhase, MultRest, mult_state_d, fast_state_d
    <3>. QED  BY <3>3, <3>4
  <2>2. CASE ~mult_en
    <3>1. mult_state_q' = mult_state_q
      BY <2>2 DEF Clock, MultClock
    <3>. QED  BY <2>2, <3>1, Kinds DEF PhaseInv, MultAtRest, ControlTypeOK
  <2>. QED  BY <2>1, <2>2
<1>3. md_state_q' = "MD_IDLE"
  <2>1. CASE div_en
    <3>1. valid /\ div_sel /\ DivPhase /\ cycle = Cycles(instr)
      BY <2>1, Kinds, EndsInTime DEF PhaseInv
    <3>2. md_state_q = "MD_FINISH"
      BY <3>1, Kinds, Width DEF DivPhase
    <3>. QED  BY <2>1, <3>2 DEF Clock, DivClock, md_state_d, MdIs
  <2>2. CASE ~div_en
    <3>1. md_state_q' = md_state_q
      BY <2>2 DEF Clock, DivClock
    <3>. QED  BY <2>2, <3>1, Kinds DEF PhaseInv, DivAtRest, ControlTypeOK
  <2>. QED  BY <2>1, <2>2
<1>4. MultAtRest' /\ DivAtRest'
  BY <1>1, <1>2, <1>3 DEF MultAtRest, DivAtRest, MultRest, Single
<1>5. MultPhase'
  BY <1>1, <1>2 DEF MultPhase, MultRest, Single
<1>6. DivPhase'
  BY <1>1, <1>3 DEF DivPhase
<1>. QED  BY <1>3, <1>4, <1>5, <1>6 DEF PhaseInv

LEMMA MultGoesOn ==
  ASSUME IInv, Clock, valid, ~valid_o, ~div_sel
  PROVE  PhaseInv'
<1>. USE DEF IInv
<1>1. /\ RV32M' = RV32M /\ valid' = valid /\ instr' = instr /\ cycle' = cycle + 1
      /\ cycle \in Nat
  BY DEF Clock, IdClock, ControlTypeOK
<1>2. MultPhase /\ DivAtRest /\ mult_en /\ ~div_en /\ op \in {"MULL", "MULH"}
      /\ cycle # Cycles(instr)
  BY Kinds, EndsInTime DEF PhaseInv
<1>3. mult_state_q' = mult_state_d /\ md_state_q' = md_state_q
  BY <1>2 DEF Clock, MultClock, DivClock
<1>4. op' = op /\ (Single' <=> Single) /\ ~div_sel'
  BY <1>1 DEF op, Single, div_sel
<1>5. MultPhase'
  <2>1. CASE Single
    BY <1>1, <1>2, <1>3, <1>4, <2>1, Kinds DEF MultPhase, mult_state_d, single_state_d
  <2>2. CASE ~Single
    BY <1>1, <1>2, <1>3, <1>4, <2>2, Kinds DEF MultPhase, mult_state_d, fast_state_d
  <2>. QED  BY <2>1, <2>2
<1>. QED  BY <1>1, <1>2, <1>3, <1>4, <1>5 DEF PhaseInv, DivAtRest

LEMMA DivGoesOn ==
  ASSUME IInv, Clock, valid, ~valid_o, div_sel
  PROVE  PhaseInv'
<1>. USE DEF IInv
<1>1. /\ RV32M' = RV32M /\ valid' = valid /\ instr' = instr /\ cycle' = cycle + 1
      /\ cycle \in Nat
  BY DEF Clock, IdClock, ControlTypeOK
<1>2. DivPhase /\ MultAtRest /\ div_en /\ ~mult_en /\ md_state_q # "MD_FINISH"
  BY Kinds DEF PhaseInv, valid_o, MdIs
<1>3. mult_state_q' = mult_state_q /\ md_state_q' = md_state_d
      /\ div_counter_q' = div_counter_d
  BY <1>2 DEF Clock, MultClock, DivClock
<1>4. b' = b /\ div_sel' /\ MultAtRest'
  BY <1>1, <1>2, <1>3, Kinds DEF b, div_sel, op, MultAtRest, MultRest, Single
<1>5. DivPhase' /\ (md_state_q' \in {"MD_ABS_A", "MD_ABS_B"} => div_counter_q' = W - 1)
  <2>1. CASE md_state_q = "MD_IDLE"
    BY <1>1, <1>2, <1>3, <1>4, <2>1, DivisorZero
       DEF DivPhase, md_state_d, div_counter_d, MdIs
  <2>2. CASE md_state_q \in {"MD_ABS_A", "MD_ABS_B"}
    BY <1>1, <1>2, <1>3, <1>4, <2>2, Width
       DEF DivPhase, md_state_d, div_counter_d, MdIs
  <2>3. CASE md_state_q = "MD_COMP"
    BY <1>1, <1>2, <1>3, <1>4, <2>3, Width
       DEF DivPhase, md_state_d, div_counter_d, AfterComp, MdIs
  <2>4. CASE md_state_q \in {"MD_LAST", "MD_CHANGE_SIGN"}
    BY <1>1, <1>2, <1>3, <1>4, <2>4, Width DEF DivPhase, md_state_d, MdIs
  <2>. QED  BY <1>2, <2>1, <2>2, <2>3, <2>4 DEF DivPhase
<1>. QED  BY <1>1, <1>4, <1>5 DEF PhaseInv

LEMMA InitInv == Init => IInv
<1>. SUFFICES ASSUME Init PROVE IInv
  OBVIOUS
<1>1. RV32M \in Multipliers
  BY MultDivAssumption DEF Init
<1>2. ControlTypeOK
  BY <1>1, InstrsType, MultDivAssumption DEF Init, ControlTypeOK
<1>3. MultAtRest /\ DivAtRest /\ ~valid
  BY DEF Init, MultAtRest, MultRest, DivAtRest
<1>. QED  BY <1>2, <1>3 DEF IInv, PhaseInv

LEMMA StepInv == IInv /\ [Clock]_vars => IInv'
<1>. SUFFICES ASSUME IInv, [Clock]_vars PROVE IInv'
  OBVIOUS
<1>1. CASE Clock
  BY <1>1, ControlType, BackToRest, MultGoesOn, DivGoesOn DEF IInv
<1>2. CASE UNCHANGED vars
  BY <1>2 DEF vars, mdVars, IInv, ControlTypeOK, PhaseInv, MultAtRest, MultRest, DivAtRest,
     MultPhase, DivPhase, Single, op, b, div_sel
<1>. QED  BY <1>1, <1>2

\* IInv holds in every reachable state.
THEOREM Invariance == Spec => []IInv
BY InitInv, StepInv, PTL DEF Spec

\* Every instruction takes the cycles its kind takes, on either multiplier and
\* for every width, whatever was computed before it: the two FSMs, which have
\* registers in common, always find themselves in their initial states.
THEOREM LatencyFixed == Spec => []Latency
<1>1. IInv => Latency
  BY EndsInTime DEF Latency
<1>. QED  BY <1>1, Invariance, PTL

-----------------------------------------------------------------------------
(* Arithmetic: quotients and remainders.                                   *)

\* A number is its quotient and its remainder.
LEMMA IntDivMod ==
  ASSUME NEW n \in Nat, n > 0, NEW x \in Int
  PROVE  /\ x \div n \in Int /\ x % n \in 0 .. n - 1
         /\ x = n * (x \div n) + (x % n)
OBVIOUS

\* It has no others.
LEMMA DivUnique ==
  ASSUME NEW n \in Nat, n > 0, NEW q \in Int, NEW r \in 0 .. n - 1
  PROVE  (n * q + r) % n = r /\ (n * q + r) \div n = q
<1>. DEFINE x == n * q + r
<1>1. x \in Int
  OBVIOUS
<1>. DEFINE p == x \div n
            s == x % n
<1>2. p \in Int /\ s \in 0 .. n - 1 /\ x = n * p + s
  <2>. HIDE DEF x
  <2>. QED  BY <1>1, IntDivMod
<1>. HIDE DEF p, s
<1>3. p > q => n * (p - q) >= n
  BY <1>2
<1>4. p < q => n * (q - p) >= n
  BY <1>2
<1>5. n * p + s = n * q + r
  BY <1>2
<1>6. p = q /\ s = r
  BY <1>2, <1>3, <1>4, <1>5
<1>. QED  BY <1>6 DEF p, s

\* A multiple of the divisor changes the quotient and leaves the remainder.
LEMMA AddMultiple ==
  ASSUME NEW n \in Nat, n > 0, NEW x \in Int, NEW k \in Int
  PROVE  (x + n * k) % n = x % n /\ (x + n * k) \div n = (x \div n) + k
<1>. DEFINE q == x \div n
            r == x % n
<1>1. q \in Int /\ r \in 0 .. n - 1 /\ x = n * q + r
  BY IntDivMod
<1>. HIDE DEF q, r
<1>2. x + n * k = n * (q + k) + r
  BY <1>1
<1>. DEFINE z == q + k
<1>3. z \in Int
  BY <1>1
<1>4. x + n * k = n * z + r
  BY <1>2
<1>. HIDE DEF z
<1>5. (n * z + r) % n = r /\ (n * z + r) \div n = z
  BY <1>1, <1>3, DivUnique
<1>. QED  BY <1>4, <1>5 DEF q, r, z

-----------------------------------------------------------------------------
(* The width's powers of two.                                              *)

\* Half a word.
Base == 2^H

LEMMA Bases ==
  /\ Base \in Nat /\ Base >= 4 /\ Base % 2 = 0
  /\ 2^W = Base * Base
  /\ 2^(W + 1) = 2 * (Base * Base)
  /\ 2^(W + 2) = 4 * (Base * Base)
  /\ 2^(H + 2) = 4 * Base
  /\ 2^(W - 1) \in Nat /\ 2 * 2^(W - 1) = Base * Base
<1>1. H \in {2, 4, 8, 16}
  BY MultDivAssumption
<1>2. CASE H = 2
  BY <1>2 DEF W, Base
<1>3. CASE H = 4
  BY <1>3 DEF W, Base
<1>4. CASE H = 8
  BY <1>4 DEF W, Base
<1>5. CASE H = 16
  BY <1>5 DEF W, Base
<1>. QED  BY <1>1, <1>2, <1>3, <1>4, <1>5

\* The halves of a number below P * P, put together again.
LEMMA Halves ==
  ASSUME NEW P \in Nat, P > 0, NEW u \in 0 .. P - 1, NEW v \in 0 .. P - 1
  PROVE  /\ P * u + v \in 0 .. P * P - 1
         /\ (P * u + v) % P = v /\ (P * u + v) \div P = u
         /\ ((P * u + v) \div P) % P = u
<1>1. P * u <= P * (P - 1)
  OBVIOUS
<1>2. P * u >= 0
  OBVIOUS
<1>3. P * u + v \in 0 .. P * P - 1
  BY <1>1, <1>2
<1>4. (P * u + v) % P = v /\ (P * u + v) \div P = u
  BY DivUnique
<1>5. u % P = u
  OBVIOUS
<1>. QED  BY <1>3, <1>4, <1>5

\* The lower word of a product, from the products of the halves.
LEMMA LowerWord ==
  ASSUME NEW P \in Nat, P > 0, NEW ll \in Int, NEW s \in Int, NEW hh \in Int
  PROVE  P * ((((ll \div P) % P) + s) % P) + (ll % P) = (P * P * hh + P * s + ll) % (P * P)
<1>. DEFINE B  == P * P
            u  == ll \div P
            v  == ll % P
            u1 == u \div P
            u2 == u % P
            t  == u2 + s
            k  == t \div P
            w  == t % P
            z  == hh + u1 + k
            x  == P * w + v
<1>1. u \in Int /\ v \in 0 .. P - 1 /\ ll = P * u + v
  BY IntDivMod
<1>. HIDE DEF u, v
<1>2. u1 \in Int /\ u2 \in 0 .. P - 1 /\ u = P * u1 + u2
  BY <1>1, IntDivMod
<1>. HIDE DEF u1, u2
<1>3. t \in Int
  BY <1>2
<1>4. t = u2 + s
  OBVIOUS
<1>. HIDE DEF t
<1>5. k \in Int /\ w \in 0 .. P - 1 /\ t = P * k + w
  BY <1>3, IntDivMod
<1>. HIDE DEF k, w
<1>6. x \in 0 .. B - 1
  BY <1>1, <1>5, Halves
<1>7. P * P * hh + P * s + ll = B * z + x
  BY <1>1, <1>2, <1>4, <1>5
<1>8. B \in Nat /\ B > 0 /\ z \in Int
  BY <1>2, <1>5
<1>9. x = P * w + v
  OBVIOUS
<1>. HIDE DEF z, x, B
<1>10. (B * z + x) % B = x
  BY <1>6, <1>8, DivUnique
<1>11. (P * P * hh + P * s + ll) % B = P * w + v
  BY <1>7, <1>9, <1>10
<1>. QED  BY <1>11 DEF B, t, w, u2, u, v

\* The upper word.
LEMMA UpperWord ==
  ASSUME NEW P \in Nat, P > 0, NEW ll \in Int, NEW s \in Int, NEW hh \in Int
  PROVE  hh + ((s + (ll \div P)) \div P) = (P * P * hh + P * s + ll) \div (P * P)
<1>. DEFINE B == P * P
            u == ll \div P
            v == ll % P
            t == s + u
            k == t \div P
            w == t % P
            z == hh + k
            x == P * w + v
<1>1. u \in Int /\ v \in 0 .. P - 1 /\ ll = P * u + v
  BY IntDivMod
<1>. HIDE DEF u, v
<1>2. t \in Int /\ t = s + u
  BY <1>1
<1>. HIDE DEF t
<1>3. k \in Int /\ w \in 0 .. P - 1 /\ t = P * k + w
  BY <1>2, IntDivMod
<1>. HIDE DEF k, w
<1>4. x \in 0 .. B - 1
  BY <1>1, <1>3, Halves
<1>5. P * P * hh + P * s + ll = B * z + x
  BY <1>1, <1>2, <1>3
<1>6. B \in Nat /\ B > 0 /\ z \in Int
  BY <1>3
<1>. HIDE DEF x, B
<1>7. z = hh + k
  OBVIOUS
<1>. HIDE DEF z
<1>8. (B * z + x) \div B = z
  BY <1>4, <1>6, DivUnique
<1>9. (P * P * hh + P * s + ll) \div B = hh + k
  BY <1>5, <1>7, <1>8
<1>. QED  BY <1>9 DEF B, k, t, u

-----------------------------------------------------------------------------
(* Words as the code reads them.                                           *)

\* A register of W + 2 bits holds a signed number.
Wide(x) == x \in Int /\ -2 * (Base * Base) <= x /\ x < 2 * (Base * Base)

LEMMA Stored ==
  ASSUME NEW x, Wide(x)
  PROVE  /\ AsSigned(x % 2^(W + 2)) = x
         /\ x % 2^(W + 2) \in Nat
         /\ x % 2^(W + 2) = IF x < 0 THEN x + 4 * (Base * Base) ELSE x
         /\ BitOf(x % 2^(W + 2), W + 1) <=> x < 0
<1>. DEFINE B == Base * Base
            y == x % (4 * B)
<1>1. B \in Nat /\ B > 0
  BY Bases
<1>2. 2^(W + 1) = 2 * B /\ 2^(W + 2) = 4 * B
  BY Bases
<1>3. x \in Int /\ -2 * B <= x /\ x < 2 * B
  BY DEF Wide
<1>. HIDE DEF B
<1>4. y = IF x < 0 THEN x + 4 * B ELSE x
  BY <1>1, <1>3
<1>. HIDE DEF y
<1>5. (y \div (2 * B)) % 2 = 1 <=> x < 0
  <2>1. CASE x < 0
    <3>1. y \div (2 * B) = 1
      BY <1>1, <1>3, <1>4, <2>1
    <3>. QED  BY <2>1, <3>1
  <2>2. CASE ~(x < 0)
    <3>1. y \div (2 * B) = 0
      BY <1>1, <1>3, <1>4, <2>2
    <3>. QED  BY <2>2, <3>1
  <2>. QED  BY <2>1, <2>2
<1>6. BitOf(y, W + 1) <=> x < 0
  BY <1>2, <1>5 DEF BitOf
<1>7. AsSigned(y) = IF x < 0 THEN y - 4 * B ELSE y
  BY <1>2, <1>6 DEF AsSigned, Signed
<1>8. AsSigned(y) = x /\ y \in Nat
  BY <1>1, <1>3, <1>4, <1>7
<1>9. x % 2^(W + 2) = y
  BY <1>2 DEF y
<1>. QED  BY <1>4, <1>6, <1>8, <1>9 DEF B

\* An operand and its halves: the upper one has the sign.
LEMMA OperandHalves ==
  ASSUME NEW x \in Word, NEW sg \in BOOLEAN
  PROVE  LET h == Signed(sg /\ Msb(x), Hi(x), H)
         IN /\ Lo(x) \in 0 .. Base - 1 /\ Hi(x) \in 0 .. Base - 1
            /\ h \in Int /\ -Base <= 2 * h /\ h < Base
            /\ h < 0 => sg
            /\ sg = FALSE => h = Hi(x)
            /\ Value(x, sg) = Base * h + Lo(x)
<1>. DEFINE B == Base * Base
            u == x \div Base
            v == x % Base
            M == 2^(W - 1)
<1>1. /\ Base \in Nat /\ Base >= 4 /\ 2^W = B /\ M \in Nat /\ 2 * M = B
  BY Bases
<1>2. x \in Int /\ 0 <= x /\ x < B
  BY <1>1 DEF Word
<1>3. u \in Int /\ v \in 0 .. Base - 1 /\ x = Base * u + v
  BY <1>1, <1>2, IntDivMod
<1>. HIDE DEF u, v, M
<1>4. u \in 0 .. Base - 1
  <2>1. u < 0 => Base * u <= Base * (-1)
    BY <1>1, <1>3
  <2>2. u >= Base => Base * u >= Base * Base
    BY <1>1, <1>3
  <2>. QED  BY <1>1, <1>2, <1>3, <2>1, <2>2
<1>5. Lo(x) = v /\ Hi(x) = u
  <2>1. Lo(x) = x % Base
    BY DEF Lo, Base
  <2>2. Hi(x) = (x \div Base) % Base
    BY DEF Hi, Base
  <2>3. u % Base = u
    BY <1>1, <1>4
  <2>. QED  BY <2>1, <2>2, <2>3 DEF u, v
<1>6. Msb(x) <=> x >= M
  <2>1. Msb(x) <=> (x \div M) % 2 = 1
    BY DEF Msb, BitOf, M
  <2>2. CASE x >= M
    <3>1. x \div M = 1
      BY <1>1, <1>2, <2>2
    <3>. QED  BY <2>1, <2>2, <3>1
  <2>3. CASE x < M
    <3>1. x \div M = 0
      BY <1>1, <1>2, <2>3
    <3>. QED  BY <1>1, <1>2, <2>1, <2>3, <3>1
  <2>. QED  BY <1>1, <1>2, <2>2, <2>3
<1>. DEFINE h == Signed(sg /\ Msb(x), Hi(x), H)
<1>7. h = IF sg /\ x >= M THEN u - Base ELSE u
  BY <1>5, <1>6 DEF Signed, Base
<1>8. Value(x, sg) = IF sg /\ x >= M THEN x - B ELSE x
  BY <1>1 DEF Value, M
<1>9. x >= M => 2 * u >= Base
  <2>1. 2 * u < Base => 2 * u <= Base - 1
    BY <1>1, <1>4
  <2>2. ASSUME 2 * u <= Base - 1 PROVE 2 * u <= Base - 2
    <3>1. Base % 2 = 0
      BY Bases
    <3>. QED  BY <1>1, <1>4, <2>2, <3>1
  <2>3. 2 * u <= Base - 2 => Base * (2 * u) <= Base * (Base - 2)
    BY <1>1, <1>4
  <2>4. 2 * u <= Base - 2 => 2 * (Base * u + v) < B
    BY <1>1, <1>3, <1>4, <2>3
  <2>. QED  BY <1>1, <1>3, <1>4, <2>1, <2>2, <2>4
<1>10. Value(x, sg) = Base * h + Lo(x)
  <2>1. CASE sg /\ x >= M
    <3>1. h = u - Base /\ Value(x, sg) = x - B
      BY <1>7, <1>8, <2>1
    <3>. QED  BY <1>1, <1>3, <1>4, <1>5, <3>1
  <2>2. CASE ~(sg /\ x >= M)
    BY <1>3, <1>5, <1>7, <1>8, <2>2
  <2>. QED  BY <2>1, <2>2
<1>. HIDE DEF h
<1>11. h \in Int /\ -Base <= 2 * h /\ h < Base /\ (h < 0 => sg) /\ (sg = FALSE => h = u)
  BY <1>1, <1>4, <1>7, <1>9
<1>. QED  BY <1>3, <1>4, <1>5, <1>10, <1>11 DEF h

\* Of the operands of the instruction.
AHigh == Signed(sign_a, Hi(a), H)
BHigh == Signed(sign_b, Hi(b), H)

LEMMA Operand ==
  ASSUME ControlTypeOK
  PROVE  /\ Base \in Nat /\ Base >= 4
         /\ Lo(a) \in 0 .. Base - 1 /\ Lo(b) \in 0 .. Base - 1
         /\ AHigh \in Int /\ -Base <= 2 * AHigh /\ AHigh < Base
         /\ BHigh \in Int /\ -Base <= 2 * BHigh /\ BHigh < Base
         /\ AHigh < 0 => signed_a(instr.op)
         /\ BHigh < 0 => signed_b(instr.op)
         /\ ~signed_a(instr.op) => AHigh = Hi(a)
         /\ ~signed_b(instr.op) => BHigh = Hi(b)
         /\ Value(a, signed_a(instr.op)) = Base * AHigh + Lo(a)
         /\ Value(b, signed_b(instr.op)) = Base * BHigh + Lo(b)
<1>1. a \in Word /\ b \in Word
  BY DEF ControlTypeOK, InstrType, a, b
<1>2. signed_a(instr.op) \in BOOLEAN /\ signed_b(instr.op) \in BOOLEAN
  BY DEF signed_a, signed_b
<1>3. LET h == Signed(signed_a(instr.op) /\ Msb(a), Hi(a), H)
      IN /\ Lo(a) \in 0 .. Base - 1 /\ Hi(a) \in 0 .. Base - 1
         /\ h \in Int /\ -Base <= 2 * h /\ h < Base
         /\ h < 0 => signed_a(instr.op)
         /\ signed_a(instr.op) = FALSE => h = Hi(a)
         /\ Value(a, signed_a(instr.op)) = Base * h + Lo(a)
  BY <1>1, <1>2, OperandHalves
<1>4. LET h == Signed(signed_b(instr.op) /\ Msb(b), Hi(b), H)
      IN /\ Lo(b) \in 0 .. Base - 1 /\ Hi(b) \in 0 .. Base - 1
         /\ h \in Int /\ -Base <= 2 * h /\ h < Base
         /\ h < 0 => signed_b(instr.op)
         /\ signed_b(instr.op) = FALSE => h = Hi(b)
         /\ Value(b, signed_b(instr.op)) = Base * h + Lo(b)
  BY <1>1, <1>2, OperandHalves
<1>5. (sign_a <=> signed_a(instr.op) /\ Msb(a)) /\ (sign_b <=> signed_b(instr.op) /\ Msb(b))
  BY DEF sign_a, sign_b
<1>6. AHigh = Signed(signed_a(instr.op) /\ Msb(a), Hi(a), H)
        /\ BHigh = Signed(signed_b(instr.op) /\ Msb(b), Hi(b), H)
  BY <1>5 DEF AHigh, BHigh, Signed
<1>. QED  BY <1>2, <1>3, <1>4, <1>6, Bases

-----------------------------------------------------------------------------
(* Multiplication.                                                         *)

\* The products of the halves, and their sum.
LL == Lo(a) * Lo(b)
Mid == Lo(a) * BHigh + AHigh * Lo(b)
HH == AHigh * BHigh

Product == Value(a, signed_a(instr.op)) * Value(b, signed_b(instr.op))

\* A product of two halves is small.
LEMMA HalfProduct ==
  ASSUME NEW P \in Nat, P >= 4, NEW x \in 0 .. P - 1, NEW y \in Int, -P <= 2 * y, y < P
  PROVE  /\ x * y \in Int
         /\ -(P * P) <= 2 * (x * y) /\ x * y <= P * P - 2 * P + 1
         /\ y >= 0 => x * y >= 0
<1>1. x * y <= P * P - 2 * P + 1
  <2>1. CASE y >= 0
    <3>1. x * y <= (P - 1) * y
      BY <2>1
    <3>2. (P - 1) * y <= (P - 1) * (P - 1)
      BY <2>1
    <3>. QED  BY <3>1, <3>2
  <2>2. CASE y < 0
    <3>1. x * y <= 0
      BY <2>2
    <3>2. P * P >= 2 * P
      OBVIOUS
    <3>. QED  BY <3>1, <3>2
  <2>. QED  BY <2>1, <2>2
<1>2. -(P * P) <= 2 * (x * y) /\ (y >= 0 => x * y >= 0)
  <2>1. CASE y >= 0
    BY <2>1
  <2>2. CASE y < 0
    <3>1. x * (-y) <= P * (-y)
      BY <2>2
    <3>2. P * (2 * (-y)) <= P * P
      BY <2>2
    <3>. QED  BY <2>2, <3>1, <3>2
  <2>. QED  BY <2>1, <2>2
<1>. QED  BY <1>1, <1>2

\* The product of the operands, and the size of its parts.
LEMMA ProductParts ==
  ASSUME ControlTypeOK
  PROVE  /\ LL \in Int /\ Mid \in Int /\ HH \in Int
         /\ 0 <= LL /\ LL < Base * Base /\ LL \div Base \in 0 .. Base - 1
         /\ -(Base * Base) <= Mid /\ Mid <= 2 * (Base * Base) - 4 * Base + 2
         /\ ~signed_a(instr.op) /\ ~signed_b(instr.op) => Mid >= 0
         /\ Lo(a) * BHigh \in Int /\ AHigh * Lo(b) \in Int
         /\ -(Base * Base) <= Lo(a) * BHigh /\ Lo(a) * BHigh <= Base * Base - 2 * Base + 1
         /\ Product = Base * Base * HH + Base * Mid + LL
<1>. DEFINE P == Base
            al == Lo(a)
            bl == Lo(b)
            ah == AHigh
            bh == BHigh
<1>1. /\ P \in Nat /\ P >= 4 /\ al \in 0 .. P - 1 /\ bl \in 0 .. P - 1
      /\ ah \in Int /\ -P <= 2 * ah /\ ah < P
      /\ bh \in Int /\ -P <= 2 * bh /\ bh < P
      /\ ~signed_a(instr.op) => ah >= 0
      /\ ~signed_b(instr.op) => bh >= 0
      /\ Product = (P * ah + al) * (P * bh + bl)
  BY Operand DEF Product
<1>2. LL = al * bl /\ Mid = al * bh + ah * bl /\ HH = ah * bh
  BY DEF LL, Mid, HH
<1>. HIDE DEF P, al, bl, ah, bh
<1>3. /\ al * bl \in Int /\ 0 <= al * bl /\ al * bl <= P * P - 2 * P + 1
  <2>1. bl \in Int /\ -P <= 2 * bl /\ bl < P /\ bl >= 0
    BY <1>1
  <2>. QED  BY <1>1, <2>1, HalfProduct
<1>4. /\ al * bh \in Int /\ -(P * P) <= 2 * (al * bh) /\ al * bh <= P * P - 2 * P + 1
      /\ bh >= 0 => al * bh >= 0
  BY <1>1, HalfProduct
<1>5. /\ bl * ah \in Int /\ -(P * P) <= 2 * (bl * ah) /\ bl * ah <= P * P - 2 * P + 1
      /\ ah >= 0 => bl * ah >= 0
  BY <1>1, HalfProduct
<1>6. ah * bl = bl * ah
  BY <1>1
<1>. DEFINE ll == al * bl
            lh == al * bh
            hl == bl * ah
            B  == P * P
<1>7. ll \div P \in 0 .. P - 1
  <2>. DEFINE u == ll \div P
              v == ll % P
  <2>1. u \in Int /\ v \in 0 .. P - 1 /\ ll = P * u + v
    <3>. HIDE DEF ll
    <3>. QED  BY <1>1, <1>3, IntDivMod DEF ll
  <2>2. 0 <= ll /\ ll < P * P
    BY <1>1, <1>3
  <2>. HIDE DEF u, v, ll
  <2>3. u < 0 => P * u <= P * (-1)
    BY <1>1, <2>1
  <2>4. u >= P => P * u >= P * P
    BY <1>1, <2>1
  <2>5. u \in 0 .. P - 1
    BY <1>1, <2>1, <2>2, <2>3, <2>4
  <2>. QED  BY <2>5 DEF u
<1>8. Product = P * P * HH + P * Mid + LL
  BY <1>1, <1>2
<1>9. HH \in Int
  BY <1>1, <1>2
<1>10. B \in Int /\ B > 0 /\ B = P * P
  BY <1>1
<1>11. /\ LL = ll /\ Mid = lh + hl
  BY <1>2, <1>6
<1>12. /\ ll \in Int /\ 0 <= ll /\ ll <= B - 2 * P + 1
       /\ lh \in Int /\ -B <= 2 * lh /\ lh <= B - 2 * P + 1 /\ (bh >= 0 => lh >= 0)
       /\ hl \in Int /\ -B <= 2 * hl /\ hl <= B - 2 * P + 1 /\ (ah >= 0 => hl >= 0)
  BY <1>3, <1>4, <1>5
<1>13. Lo(a) * BHigh = lh /\ AHigh * Lo(b) = hl /\ Base = P /\ ll \div P \in 0 .. P - 1
  BY <1>6, <1>7 DEF P, al, bl, ah, bh
<1>. HIDE DEF ll, lh, hl, B
<1>14. /\ 0 <= LL /\ LL < B /\ -B <= Mid /\ Mid <= 2 * B - 4 * P + 2
       /\ ~signed_a(instr.op) /\ ~signed_b(instr.op) => Mid >= 0
       /\ -B <= lh /\ lh <= B - 2 * P + 1
       /\ LL \in Int /\ Mid \in Int
  BY <1>1, <1>10, <1>11, <1>12
<1>. QED  BY <1>8, <1>9, <1>10, <1>11, <1>12, <1>13, <1>14

\* What a word keeps of a wider number.
LEMMA Narrow ==
  ASSUME NEW x \in Int
  PROVE  /\ (x % 2^W) % 2^W = x % 2^W
         /\ (x % 2^(W + 2)) % 2^W = x % 2^W
         /\ x % 2^W \in Word
<1>. DEFINE B == Base * Base
            q == x \div (4 * B)
            r == x % (4 * B)
            z == -4 * q
<1>1. B \in Nat /\ B > 0 /\ 2^W = B /\ 2^(W + 2) = 4 * B
  BY Bases
<1>. HIDE DEF B
<1>2. q \in Int /\ r \in 0 .. 4 * B - 1 /\ x = (4 * B) * q + r
  <2>. DEFINE n == 4 * B
  <2>1. n \in Nat /\ n > 0
    BY <1>1
  <2>. HIDE DEF n
  <2>2. x \div n \in Int /\ x % n \in 0 .. n - 1 /\ x = n * (x \div n) + (x % n)
    BY <2>1, IntDivMod
  <2>. QED  BY <2>2 DEF n
<1>. HIDE DEF q, r
<1>3. r % B = x % B
  <2>1. z \in Int /\ r = x + B * z
    BY <1>1, <1>2
  <2>. HIDE DEF z
  <2>. QED  BY <1>1, <2>1, AddMultiple
<1>4. x % B \in 0 .. B - 1
  BY <1>1
<1>5. (x % B) % B = x % B
  <2>. DEFINE y == x % B
  <2>1. y \in 0 .. B - 1
    BY <1>4
  <2>. HIDE DEF y
  <2>2. y % B = y
    BY <1>1, <2>1
  <2>. QED  BY <2>2 DEF y
<1>. QED  BY <1>1, <1>3, <1>4, <1>5 DEF r, Word

\* The sum after the first three products, and the result from it.
LEMMA MulLow ==
  ASSUME ControlTypeOK
  PROVE  Base * ((((LL \div Base) % Base) + Mid) % Base) + (LL % Base) = Product % 2^W
<1>1. Base * ((((LL \div Base) % Base) + Mid) % Base) + (LL % Base)
        = (Base * Base * HH + Base * Mid + LL) % (Base * Base)
  <2>1. Base \in Nat /\ Base > 0 /\ LL \in Int /\ Mid \in Int /\ HH \in Int
    BY ProductParts, Bases
  <2>. QED  BY <2>1, LowerWord
<1>. QED  BY <1>1, ProductParts, Bases

LEMMA MulHigh ==
  ASSUME ControlTypeOK
  PROVE  HH + ((Mid + (LL \div Base)) \div Base) = Product \div 2^W
<1>1. HH + ((Mid + (LL \div Base)) \div Base)
        = (Base * Base * HH + Base * Mid + LL) \div (Base * Base)
  <2>1. Base \in Nat /\ Base > 0 /\ LL \in Int /\ Mid \in Int /\ HH \in Int
    BY ProductParts, Bases
  <2>. QED  BY <2>1, UpperWord
<1>. QED  BY <1>1, ProductParts, Bases

\* What MUL and MULH are to compute.
LEMMA MulResult ==
  ASSUME ControlTypeOK
  PROVE  /\ instr.op = "mul" => Result(instr) = Product % 2^W
         /\ op = "MULH" => Result(instr) = (Product \div 2^W) % 2^W
<1>1. /\ Product = Value(instr.a, signed_a(instr.op)) * Value(instr.b, signed_b(instr.op))
  BY DEF Product, a, b
<1>2. instr.op = "mul" => Result(instr) = Product % 2^W
  BY <1>1 DEF Result
<1>3. op = "MULH" => instr.op \in {"mulh", "mulhsu", "mulhu"}
  BY DEF op, operator_of, ControlTypeOK, InstrType, Ops
<1>4. instr.op \in {"mulh", "mulhsu", "mulhu"} => Result(instr) = (Product \div 2^W) % 2^W
  BY <1>1 DEF Result
<1>. QED  BY <1>2, <1>3, <1>4

\* MUL on the single-cycle multiplier.
LEMMA SingleMul ==
  ASSUME ControlTypeOK, Single, instr.op = "mul", mult_state_q = "MULL"
  PROVE  multdiv_result_o = Result(instr)
<1>1. op = "MULL" /\ ~div_sel /\ ~vector
  BY DEF op, operator_of, div_sel, vector
<1>2. ~signed_a(instr.op) /\ ~signed_b(instr.op) /\ ~sign_a /\ ~sign_b
  BY DEF signed_a, signed_b, sign_a, sign_b
<1>3. AHigh = Hi(a) /\ BHigh = Hi(b)
  BY <1>2 DEF AHigh, BHigh, Signed
<1>4. Mult1 = LL /\ Mult2 = Lo(a) * BHigh /\ Mult3 = AHigh * Lo(b)
  BY <1>2 DEF Mult1, Mult2, Mult3, LL, AHigh, BHigh
<1>5. single_mac_res = ((LL \div Base) % Base) + Mid
  <2>1. single_mac_res = Hi(LL) + Lo(a) * BHigh + AHigh * Lo(b)
    BY <1>4 DEF single_mac_res
  <2>2. Hi(LL) = (LL \div Base) % Base
    BY DEF Hi, Base
  <2>3. (LL \div Base) % Base \in Int
    BY ProductParts, Bases
  <2>. DEFINE x == Lo(a) * BHigh
              y == AHigh * Lo(b)
              h == (LL \div Base) % Base
  <2>4. x \in Int /\ y \in Int /\ h \in Int /\ Mid = x + y /\ single_mac_res = h + x + y
    BY <2>1, <2>2, <2>3, ProductParts DEF Mid
  <2>. HIDE DEF x, y, h
  <2>5. single_mac_res = h + Mid
    BY <2>4
  <2>. QED  BY <2>5 DEF h
<1>6. mac_res_d = Base * (single_mac_res % Base) + (LL % Base)
  BY <1>1, <1>4 DEF mac_res_d, single_mac_res_d, Lo, Base
<1>7. mac_res_d = Product % 2^W
  BY <1>5, <1>6, MulLow
<1>8. mac_res_d % 2^W = Product % 2^W
  <2>1. Product \in Int
    BY ProductParts, Bases
  <2>. QED  BY <1>7, <2>1, Narrow
<1>. QED  BY <1>1, <1>8, MulResult DEF multdiv_result_o

\* The carry of the first product.
Carry == LL \div Base

\* What the fast multiplier keeps from one cycle to the next.
FastData ==
  /\ mult_state_q = "ALBH" => imd_val_q[0] = LL
  /\ mult_state_q = "AHBL" =>
       imd_val_q[0] = IF op = "MULL"
                      THEN Base * ((Lo(a) * BHigh + Carry) % Base) + (LL % Base)
                      ELSE (Lo(a) * BHigh + Carry) % 2^(W + 2)
  /\ mult_state_q = "AHBH" => imd_val_q[0] = (Mid + Carry) % 2^(W + 2)

\* The partial sums fit.
LEMMA SumsFit ==
  ASSUME ControlTypeOK
  PROVE  /\ Base \in Nat /\ Base >= 4
         /\ Carry \in 0 .. Base - 1 /\ Hi(LL) = Carry /\ Lo(LL) = LL % Base
         /\ Wide(0) /\ Wide(LL) /\ Wide(Carry)
         /\ Wide(Lo(a) * BHigh + Carry) /\ Wide(Mid + Carry)
<1>. DEFINE B == Base * Base
            x == Lo(a) * BHigh
<1>1. /\ Base \in Nat /\ Base >= 4 /\ B \in Int /\ B >= 4 * Base
  BY Bases
<1>2. Carry \in 0 .. Base - 1
  BY ProductParts DEF Carry
<1>3. /\ LL \in Int /\ 0 <= LL /\ LL < B
      /\ Mid \in Int /\ -B <= Mid /\ Mid <= 2 * B - 4 * Base + 2
      /\ x \in Int /\ -B <= x /\ x <= B - 2 * Base + 1
  BY ProductParts
<1>4. Hi(LL) = Carry
  <2>1. Hi(LL) = Carry % Base
    BY DEF Hi, Base, Carry
  <2>. QED  BY <1>1, <1>2, <2>1
<1>5. Lo(LL) = LL % Base
  BY DEF Lo, Base
<1>. HIDE DEF B, x
<1>6. /\ 0 \in Int /\ -2 * B <= 0 /\ 0 < 2 * B
      /\ -2 * B <= LL /\ LL < 2 * B
      /\ Carry \in Int /\ -2 * B <= Carry /\ Carry < 2 * B
      /\ x + Carry \in Int /\ -2 * B <= x + Carry /\ x + Carry < 2 * B
      /\ Mid + Carry \in Int /\ -2 * B <= Mid + Carry /\ Mid + Carry < 2 * B
  BY <1>1, <1>2, <1>3
<1>7. Wide(0) /\ Wide(LL) /\ Wide(Carry) /\ Wide(x + Carry) /\ Wide(Mid + Carry)
  BY <1>3, <1>6 DEF Wide, B
<1>. QED  BY <1>1, <1>2, <1>4, <1>5, <1>7 DEF x

\* Nothing is lost of a number that fits and is not negative.
LEMMA StoredAsIs ==
  ASSUME NEW x, Wide(x), x >= 0
  PROVE  x % 2^(W + 2) = x /\ AsSigned(x) = x
<1>1. x % 2^(W + 2) = x
  <2>1. ~(x < 0)
    BY DEF Wide
  <2>. QED  BY <2>1, Stored
<1>. QED  BY <1>1, Stored

LEMMA FastFirst ==
  ASSUME ControlTypeOK, ~Single, mult_state_q = "ALBL"
  PROVE  mac_res_d = LL
<1>1. fast_a = Lo(a) /\ fast_b = Lo(b) /\ fast_accum = 0
  BY DEF fast_a, fast_b, fast_accum
<1>2. AsSigned(0) = 0
  BY SumsFit, StoredAsIs
<1>3. fast_mac_res = LL
  <2>1. fast_mac_res = LL + 0
    BY <1>1, <1>2 DEF fast_mac_res, LL
  <2>2. LL \in Int
    BY ProductParts
  <2>. QED  BY <2>1, <2>2
<1>4. mac_res_d = LL % 2^(W + 2)
  BY <1>3 DEF mac_res_d, fast_mac_res_d
<1>5. Wide(LL) /\ LL >= 0
  BY SumsFit, ProductParts
<1>. QED  BY <1>4, <1>5, StoredAsIs

LEMMA FastSecond ==
  ASSUME ControlTypeOK, ~Single, mult_state_q = "ALBH", FastData, op \in {"MULL", "MULH"}
  PROVE  mac_res_d = IF op = "MULL"
                     THEN Base * ((Lo(a) * BHigh + Carry) % Base) + (LL % Base)
                     ELSE (Lo(a) * BHigh + Carry) % 2^(W + 2)
<1>1. imd_val_q[0] = LL
  BY DEF FastData
<1>2. fast_a = Lo(a) /\ fast_b = BHigh /\ fast_accum = Carry
  BY <1>1, SumsFit DEF fast_a, fast_b, fast_accum, BHigh
<1>3. AsSigned(Carry) = Carry
  <2>1. Wide(Carry) /\ Carry >= 0
    BY SumsFit
  <2>. QED  BY <2>1, StoredAsIs
<1>4. fast_mac_res = Lo(a) * BHigh + Carry
  BY <1>2, <1>3 DEF fast_mac_res
<1>. QED  BY <1>1, <1>4, SumsFit DEF mac_res_d, fast_mac_res_d, Lo, Base

LEMMA FastThird ==
  ASSUME ControlTypeOK, ~Single, mult_state_q = "AHBL", FastData, op = "MULH"
  PROVE  mac_res_d = (Mid + Carry) % 2^(W + 2)
<1>. DEFINE x == Lo(a) * BHigh
            y == AHigh * Lo(b)
<1>1. imd_val_q[0] = (x + Carry) % 2^(W + 2)
  BY DEF FastData
<1>2. fast_a = AHigh /\ fast_b = Lo(b) /\ fast_accum = imd_val_q[0]
  BY DEF fast_a, fast_b, fast_accum, AHigh
<1>3. AsSigned(imd_val_q[0]) = x + Carry
  <2>1. Wide(x + Carry)
    BY SumsFit
  <2>. HIDE DEF x
  <2>. QED  BY <1>1, <2>1, Stored
<1>4. fast_mac_res = y + (x + Carry)
  BY <1>2, <1>3 DEF fast_mac_res
<1>5. x \in Int /\ y \in Int /\ Carry \in Int /\ Mid = x + y
  BY ProductParts, SumsFit DEF Mid
<1>. HIDE DEF x, y
<1>6. fast_mac_res = Mid + Carry
  BY <1>4, <1>5
<1>. QED  BY <1>6 DEF mac_res_d, fast_mac_res_d

LEMMA FastMul ==
  ASSUME ControlTypeOK, ~Single, mult_state_q = "AHBL", FastData, instr.op = "mul"
  PROVE  multdiv_result_o = Result(instr)
<1>. DEFINE x == Lo(a) * BHigh
            y == AHigh * Lo(b)
            w == (x + Carry) % Base
            v == LL % Base
            k == (x + Carry) \div Base
<1>1. op = "MULL" /\ ~div_sel
  BY DEF op, operator_of, div_sel
<1>2. imd_val_q[0] = Base * w + v
  BY <1>1 DEF FastData
<1>3. /\ Base \in Nat /\ Base > 0 /\ x \in Int /\ y \in Int /\ Carry \in Int /\ LL \in Int
      /\ Mid = x + y /\ Carry % Base = Carry
  <2>1. Base \in Nat /\ Base > 0 /\ Carry \in 0 .. Base - 1
    BY SumsFit
  <2>2. x \in Int /\ y \in Int /\ LL \in Int /\ Mid = x + y
    BY ProductParts DEF Mid
  <2>. QED  BY <2>1, <2>2
<1>. HIDE DEF x, y
<1>4. w \in 0 .. Base - 1 /\ v \in 0 .. Base - 1 /\ k \in Int /\ x + Carry = Base * k + w
  <2>. DEFINE z == x + Carry
  <2>1. z \in Int
    BY <1>3
  <2>. HIDE DEF z
  <2>2. z \div Base \in Int /\ z % Base \in 0 .. Base - 1 /\ z = Base * (z \div Base) + (z % Base)
    BY <1>3, <2>1, IntDivMod
  <2>. QED  BY <1>3, <2>2, IntDivMod DEF z
<1>. HIDE DEF w, v, k
<1>5. Hi(imd_val_q[0]) = w /\ Lo(imd_val_q[0]) = v
  <2>1. (Base * w + v) % Base = v /\ ((Base * w + v) \div Base) % Base = w
    BY <1>3, <1>4, Halves
  <2>. QED  BY <1>2, <2>1 DEF Hi, Lo, Base
<1>6. fast_a = AHigh /\ fast_b = Lo(b) /\ fast_accum = w
  BY <1>1, <1>5 DEF fast_a, fast_b, fast_accum, AHigh
<1>7. AsSigned(w) = w
  <2>1. Wide(w) /\ w >= 0
    <3>1. Base * Base >= Base /\ w \in Int /\ 0 <= w /\ w < Base
      BY <1>3, <1>4
    <3>. DEFINE B == Base * Base
    <3>2. B \in Int /\ B >= Base
      BY <1>3, <3>1
    <3>. HIDE DEF B
    <3>3. -2 * B <= w /\ w < 2 * B
      BY <1>3, <3>1, <3>2
    <3>. QED  BY <3>1, <3>3 DEF Wide, B
  <2>. QED  BY <2>1, StoredAsIs
<1>8. fast_mac_res = y + w
  BY <1>6, <1>7 DEF fast_mac_res, y
<1>9. mac_res_d = Base * ((y + w) % Base) + v
  BY <1>1, <1>5, <1>8 DEF mac_res_d, fast_mac_res_d, Lo, Base
<1>10. (y + w) % Base = (Carry + Mid) % Base
  <2>. DEFINE z == y + w
  <2>1. z \in Int /\ z + Base * k = Carry + Mid
    BY <1>3, <1>4
  <2>. HIDE DEF z
  <2>2. (z + Base * k) % Base = z % Base
    BY <1>3, <1>4, <2>1, AddMultiple
  <2>. QED  BY <2>1, <2>2 DEF z
<1>11. mac_res_d = Product % 2^W
  <2>1. Base * (((Carry % Base) + Mid) % Base) + v = Product % 2^W
    BY MulLow DEF Carry, v
  <2>. QED  BY <1>3, <1>9, <1>10, <2>1
<1>12. mac_res_d % 2^W = Product % 2^W
  <2>1. Product \in Int
    BY ProductParts, Bases
  <2>. QED  BY <1>11, <2>1, Narrow
<1>. QED  BY <1>1, <1>12, MulResult DEF multdiv_result_o

\* The upper part of a stored sum, with its sign.
LEMMA Accumulated ==
  ASSUME imd_val_q[0] = (Mid + Carry) % 2^(W + 2), ControlTypeOK
  PROVE  AsSigned(accum) = (Mid + Carry) \div Base
<1>. DEFINE B == Base * Base
            x == Mid + Carry
            i == imd_val_q[0]
            q == x \div Base
<1>1. /\ Base \in Nat /\ Base >= 4 /\ B \in Int /\ B = Base * Base /\ B >= 4 * Base
      /\ 2^(W + 2) = 4 * B /\ 2^(H + 2) = 4 * Base
  BY Bases
<1>2. /\ x \in Int /\ -2 * B <= x /\ x < 2 * B
      /\ i = IF x < 0 THEN x + 4 * B ELSE x
      /\ BitOf(i, W + 1) <=> x < 0
  <2>1. Wide(x)
    BY SumsFit
  <2>. HIDE DEF x
  <2>. QED  BY <2>1, Stored DEF Wide, x
<1>3. x < 0 => signed_a(instr.op)
  <2>1. signed_b(instr.op) => signed_a(instr.op)
    BY DEF signed_a, signed_b
  <2>2. ~signed_a(instr.op) => Mid >= 0
    BY <2>1, ProductParts
  <2>3. Mid >= 0 => x >= 0
    BY SumsFit, ProductParts
  <2>. QED  BY <2>2, <2>3, <1>2
<1>4. accum = IF x < 0 THEN (i \div Base) + (4 * B - 4 * Base) ELSE (i \div Base) + 0
  BY <1>1, <1>2, <1>3 DEF accum, Base
<1>. HIDE DEF B, x, i
<1>5. q \in Int /\ x = Base * q + (x % Base) /\ x % Base \in 0 .. Base - 1
  BY <1>1, <1>2, IntDivMod
<1>6. (x + Base * (4 * Base)) \div Base = q + 4 * Base
  <2>. DEFINE k == 4 * Base
  <2>1. k \in Int
    BY <1>1
  <2>. HIDE DEF k
  <2>2. (x + Base * k) \div Base = (x \div Base) + k
    BY <1>1, <1>2, <2>1, AddMultiple
  <2>. QED  BY <2>2 DEF k
<1>. HIDE DEF q
<1>7. accum = IF x < 0 THEN q + 4 * B ELSE q
  <2>1. CASE x < 0
    <3>1. i = x + Base * (4 * Base)
      BY <1>1, <1>2, <2>1
    <3>. QED  BY <1>1, <1>4, <1>5, <1>6, <2>1, <3>1
  <2>2. CASE ~(x < 0)
    BY <1>2, <1>4, <1>5, <2>2 DEF q
  <2>. QED  BY <2>1, <2>2
<1>8. Wide(q) /\ (q < 0 <=> x < 0)
  <2>1. q >= 0 => Base * q >= 0
    BY <1>1, <1>5
  <2>2. q < 0 => Base * q <= -Base
    BY <1>1, <1>5
  <2>3. q < 0 <=> x < 0
    BY <1>1, <1>2, <1>5, <2>1, <2>2
  <2>4. q > 0 => Base * q >= q
    BY <1>1, <1>5
  <2>5. q < 0 => Base * q <= q + q
    <3>1. q < 0 => (Base - 2) * q <= 0
      BY <1>1, <1>5
    <3>. QED  BY <1>1, <1>5, <3>1
  <2>6. -2 * B <= q /\ q < 2 * B
    <3>1. q > 0 => q < 2 * B
      BY <1>1, <1>2, <1>5, <2>4
    <3>2. q < 0 => -2 * B <= q
      <4>1. x <= Base * q + Base - 1 /\ x >= Base * q
        BY <1>1, <1>2, <1>5
      <4>2. q <= -2 * B - 1 => Base * q <= Base * (-2 * B - 1)
        BY <1>1, <1>5
      <4>3. Base * (-2 * B - 1) <= -2 * B - Base
        <5>1. (Base - 1) * (2 * B) >= 0
          BY <1>1
        <5>. QED  BY <1>1, <5>1
      <4>. QED  BY <1>1, <1>2, <1>5, <4>1, <4>2, <4>3
    <3>. QED  BY <1>1, <1>5, <3>1, <3>2
  <2>. QED  BY <1>5, <2>3, <2>6 DEF Wide, B
<1>9. accum = q % 2^(W + 2)
  BY <1>7, <1>8, Stored DEF B
<1>10. AsSigned(accum) = q
  BY <1>8, <1>9, Stored
<1>. QED  BY <1>10 DEF q, x

\* MULH on the fast multiplier.
LEMMA FastMulh ==
  ASSUME ControlTypeOK, ~Single, mult_state_q = "AHBH", FastData, op = "MULH"
  PROVE  multdiv_result_o = Result(instr)
<1>. DEFINE q == (Mid + Carry) \div Base
<1>1. ~div_sel
  BY DEF div_sel
<1>2. fast_a = AHigh /\ fast_b = BHigh /\ fast_accum = accum
  BY DEF fast_a, fast_b, fast_accum, AHigh, BHigh
<1>3. AsSigned(accum) = q
  BY Accumulated DEF FastData
<1>4. HH + q = Product \div 2^W
  BY MulHigh DEF Carry
<1>5. fast_mac_res = Product \div 2^W
  BY <1>2, <1>3, <1>4 DEF fast_mac_res, HH
<1>6. mac_res_d = (Product \div 2^W) % 2^(W + 2)
  BY <1>5 DEF mac_res_d, fast_mac_res_d
<1>7. Product \div 2^W \in Int
  <2>1. Product \in Int
    BY ProductParts, Bases
  <2>. QED  BY <2>1, Width, IntDivMod
<1>8. mac_res_d % 2^W = (Product \div 2^W) % 2^W
  BY <1>6, <1>7, Narrow
<1>. QED  BY <1>1, <1>8, MulResult DEF multdiv_result_o

-----------------------------------------------------------------------------
(* Products of lanes.                                                      *)

\* The base of a quarter of a word.
Quarter == 2^Q

LEMMA Quarters ==
  /\ Quarter \in {2, 4, 16, 256}
  /\ 2^(2 * Q) = Quarter * Quarter /\ 2^(3 * Q) = Quarter * Quarter * Quarter
  /\ 2^(Q * 0) = 1 /\ 2^(Q * 1) = Quarter /\ 2^(Q * 2) = Quarter * Quarter
  /\ 2^(Q * 3) = Quarter * Quarter * Quarter
  /\ 2^W = Quarter * Quarter * Quarter * Quarter
  /\ 2^(H * 0) = 1 /\ 2^(H * 1) = Base
  /\ Lanes(Q) = {0, 1, 2, 3} /\ Lanes(H) = {0, 1}
<1>1. H \in {2, 4, 8, 16}
  BY MultDivAssumption
<1>2. CASE H = 2
  BY <1>2 DEF W, Q, Base, Quarter, Lanes
<1>3. CASE H = 4
  BY <1>3 DEF W, Q, Base, Quarter, Lanes
<1>4. CASE H = 8
  BY <1>4 DEF W, Q, Base, Quarter, Lanes
<1>5. CASE H = 16
  BY <1>5 DEF W, Q, Base, Quarter, Lanes
<1>. QED  BY <1>1, <1>2, <1>3, <1>4, <1>5

\* Quotients of quotients.
LEMMA DivDiv ==
  ASSUME NEW m \in Nat, m > 0, NEW n \in Nat, n > 0, NEW x \in Int
  PROVE  /\ m * n \in Nat /\ m * n > 0
         /\ x \div (m * n) = (x \div m) \div n
<1>. DEFINE q == x \div m
            r == x % m
<1>1. q \in Int /\ r \in 0 .. m - 1 /\ x = m * q + r
  BY IntDivMod
<1>. HIDE DEF q, r
<1>. DEFINE p == q \div n
            s == q % n
<1>2. p \in Int /\ s \in 0 .. n - 1 /\ q = n * p + s
  BY <1>1, IntDivMod
<1>. HIDE DEF p, s
<1>. DEFINE k == m * n
            t == m * s + r
<1>3. k \in Nat /\ k > 0
  OBVIOUS
<1>4. m * s >= 0 /\ m * s <= m * (n - 1)
  BY <1>2
<1>5. t \in 0 .. k - 1
  BY <1>1, <1>2, <1>4
<1>6. x = k * p + t
  BY <1>1, <1>2
<1>. HIDE DEF k, t
<1>7. x \div k = p
  BY <1>2, <1>3, <1>5, <1>6, DivUnique
<1>. QED  BY <1>3, <1>7 DEF k, p, q

\* A word is its four quarters.
LEMMA FourDigits ==
  ASSUME NEW R \in Nat, R > 0, NEW x \in 0 .. R * R * R * R - 1
  PROVE  x = (x % R) + R * ((x \div R) % R) + (R * R) * ((x \div (R * R)) % R)
               + (R * R * R) * ((x \div (R * R * R)) % R)
<1>. DEFINE q1 == x \div R
            q2 == q1 \div R
            q3 == q2 \div R
            R2 == R * R
<1>1. q1 \in Int /\ x % R \in Int /\ x = R * q1 + (x % R)
  BY IntDivMod
<1>2. R2 \in Nat /\ R2 > 0 /\ x \in Int
  OBVIOUS
<1>3. x \div (R * R) = q2 /\ x \div (R * R * R) = q3
  <2>1. x \div (R * R) = q2
    BY DivDiv
  <2>2. x \div (R2 * R) = (x \div R2) \div R
    <3>. HIDE DEF R2
    <3>. QED  BY <1>2, DivDiv
  <2>. QED  BY <2>1, <2>2
<1>. HIDE DEF q1
<1>4. q2 \in Int /\ q1 % R \in Int /\ q1 = R * q2 + (q1 % R)
  BY <1>1, IntDivMod
<1>. HIDE DEF q2
<1>5. q3 \in Int /\ q2 % R \in 0 .. R - 1 /\ q2 = R * q3 + (q2 % R)
  BY <1>4, IntDivMod
<1>6. q3 \in 0 .. R - 1
  <2>1. x = q3 * (R * R * R) + (x % (R * R * R)) /\ x % (R * R * R) \in 0 .. (R * R * R) - 1
    <3>. DEFINE R3 == R * R * R
    <3>1. R3 \in Nat /\ R3 > 0
      BY <1>2
    <3>2. q3 = x \div R3
      BY <1>3
    <3>. HIDE DEF R3, q3
    <3>3. x \div R3 \in Int /\ x % R3 \in 0 .. R3 - 1 /\ x = R3 * (x \div R3) + (x % R3)
      BY <1>2, <3>1, IntDivMod
    <3>. QED  BY <3>1, <3>2, <3>3, <1>5 DEF R3
  <2>. DEFINE R3 == R * R * R
              y  == x % R3
  <2>2. R3 \in Nat /\ R3 > 0 /\ x = R3 * q3 + y /\ y \in 0 .. R3 - 1 /\ x \in 0 .. R3 * R - 1
    BY <2>1, <1>2, <1>5
  <2>. HIDE DEF R3, y, q3
  <2>3. q3 < 0 => R3 * q3 <= -R3
    BY <1>5, <2>2
  <2>4. q3 >= R => R3 * q3 >= R3 * R
    BY <1>5, <2>2
  <2>. QED  BY <1>5, <2>2, <2>3, <2>4
<1>7. q3 % R = q3
  <2>. HIDE DEF q3
  <2>. QED  BY <1>6
<1>. HIDE DEF q3
<1>8. x = (x % R) + R * (q1 % R) + (R * R) * (q2 % R) + (R * R * R) * q3
  BY <1>1, <1>4, <1>5
<1>. QED  BY <1>3, <1>7, <1>8 DEF q1

\* Four quarters, put together.
LEMMA DigitsOf ==
  ASSUME NEW R \in Nat, R > 0,
         NEW f, \A l \in {0, 1, 2, 3} : f[l] \in 0 .. R - 1
  PROVE  LET x == f[0] + R * f[1] + (R * R) * f[2] + (R * R * R) * f[3]
         IN /\ x \in 0 .. R * R * R * R - 1
            /\ x % R = f[0] /\ (x \div R) % R = f[1]
            /\ (x \div (R * R)) % R = f[2] /\ (x \div (R * R * R)) % R = f[3]
<1>. DEFINE p0 == f[0]
            p1 == f[1]
            p2 == f[2]
            p3 == f[3]
<1>0. p0 \in 0 .. R - 1 /\ p1 \in 0 .. R - 1 /\ p2 \in 0 .. R - 1 /\ p3 \in 0 .. R - 1
  OBVIOUS
<1>. HIDE DEF p0, p1, p2, p3
<1>. DEFINE x == p0 + R * p1 + (R * R) * p2 + (R * R * R) * p3
            q2 == R * p3 + p2
            q1 == R * q2 + p1
            R2 == R * R
<1>1. q2 \in 0 .. R * R - 1 /\ q2 % R = p2 /\ q2 \div R = p3 /\ p3 % R = p3
  BY <1>0, Halves
<1>2. q2 \in Int
  BY <1>0, <1>1
<1>3. q2 <= R * R - 1 /\ q2 >= 0
  BY <1>0, <1>1
<1>4. x = R * q1 + p0
  BY <1>0
<1>. HIDE DEF q2, x
<1>5. q1 % R = p1 /\ q1 \div R = q2 /\ q1 \in Int
  BY <1>0, <1>2, DivUnique
<1>6. R * q2 <= R * (R * R - 1) /\ R * q2 >= 0
  BY <1>0, <1>2, <1>3
<1>7. q1 <= R * R * R - 1 /\ q1 >= 0
  BY <1>0, <1>2, <1>6
<1>. HIDE DEF q1
<1>8. x % R = p0 /\ x \div R = q1 /\ x \in Int
  BY <1>0, <1>4, <1>5, DivUnique
<1>9. R * q1 <= R * (R * R * R - 1) /\ R * q1 >= 0
  BY <1>0, <1>5, <1>7
<1>10. x \in 0 .. R * R * R * R - 1
  BY <1>0, <1>4, <1>5, <1>9
<1>11. R2 \in Nat /\ R2 > 0
  BY <1>0
<1>12. x \div (R * R) = q2 /\ x \div (R * R * R) = p3
  <2>1. x \div (R * R) = q2
    BY <1>0, <1>5, <1>8, DivDiv
  <2>2. x \div (R2 * R) = (x \div R2) \div R
    <3>. HIDE DEF R2
    <3>. QED  BY <1>0, <1>8, <1>11, DivDiv
  <2>. QED  BY <1>0, <1>1, <2>1, <2>2
<1>. QED  BY <1>0, <1>1, <1>5, <1>8, <1>10, <1>12 DEF x, p0, p1, p2, p3

\* The sign of a factor does not change the lower half of a product.
LEMMA SignsDrop ==
  ASSUME NEW n \in Nat, n > 0, NEW x \in Int, NEW y \in Int,
         NEW x1 \in {x, x - n}, NEW y1 \in {y, y - n}
  PROVE  (x1 * y1) % n = (x * y) % n /\ x1 * y1 \in Int
<1>. DEFINE z == x * y
<1>1. z \in Int
  OBVIOUS
<1>2. \E k \in Int : x1 * y1 = z + n * k
  <2>1. CASE x1 = x /\ y1 = y
    <3>1. x1 * y1 = z + n * 0
      BY <2>1
    <3>. QED  BY <3>1
  <2>2. CASE x1 = x /\ y1 = y - n
    <3>1. -x \in Int /\ x1 * y1 = z + n * (-x)
      BY <2>2
    <3>. QED  BY <3>1
  <2>3. CASE x1 = x - n /\ y1 = y
    <3>1. -y \in Int /\ x1 * y1 = z + n * (-y)
      BY <2>3
    <3>. QED  BY <3>1
  <2>4. CASE x1 = x - n /\ y1 = y - n
    <3>1. n - x - y \in Int /\ x1 * y1 = z + n * (n - x - y)
      BY <2>4
    <3>. QED  BY <3>1
  <2>. QED  BY <2>1, <2>2, <2>3, <2>4
<1>3. PICK k \in Int : x1 * y1 = z + n * k
  BY <1>2
<1>4. (z + n * k) % n = z % n
  <2>. HIDE DEF z
  <2>. QED  BY <1>1, AddMultiple
<1>. QED  BY <1>3, <1>4

\* What one lane of a vector multiplication gives.
LEMMA LaneProduct ==
  ASSUME NEW n \in Nat, NEW l \in Nat, NEW x \in Int, NEW y \in Int,
         2^n \in Nat, 2^n > 0, 2^(n * l) \in Nat, 2^(n * l) > 0, 2^(n * 0) = 1
  PROVE  /\ Lane(LaneSigned(x, n, l) * LaneSigned(y, n, l), n, 0)
              = (Lane(x, n, l) * Lane(y, n, l)) % 2^n
         /\ Lane(Lane(x, n, l) * Lane(y, n, l), n, 0) = (Lane(x, n, l) * Lane(y, n, l)) % 2^n
         /\ (Lane(x, n, l) * Lane(y, n, l)) % 2^n \in 0 .. 2^n - 1
<1>. DEFINE N  == 2^n
            u  == Lane(x, n, l)
            v  == Lane(y, n, l)
            u1 == LaneSigned(x, n, l)
            v1 == LaneSigned(y, n, l)
<1>1. u \in Int /\ v \in Int
  BY DEF Lane
<1>2. u1 \in {u, u - N} /\ v1 \in {v, v - N}
  BY DEF LaneSigned, Signed
<1>3. N \in Nat /\ N > 0
  OBVIOUS
<1>4. ASSUME NEW z \in Int
      PROVE  Lane(z, n, 0) = z % N
  <2>1. z \div 1 = z
    OBVIOUS
  <2>. QED  BY <2>1 DEF Lane
<1>. HIDE DEF N, u, v, u1, v1
<1>5. (u1 * v1) % N = (u * v) % N /\ u1 * v1 \in Int
  BY <1>1, <1>2, <1>3, SignsDrop
<1>6. u * v \in Int
  BY <1>1
<1>7. Lane(u1 * v1, n, 0) = (u * v) % N /\ Lane(u * v, n, 0) = (u * v) % N
  BY <1>4, <1>5, <1>6
<1>8. (u * v) % N \in 0 .. N - 1
  BY <1>3, <1>6, IntDivMod
<1>. QED  BY <1>7, <1>8 DEF N, u, v, u1, v1

\* A lane of a word, by the word's base.
LEMMA QuarterLanes ==
  ASSUME NEW x \in Int
  PROVE  /\ Lane(x, Q, 0) = x % Quarter
         /\ Lane(x, Q, 1) = (x \div Quarter) % Quarter
         /\ Lane(x, Q, 2) = (x \div (Quarter * Quarter)) % Quarter
         /\ Lane(x, Q, 3) = (x \div (Quarter * Quarter * Quarter)) % Quarter
<1>1. x \div 1 = x
  OBVIOUS
<1>. QED  BY <1>1, Quarters DEF Lane, Quarter

\* The same of halves.
LEMMA HalfLanes ==
  ASSUME NEW x \in Int
  PROVE  Lane(x, H, 0) = x % Base /\ Lane(x, H, 1) = (x \div Base) % Base
<1>1. x \div 1 = x
  OBVIOUS
<1>. QED  BY <1>1, Quarters DEF Lane, Base

\* A word is told by its lanes.
LEMMA LanesOfQuarters ==
  ASSUME NEW f, \A l \in {0, 1, 2, 3} : f[l] \in 0 .. Quarter - 1,
         NEW r, r = f[0] + 2^Q * f[1] + 2^(2 * Q) * f[2] + 2^(3 * Q) * f[3]
  PROVE  r \in Word /\ r = CHOOSE s \in Word : \A l \in Lanes(Q) : Lane(s, Q, l) = f[l]
<1>. DEFINE R == Quarter
<1>1. R \in Nat /\ R > 0 /\ Word = 0 .. R * R * R * R - 1 /\ Lanes(Q) = {0, 1, 2, 3}
  BY Quarters DEF Word
<1>2. r = f[0] + R * f[1] + (R * R) * f[2] + (R * R * R) * f[3]
  BY Quarters DEF Quarter
<1>3. f[0] \in 0 .. R - 1 /\ f[1] \in 0 .. R - 1 /\ f[2] \in 0 .. R - 1 /\ f[3] \in 0 .. R - 1
  OBVIOUS
<1>. DEFINE Has(s) == \A l \in Lanes(Q) : Lane(s, Q, l) = f[l]
<1>4. ASSUME NEW s \in Word
      PROVE  Has(s) <=> /\ s % R = f[0] /\ (s \div R) % R = f[1]
                        /\ (s \div (R * R)) % R = f[2] /\ (s \div (R * R * R)) % R = f[3]
  <2>1. s \in Int
    BY <1>1
  <2>. QED  BY <1>1, <2>1, QuarterLanes
<1>. HIDE DEF Has, R
<1>5. /\ r \in 0 .. R * R * R * R - 1
      /\ r % R = f[0] /\ (r \div R) % R = f[1]
      /\ (r \div (R * R)) % R = f[2] /\ (r \div (R * R * R)) % R = f[3]
  <2>1. R \in Nat /\ R > 0 /\ \A l \in {0, 1, 2, 3} : f[l] \in 0 .. R - 1
    BY <1>1, <1>3
  <2>. DEFINE z == f[0] + R * f[1] + (R * R) * f[2] + (R * R * R) * f[3]
  <2>2. /\ z \in 0 .. R * R * R * R - 1
        /\ z % R = f[0] /\ (z \div R) % R = f[1]
        /\ (z \div (R * R)) % R = f[2] /\ (z \div (R * R * R)) % R = f[3]
    BY <2>1, DigitsOf
  <2>. QED  BY <1>2, <2>2
<1>6. r \in Word /\ Has(r)
  BY <1>1, <1>4, <1>5
<1>7. ASSUME NEW s \in Word, Has(s)
      PROVE  s = r
  <2>1. s = (s % R) + R * ((s \div R) % R) + (R * R) * ((s \div (R * R)) % R)
               + (R * R * R) * ((s \div (R * R * R)) % R)
    BY <1>1, FourDigits
  <2>. QED  BY <1>2, <1>4, <1>7, <2>1
<1>. QED  BY <1>6, <1>7 DEF Has

\* So is one of two lanes.
LEMMA LanesOfHalves ==
  ASSUME NEW f, \A l \in {0, 1} : f[l] \in 0 .. Base - 1,
         NEW r, r = f[0] + 2^H * f[1]
  PROVE  r \in Word /\ r = CHOOSE s \in Word : \A l \in Lanes(H) : Lane(s, H, l) = f[l]
<1>. DEFINE R == Base
<1>1. R \in Nat /\ R > 0 /\ Word = 0 .. R * R - 1 /\ Lanes(H) = {0, 1}
  BY Bases, Quarters DEF Word
<1>2. r = R * f[1] + f[0] /\ f[0] \in 0 .. R - 1 /\ f[1] \in 0 .. R - 1
  <2>1. f[0] \in 0 .. Base - 1 /\ f[1] \in 0 .. Base - 1
    OBVIOUS
  <2>2. r = Base * f[1] + f[0]
    BY <2>1, Bases DEF Base
  <2>. QED  BY <2>1, <2>2
<1>. DEFINE Has(s) == \A l \in Lanes(H) : Lane(s, H, l) = f[l]
<1>4. ASSUME NEW s \in Word
      PROVE  s \in Int /\ (Has(s) <=> s % R = f[0] /\ (s \div R) % R = f[1])
  <2>1. s \in Int
    BY <1>1
  <2>. QED  BY <1>1, <2>1, HalfLanes
<1>. HIDE DEF Has, R
<1>5. r \in 0 .. R * R - 1 /\ r % R = f[0] /\ (r \div R) % R = f[1]
  <2>1. /\ R * f[1] + f[0] \in 0 .. R * R - 1
        /\ (R * f[1] + f[0]) % R = f[0] /\ ((R * f[1] + f[0]) \div R) % R = f[1]
    <3>. DEFINE u == f[1]
                v == f[0]
    <3>1. u \in 0 .. R - 1 /\ v \in 0 .. R - 1
      BY <1>2
    <3>. HIDE DEF u, v
    <3>2. /\ R * u + v \in 0 .. R * R - 1
          /\ (R * u + v) % R = v /\ ((R * u + v) \div R) % R = u
      BY <1>1, <3>1, Halves
    <3>. QED  BY <3>2 DEF u, v
  <2>. QED  BY <1>2, <2>1
<1>6. r \in Word /\ Has(r)
  BY <1>1, <1>4, <1>5
<1>7. ASSUME NEW s \in Word, Has(s)
      PROVE  s = r
  <2>. DEFINE u == s \div R
              v == s % R
  <2>1. u \in Int /\ v \in 0 .. R - 1 /\ s = R * u + v
    BY <1>1, <1>4, IntDivMod
  <2>2. s \in 0 .. R * R - 1
    BY <1>1
  <2>3. v = f[0] /\ u % R = f[1]
    BY <1>4, <1>7
  <2>. HIDE DEF u, v
  <2>4. u < 0 => R * u <= -R
    BY <1>1, <2>1
  <2>5. u >= R => R * u >= R * R
    BY <1>1, <2>1
  <2>6. u \in 0 .. R - 1
    BY <1>1, <2>1, <2>2, <2>4, <2>5
  <2>7. u % R = u
    BY <1>1, <2>6
  <2>. QED  BY <1>2, <2>1, <2>3, <2>7
<1>. QED  BY <1>6, <1>7 DEF Has

\* Vector multiplication, which is on the single-cycle multiplier.
LEMMA SingleVmul ==
  ASSUME ControlTypeOK, Single, vector
  PROVE  multdiv_result_o = Result(instr)
<1>1. ~div_sel /\ instr.op \in {"vmul_8", "vmul_16"}
  BY DEF vector, op, operator_of, div_sel
<1>2. multdiv_result_o = mult_res_vec % 2^W
  BY <1>1 DEF multdiv_result_o, mac_res_d, single_mac_res_d
<1>3. a \in Int /\ b \in Int /\ a = instr.a /\ b = instr.b
  BY Width DEF ControlTypeOK, InstrType, Word, a, b
<1>4. ASSUME NEW r \in Word
      PROVE  r % 2^W = r
  <2>1. 2^W \in Nat /\ 2^W > 0 /\ r \in 0 .. 2^W - 1
    BY Width DEF Word
  <2>. DEFINE p == 2^W
  <2>. HIDE DEF p
  <2>2. r % p = r
    BY <2>1 DEF p
  <2>. QED  BY <2>2 DEF p
<1>5. CASE instr.op = "vmul_8"
  <2>. DEFINE f == [l \in Lanes(Q) |-> (Lane(a, Q, l) * Lane(b, Q, l)) % 2^Q]
  <2>1. Quarter \in Nat /\ Quarter > 0 /\ Lanes(Q) = {0, 1, 2, 3}
    BY Quarters
  <2>2. ASSUME NEW l \in {0, 1, 2, 3}
        PROVE  /\ Lane(LaneSigned(a, Q, l) * LaneSigned(b, Q, l), Q, 0) = f[l]
               /\ f[l] \in 0 .. Quarter - 1
    <3>1. /\ Q \in Nat /\ l \in Nat /\ 2^Q \in Nat /\ 2^Q > 0
          /\ 2^(Q * l) \in Nat /\ 2^(Q * l) > 0 /\ 2^(Q * 0) = 1
      <4>1. Q \in Nat
        BY MultDivAssumption DEF Q
      <4>2. Quarter * Quarter \in Nat /\ Quarter * Quarter > 0
            /\ Quarter * Quarter * Quarter \in Nat /\ Quarter * Quarter * Quarter > 0
        BY <2>1
      <4>. QED  BY <4>1, <4>2, <2>1, Quarters DEF Quarter
    <3>2. /\ Lane(LaneSigned(a, Q, l) * LaneSigned(b, Q, l), Q, 0)
               = (Lane(a, Q, l) * Lane(b, Q, l)) % 2^Q
          /\ (Lane(a, Q, l) * Lane(b, Q, l)) % 2^Q \in 0 .. 2^Q - 1
      BY <1>3, <3>1, LaneProduct
    <3>. QED  BY <2>1, <3>2 DEF Quarter
  <2>3. mult_res_vec = f[0] + 2^Q * f[1] + 2^(2 * Q) * f[2] + 2^(3 * Q) * f[3]
    BY <1>5, <2>2 DEF mult_res_vec
  <2>4. Result(instr) = CHOOSE r \in Word : \A l \in Lanes(Q) : Lane(r, Q, l) = f[l]
    BY <1>3, <1>5 DEF Result
  <2>5. \A l \in {0, 1, 2, 3} : f[l] \in 0 .. Quarter - 1
    BY <2>2
  <2>. HIDE DEF f
  <2>6. mult_res_vec \in Word /\ mult_res_vec = Result(instr)
    BY <2>3, <2>4, <2>5, LanesOfQuarters
  <2>. QED  BY <1>2, <1>4, <2>6
<1>6. CASE instr.op = "vmul_16"
  <2>. DEFINE f == [l \in Lanes(H) |-> (Lane(a, H, l) * Lane(b, H, l)) % 2^H]
  <2>1. Base \in Nat /\ Base > 0 /\ Lanes(H) = {0, 1}
    BY Quarters, Bases
  <2>2. ASSUME NEW l \in {0, 1}
        PROVE  /\ Lane(LaneSigned(a, H, l) * LaneSigned(b, H, l), H, 0) = f[l]
               /\ Lane(Lane(a, H, l) * Lane(b, H, l), H, 0) = f[l]
               /\ f[l] \in 0 .. Base - 1
    <3>1. /\ H \in Nat /\ l \in Nat /\ 2^H \in Nat /\ 2^H > 0
          /\ 2^(H * l) \in Nat /\ 2^(H * l) > 0 /\ 2^(H * 0) = 1
      <4>1. H \in Nat
        BY MultDivAssumption
      <4>. QED  BY <4>1, <2>1, Quarters DEF Base
    <3>2. /\ Lane(LaneSigned(a, H, l) * LaneSigned(b, H, l), H, 0)
               = (Lane(a, H, l) * Lane(b, H, l)) % 2^H
          /\ Lane(Lane(a, H, l) * Lane(b, H, l), H, 0) = (Lane(a, H, l) * Lane(b, H, l)) % 2^H
          /\ (Lane(a, H, l) * Lane(b, H, l)) % 2^H \in 0 .. 2^H - 1
      <4>1. a \in Int /\ b \in Int
        BY <1>3
      <4>. QED  BY <3>1, <4>1, LaneProduct
    <3>. QED  BY <2>1, <3>2 DEF Base
  <2>3. mult_res_vec = f[0] + 2^H * f[1]
    BY <1>6, <2>2 DEF mult_res_vec
  <2>4. Result(instr) = CHOOSE r \in Word : \A l \in Lanes(H) : Lane(r, H, l) = f[l]
    BY <1>3, <1>6 DEF Result
  <2>5. \A l \in {0, 1} : f[l] \in 0 .. Base - 1
    BY <2>2
  <2>. HIDE DEF f
  <2>6. mult_res_vec \in Word /\ mult_res_vec = Result(instr)
    BY <2>3, <2>4, <2>5, LanesOfHalves
  <2>. QED  BY <1>2, <1>4, <2>6
<1>. QED  BY <1>1, <1>5, <1>6

-----------------------------------------------------------------------------
(* Division.                                                               *)

\* The powers of two a counter of bits reaches.
LEMMA Powers == ASSUME NEW k \in 0 .. 31 PROVE 2^k \in Nat /\ 2^k > 0 /\ 2^(k + 1) = 2 * 2^k
<1>. DEFINE P(n) == 2^n
<1>1. /\ P(0) = 1 /\ P(1) = 2 /\ P(2) = 4 /\ P(3) = 8
      /\ P(4) = 16 /\ P(5) = 32 /\ P(6) = 64 /\ P(7) = 128
      /\ P(8) = 256 /\ P(9) = 512 /\ P(10) = 1024 /\ P(11) = 2048
      /\ P(12) = 4096 /\ P(13) = 8192 /\ P(14) = 16384 /\ P(15) = 32768
      /\ P(16) = 65536 /\ P(17) = 131072 /\ P(18) = 262144 /\ P(19) = 524288
      /\ P(20) = 1048576 /\ P(21) = 2097152 /\ P(22) = 4194304 /\ P(23) = 8388608
      /\ P(24) = 16777216 /\ P(25) = 33554432 /\ P(26) = 67108864 /\ P(27) = 134217728
      /\ P(28) = 268435456 /\ P(29) = 536870912 /\ P(30) = 1073741824 /\ P(31) = 2147483648
      /\ P(32) = 4294967296
  OBVIOUS
<1>. HIDE DEF P
<1>2. \/ k = 0 \/ k = 1 \/ k = 2 \/ k = 3 \/ k = 4 \/ k = 5 \/ k = 6 \/ k = 7 \/ k = 8
      \/ k = 9 \/ k = 10 \/ k = 11 \/ k = 12 \/ k = 13 \/ k = 14 \/ k = 15 \/ k = 16 \/ k = 17
      \/ k = 18 \/ k = 19 \/ k = 20 \/ k = 21 \/ k = 22 \/ k = 23 \/ k = 24 \/ k = 25 \/ k = 26
      \/ k = 27 \/ k = 28 \/ k = 29 \/ k = 30 \/ k = 31
  OBVIOUS
<1>3. P(k) \in Nat /\ P(k) > 0 /\ P(k + 1) = 2 * P(k)
  BY <1>1, <1>2
<1>. QED BY <1>3 DEF P

\* A word's top bit.
LEMMA TopBit ==
  /\ 2^(W - 1) \in Nat /\ 2^(W - 1) > 0 /\ 2^W = 2 * 2^(W - 1) /\ 2^W \in Nat
  /\ 2^(W + 2) = 4 * 2^W
  /\ \A x \in Word : Msb(x) <=> x >= 2^(W - 1)
<1>. DEFINE p == 2^(W - 1)
<1>1. p \in Nat /\ p > 0 /\ 2^W = 2 * p /\ 2^(W + 2) = 4 * 2^W
  BY Bases
<1>. HIDE DEF p
<1>2. ASSUME NEW x \in 0 .. 2 * p - 1
      PROVE  (x \div p) % 2 = 1 <=> x >= p
  <2>1. CASE x >= p
    <3>1. x \in Int /\ x = p * 1 + (x - p) /\ x - p \in 0 .. p - 1
      BY <1>1, <2>1
    <3>2. x \div p = 1
      BY <1>1, <3>1, DivUnique
    <3>. QED  BY <2>1, <3>2
  <2>2. CASE ~(x >= p)
    <3>1. x \in Int /\ x = p * 0 + x /\ x \in 0 .. p - 1
      BY <1>1, <2>2
    <3>2. x \div p = 0
      BY <1>1, <3>1, DivUnique
    <3>. QED  BY <2>2, <3>2
  <2>. QED  BY <2>1, <2>2
<1>3. \A x \in Word : Msb(x) <=> x >= p
  BY <1>1, <1>2 DEF Word, Msb, BitOf, p
<1>. QED  BY <1>1, <1>3 DEF p

\* The adder subtracts, and tells which operand is greater from the top bits.
LEMMA Subtract ==
  ASSUME NEW x \in Word, NEW y \in Word
  PROVE  /\ Minus(x, y) = IF x >= y THEN x - y ELSE x - y + 2^W
         /\ (IF Msb(x) = Msb(y) THEN ~Msb(Minus(x, y)) ELSE Msb(x)) <=> x >= y
<1>. DEFINE p == 2^(W - 1)
            n == 2^W
            z == x - y
<1>1. p \in Nat /\ p > 0 /\ n = 2 * p /\ x \in 0 .. n - 1 /\ y \in 0 .. n - 1
  BY TopBit DEF Word
<1>2. Word = 0 .. n - 1 /\ \A v \in Word : Msb(v) <=> v >= p
  BY TopBit DEF Word
<1>3. Minus(x, y) = z % n
  BY DEF Minus
<1>. HIDE DEF p, n
<1>4. z \in Int /\ n \in Nat /\ n > 0
  BY <1>1
<1>5. z % n = IF x >= y THEN z ELSE z + n
  <2>1. CASE x >= y
    <3>1. z = n * 0 + z /\ z \in 0 .. n - 1
      BY <1>1, <2>1
    <3>. HIDE DEF z
    <3>2. z % n = z
      BY <1>4, <3>1, DivUnique
    <3>. QED  BY <2>1, <3>2
  <2>2. CASE ~(x >= y)
    <3>. DEFINE w == z + n
    <3>1. z = n * (-1) + w /\ w \in 0 .. n - 1
      BY <1>1, <2>2
    <3>. HIDE DEF z, w
    <3>2. z % n = w
      BY <1>4, <3>1, DivUnique
    <3>. QED  BY <2>2, <3>2 DEF w
  <2>. QED  BY <2>1, <2>2
<1>6. Minus(x, y) = IF x >= y THEN x - y ELSE x - y + n
  BY <1>3, <1>5
<1>7. Minus(x, y) \in Word
  BY <1>1, <1>2, <1>6
<1>8. /\ Msb(x) <=> x >= p
      /\ Msb(y) <=> y >= p
      /\ Msb(Minus(x, y)) <=> Minus(x, y) >= p
  BY <1>2, <1>7
<1>9. Msb(x) \in BOOLEAN /\ Msb(y) \in BOOLEAN
  BY DEF Msb, BitOf
<1>10. (IF Msb(x) = Msb(y) THEN ~Msb(Minus(x, y)) ELSE Msb(x)) <=> x >= y
  <2>1. CASE Msb(x) = Msb(y)
    <3>1. x >= p <=> y >= p
      BY <1>8, <2>1
    <3>. QED  BY <1>1, <1>6, <1>8, <2>1, <3>1
  <2>2. CASE Msb(x) # Msb(y)
    <3>1. Msb(x) <=> ~Msb(y)
      BY <1>9, <2>2
    <3>2. x >= p <=> ~(y >= p)
      BY <1>8, <3>1
    <3>. QED  BY <1>1, <1>8, <2>2, <3>2
  <2>. QED  BY <2>1, <2>2
<1>. QED  BY <1>6, <1>10 DEF n

\* A word's absolute value, as the divider takes it.
LEMMA Absolute ==
  ASSUME NEW x \in Word, NEW sg \in BOOLEAN
  PROVE  /\ Value(x, sg) \in Int /\ Abs(Value(x, sg)) \in Word
         /\ sg /\ Msb(x) <=> Value(x, sg) < 0
         /\ (IF sg /\ Msb(x) THEN Minus(0, x) ELSE x) = Abs(Value(x, sg))
         /\ x = 0 <=> Abs(Value(x, sg)) = 0
<1>. DEFINE p == 2^(W - 1)
            n == 2^W
            v == Value(x, sg)
<1>1. p \in Nat /\ p > 0 /\ n = 2 * p /\ x \in 0 .. n - 1 /\ Word = 0 .. n - 1
  BY TopBit DEF Word
<1>2. Msb(x) <=> x >= p
  BY TopBit
<1>3. v = IF sg /\ x >= p THEN x - n ELSE x
  BY DEF Value
<1>4. Minus(0, x) = IF 0 >= x THEN 0 - x ELSE 0 - x + n
  <2>1. 0 \in Word
    BY <1>1
  <2>. QED  BY <2>1, Subtract
<1>. HIDE DEF p, n, v
<1>5. Abs(v) = IF v < 0 THEN -v ELSE v
  BY DEF Abs
<1>6. CASE sg /\ x >= p
  BY <1>1, <1>2, <1>3, <1>4, <1>5, <1>6 DEF v
<1>7. CASE ~(sg /\ x >= p)
  BY <1>1, <1>2, <1>3, <1>4, <1>5, <1>7 DEF v
<1>. QED  BY <1>6, <1>7

\* One more bit of the dividend.
LEMMA NextBit ==
  ASSUME NEW x \in Nat, NEW p \in Nat, p > 0
  PROVE  /\ x \div p = 2 * (x \div (2 * p)) + ((x \div p) % 2)
         /\ x \div p \in Nat /\ x \div (2 * p) \in Nat /\ x \div p <= x
         /\ (x \div p) % 2 \in {0, 1}
<1>. DEFINE y == x \div p
            r == x % p
<1>1. x \div (p * 2) = y \div 2
  <2>1. 2 \in Nat /\ 2 > 0 /\ x \in Int
    OBVIOUS
  <2>. QED  BY <2>1, DivDiv
<1>2. p * 2 = 2 * p
  OBVIOUS
<1>3. y \in Int /\ r \in 0 .. p - 1 /\ x = p * y + r
  BY IntDivMod
<1>. HIDE DEF y, r
<1>4. y < 0 => p * y <= -p
  BY <1>3
<1>5. y >= 0
  BY <1>3, <1>4
<1>6. p * y >= y
  BY <1>3, <1>5
<1>7. y \in Nat /\ y <= x
  BY <1>3, <1>5, <1>6
<1>8. y = 2 * (y \div 2) + (y % 2) /\ y \div 2 \in Nat /\ y % 2 \in {0, 1}
  BY <1>7
<1>. QED  BY <1>1, <1>2, <1>7, <1>8 DEF y

\* A bit of the quotient that is still to come is clear.
LEMMA ClearBit ==
  ASSUME NEW p \in Nat, p > 0, NEW m \in Nat
  PROVE  ((2 * p * m) \div p) % 2 = 0
<1>. DEFINE k == 2 * m
<1>1. k \in Int /\ 2 * p * m = p * k + 0 /\ 0 \in 0 .. p - 1 /\ k % 2 = 0
  OBVIOUS
<1>. HIDE DEF k
<1>2. (p * k + 0) \div p = k
  BY <1>1, DivUnique
<1>. QED  BY <1>1, <1>2

\* The absolute values that are divided.
Dividend == Abs(Value(a, signed_a(instr.op)))
Divisor  == Abs(Value(b, signed_b(instr.op)))

\* Long division with the bits of the dividend from c on taken: what is left
\* over is r, and the quotient has the bits above c.
Long(r, q, c) ==
  \E m \in Word : /\ Dividend \div 2^c = (2 * Divisor) * m + r
                  /\ q = 2 * 2^c * m

\* What the divider keeps from one cycle to the next.
DivData ==
  /\ md_state_q # "MD_IDLE" /\ b # 0 /\ op = "DIV" => ~div_by_zero_q
  /\ md_state_q \in {"MD_ABS_B", "MD_COMP", "MD_LAST"} => op_numerator_q = Dividend
  /\ md_state_q = "MD_ABS_B" => op_quotient_q = 0
  /\ md_state_q \in {"MD_COMP", "MD_LAST"} =>
       /\ imd_val_q[1] = Divisor
       /\ imd_val_q[0] \in 0 .. 2 * Divisor - 1
       /\ Long(imd_val_q[0], op_quotient_q, div_counter_q)
  /\ md_state_q = "MD_LAST" => div_counter_q = 0
  /\ md_state_q = "MD_CHANGE_SIGN" =>
       imd_val_q[0] = IF op = "DIV" THEN Dividend \div Divisor ELSE Dividend % Divisor
  /\ md_state_q = "MD_FINISH" => imd_val_q[0] % 2^W = Result(instr)

\* The operands of a division.
LEMMA DivOperands ==
  ASSUME ControlTypeOK
  PROVE  /\ a \in Word /\ b \in Word /\ Dividend \in Word /\ Divisor \in Word
         /\ Word = 0 .. 2^W - 1 /\ 2^W \in Nat /\ 2^W > 0
         /\ Value(a, signed_a(instr.op)) \in Int /\ Value(b, signed_b(instr.op)) \in Int
         /\ sign_a <=> Value(a, signed_a(instr.op)) < 0
         /\ sign_b <=> Value(b, signed_b(instr.op)) < 0
         /\ (IF sign_a THEN Minus(0, a) ELSE a) = Dividend
         /\ (IF sign_b THEN Minus(0, b) ELSE b) = Divisor
         /\ b = 0 <=> Divisor = 0
<1>1. a \in Word /\ b \in Word /\ Word = 0 .. 2^W - 1
  BY DEF ControlTypeOK, InstrType, Word, a, b
<1>2. signed_a(instr.op) \in BOOLEAN /\ signed_b(instr.op) \in BOOLEAN
  BY DEF signed_a, signed_b
<1>3. /\ Value(a, signed_a(instr.op)) \in Int /\ Abs(Value(a, signed_a(instr.op))) \in Word
      /\ signed_a(instr.op) /\ Msb(a) <=> Value(a, signed_a(instr.op)) < 0
      /\ (IF signed_a(instr.op) /\ Msb(a) THEN Minus(0, a) ELSE a)
           = Abs(Value(a, signed_a(instr.op)))
  BY <1>1, <1>2, Absolute
<1>4. /\ Value(b, signed_b(instr.op)) \in Int /\ Abs(Value(b, signed_b(instr.op))) \in Word
      /\ signed_b(instr.op) /\ Msb(b) <=> Value(b, signed_b(instr.op)) < 0
      /\ (IF signed_b(instr.op) /\ Msb(b) THEN Minus(0, b) ELSE b)
           = Abs(Value(b, signed_b(instr.op)))
      /\ b = 0 <=> Abs(Value(b, signed_b(instr.op))) = 0
  BY <1>1, <1>2, Absolute
<1>5. (sign_a <=> signed_a(instr.op) /\ Msb(a)) /\ (sign_b <=> signed_b(instr.op) /\ Msb(b))
  BY DEF sign_a, sign_b
<1>6. 2^W \in Nat /\ 2^W > 0
  BY Width
<1>. QED  BY <1>1, <1>3, <1>4, <1>5, <1>6 DEF Dividend, Divisor

\* One step of long division on numbers.
LEMMA LongStep ==
  ASSUME NEW d \in Nat, d > 0, NEW m \in Nat, NEW r \in 0 .. 2 * d - 1,
         NEW m1, m1 = IF r >= d THEN 2 * m + 1 ELSE 2 * m,
         NEW r1, r1 = IF r >= d THEN r - d ELSE r
  PROVE  /\ m1 \in Nat /\ r1 \in 0 .. d - 1
         /\ (2 * d) * m + r = d * m1 + r1
<1>1. CASE r >= d
  BY <1>1
<1>2. CASE ~(r >= d)
  BY <1>2
<1>. QED  BY <1>1, <1>2

\* The quotient's next bit.
LEMMA Subtraction ==
  ASSUME ControlTypeOK, DivData, b # 0, div_counter_q \in 0 .. W - 1,
         md_state_q \in {"MD_COMP", "MD_LAST"}
  PROVE  \E m1 \in Nat : /\ next_quotient = 2^div_counter_q * m1
                         /\ next_remainder \in 0 .. Divisor - 1
                         /\ Dividend \div 2^div_counter_q = Divisor * m1 + next_remainder
<1>. DEFINE c == div_counter_q
            p == 2^c
            d == Divisor
            r == imd_val_q[0]
            n == 2^W
            N == Dividend \div p
<1>1. /\ d \in Word /\ d # 0 /\ Dividend \in Word /\ Word = 0 .. n - 1 /\ n \in Nat
  BY DivOperands
<1>2. c \in 0 .. 31 /\ p \in Nat /\ p > 0
  <2>1. c \in 0 .. 31
    BY Width
  <2>. QED  BY <2>1, Powers
<1>3. imd_val_q[1] = d /\ r \in 0 .. 2 * d - 1
  BY DEF DivData
<1>4. PICK m \in Word : N = (2 * d) * m + r /\ op_quotient_q = 2 * p * m
  BY DEF DivData, Long
<1>5. N \in Nat /\ N <= Dividend
  <2>1. Dividend \in Nat
    BY <1>1
  <2>. QED  BY <1>2, <2>1, NextBit
<1>6. r \in Word /\ m \in Nat /\ d \in Nat /\ d > 0
  <2>1. m \in Nat /\ d \in Nat /\ d > 0
    BY <1>1
  <2>. DEFINE k == (2 * d) * m
  <2>2. k \in Nat
    BY <2>1
  <2>3. N = k + r
    BY <1>4
  <2>. HIDE DEF k, N, d, r
  <2>. QED  BY <1>1, <1>3, <1>5, <2>1, <2>2, <2>3
<1>7. remainder_q = r /\ op_denominator_q = d
  <2>1. r \in 0 .. n - 1 /\ d \in 0 .. n - 1
    BY <1>1, <1>6
  <2>2. imd_val_q[0] = r /\ imd_val_q[1] = d
    BY <1>3
  <2>. HIDE DEF r, d, n
  <2>3. r % n = r /\ d % n = d
    BY <1>1, <2>1
  <2>. QED  BY <2>2, <2>3 DEF remainder_q, op_denominator_q, n
<1>8. /\ res_adder_h = IF r >= d THEN r - d ELSE r - d + n
      /\ is_greater_equal <=> r >= d
  <2>1. r \in Word /\ d \in Word
    BY <1>1, <1>6
  <2>. HIDE DEF r, d
  <2>. QED  BY <1>7, <2>1, Subtract DEF res_adder_h, is_greater_equal
<1>9. ~BitOf(op_quotient_q, c)
  <2>1. ((2 * p * m) \div p) % 2 = 0
    <3>. HIDE DEF p
    <3>. QED  BY <1>2, <1>6, ClearBit
  <2>2. BitOf(op_quotient_q, c) <=> (op_quotient_q \div p) % 2 = 1
    BY DEF BitOf
  <2>. QED  BY <1>4, <2>1, <2>2
<1>10. /\ next_remainder = IF r >= d THEN r - d ELSE r
       /\ next_quotient = 2 * p * m + (IF r >= d THEN p ELSE 0)
  <2>1. remainder_q = r /\ c = div_counter_q /\ op_quotient_q = 2 * p * m /\ p = 2^c
    BY <1>4, <1>7
  <2>. HIDE DEF r, d, p, c, N
  <2>. QED  BY <1>8, <1>9, <2>1 DEF next_remainder, next_quotient
<1>. DEFINE m1 == IF r >= d THEN 2 * m + 1 ELSE 2 * m
<1>11. /\ m1 \in Nat /\ next_remainder \in 0 .. d - 1
       /\ (2 * d) * m + r = d * m1 + next_remainder
  <2>. HIDE DEF r, d
  <2>. QED  BY <1>3, <1>6, <1>10, LongStep
<1>12. next_quotient = p * m1
  <2>. HIDE DEF r, d, p
  <2>1. CASE r >= d
    BY <1>2, <1>6, <1>10, <2>1
  <2>2. CASE ~(r >= d)
    BY <1>2, <1>6, <1>10, <2>2
  <2>. QED  BY <2>1, <2>2
<1>13. N = d * m1 + next_remainder
  BY <1>4, <1>11
<1>. HIDE DEF m1
<1>. QED  BY <1>11, <1>12, <1>13

\* The signs, from the quotient and the remainder of the absolute values.
LEMMA SignedDivision ==
  ASSUME NEW x \in Int, NEW y \in Int, y # 0, NEW n \in Nat, n > 0
  PROVE  LET q == Abs(x) \div Abs(y)
             r == Abs(x) % Abs(y)
         IN /\ q \in Nat /\ r \in Nat /\ r <= Abs(x)
            /\ q <= Abs(x)
            /\ Quotient(x, y) = IF (x < 0) # (y < 0) THEN -q ELSE q
            /\ x - y * Quotient(x, y) = IF x < 0 THEN -r ELSE r
<1>. DEFINE u == Abs(x)
            v == Abs(y)
            q == u \div v
            r == u % v
<1>1. /\ u \in Nat /\ v \in Nat /\ v > 0
      /\ x = IF x < 0 THEN -u ELSE u
      /\ y = IF y < 0 THEN -v ELSE v
  BY DEF Abs
<1>2. Quotient(x, y) = IF (x < 0) # (y < 0) THEN -q ELSE q
  BY DEF Quotient
<1>. HIDE DEF u, v
<1>3. q \in Int /\ r \in 0 .. v - 1 /\ u = v * q + r
  BY <1>1, IntDivMod
<1>. HIDE DEF q, r
<1>4. q < 0 => v * q <= -v
  BY <1>1, <1>3
<1>5. q >= 0
  BY <1>1, <1>3, <1>4
<1>6. v * q >= q
  BY <1>1, <1>3, <1>5
<1>7. q \in Nat /\ r \in Nat /\ r <= u /\ q <= u
  BY <1>1, <1>3, <1>5, <1>6
<1>8. x - y * Quotient(x, y) = IF x < 0 THEN -r ELSE r
  <2>1. CASE x < 0 /\ y < 0
    <3>1. Quotient(x, y) = q /\ x = -u /\ y = -v
      BY <1>1, <1>2, <2>1
    <3>2. -u - (-v) * q = -r
      BY <1>1, <1>3
    <3>. QED  BY <2>1, <3>1, <3>2
  <2>2. CASE x < 0 /\ ~(y < 0)
    <3>1. Quotient(x, y) = -q /\ x = -u /\ y = v
      BY <1>1, <1>2, <2>2
    <3>2. -u - v * (-q) = -r
      BY <1>1, <1>3
    <3>. QED  BY <2>2, <3>1, <3>2
  <2>3. CASE ~(x < 0) /\ y < 0
    <3>1. Quotient(x, y) = -q /\ x = u /\ y = -v
      BY <1>1, <1>2, <2>3
    <3>2. u - (-v) * (-q) = r
      BY <1>1, <1>3
    <3>. QED  BY <2>3, <3>1, <3>2
  <2>4. CASE ~(x < 0) /\ ~(y < 0)
    <3>1. Quotient(x, y) = q /\ x = u /\ y = v
      BY <1>1, <1>2, <2>4
    <3>2. u - v * q = r
      BY <1>1, <1>3
    <3>. QED  BY <2>4, <3>1, <3>2
  <2>. QED  BY <2>1, <2>2, <2>3, <2>4
<1>. QED  BY <1>2, <1>7, <1>8 DEF q, r, u, v

\* What a division is to compute.
LEMMA DivResult ==
  ASSUME ControlTypeOK, div_sel
  PROVE  /\ op = "DIV" /\ b = 0 => Result(instr) = 2^W - 1
         /\ op = "REM" /\ b = 0 => Result(instr) = a
         /\ op = "DIV" /\ b # 0 =>
              LET q == Dividend \div Divisor
              IN /\ q \in Word
                 /\ Result(instr) = (IF sign_a # sign_b THEN -q ELSE q) % 2^W
         /\ op = "REM" /\ b # 0 =>
              LET r == Dividend % Divisor
              IN /\ r \in Word
                 /\ Result(instr) = (IF sign_a THEN -r ELSE r) % 2^W
<1>. DEFINE x == Value(a, signed_a(instr.op))
            y == Value(b, signed_b(instr.op))
<1>1. /\ x \in Int /\ y \in Int /\ Dividend = Abs(x) /\ Divisor = Abs(y)
      /\ (sign_a <=> x < 0) /\ (sign_b <=> y < 0)
      /\ Dividend \in Word /\ Word = 0 .. 2^W - 1 /\ 2^W \in Nat /\ 2^W > 0
      /\ b = 0 <=> Divisor = 0
  BY DivOperands DEF Dividend, Divisor
<1>2. /\ op = "DIV" => instr.op \in {"div", "divu"}
      /\ op = "REM" => instr.op \in {"rem", "remu"}
  BY DEF op, operator_of, ControlTypeOK, InstrType, Ops
<1>3. /\ op = "DIV" => Result(instr) = IF y = 0 THEN 2^W - 1 ELSE Quotient(x, y) % 2^W
      /\ op = "REM" => Result(instr) = IF y = 0 THEN a ELSE (x - y * Quotient(x, y)) % 2^W
  BY <1>2 DEF Result, a, b
<1>. HIDE DEF x, y
<1>4. y = 0 <=> b = 0
  BY <1>1 DEF Abs
<1>5. CASE b = 0
  BY <1>3, <1>4, <1>5
<1>6. CASE b # 0
  <2>. DEFINE n == 2^W
              q == Abs(x) \div Abs(y)
              r == Abs(x) % Abs(y)
  <2>1. x \in Int /\ y \in Int /\ y # 0 /\ n \in Nat /\ n > 0
    BY <1>1, <1>4, <1>6
  <2>2. /\ q \in Nat /\ r \in Nat /\ r <= Abs(x)
        /\ q <= Abs(x)
        /\ Quotient(x, y) = IF (x < 0) # (y < 0) THEN -q ELSE q
        /\ x - y * Quotient(x, y) = IF x < 0 THEN -r ELSE r
    BY <2>1, SignedDivision
  <2>3. q = Dividend \div Divisor /\ r = Dividend % Divisor
    BY <1>1
  <2>4. Abs(x) \in 0 .. n - 1
    BY <1>1
  <2>. HIDE DEF q, r, n
  <2>5. q \in 0 .. n - 1 /\ r \in 0 .. n - 1
    BY <2>1, <2>2, <2>4
  <2>6. q \in Word /\ r \in Word
    BY <1>1, <2>5 DEF n
  <2>7. op = "DIV" => Result(instr) = (IF (x < 0) # (y < 0) THEN -q ELSE q) % 2^W
    BY <1>3, <1>4, <1>6, <2>2
  <2>8. op = "REM" => Result(instr) = (IF x < 0 THEN -r ELSE r) % 2^W
    BY <1>3, <1>4, <1>6, <2>2
  <2>9. (sign_a # sign_b) <=> ((x < 0) # (y < 0))
    <3>1. sign_a \in BOOLEAN /\ sign_b \in BOOLEAN
      BY DEF sign_a, sign_b
    <3>. QED  BY <1>1, <3>1
  <2>10. (IF (x < 0) # (y < 0) THEN -q ELSE q) = (IF sign_a # sign_b THEN -q ELSE q)
    BY <2>9
  <2>11. (IF x < 0 THEN -r ELSE r) = (IF sign_a THEN -r ELSE r)
    BY <1>1
  <2>. QED  BY <1>6, <2>3, <2>6, <2>7, <2>8, <2>10, <2>11
<1>. QED  BY <1>5, <1>6

\* Nothing of a word is lost in a word.
LEMMA WordAsIs == \A x \in Word : x % 2^W = x
<1>. DEFINE n == 2^W
<1>1. n \in Nat /\ n > 0 /\ Word = 0 .. n - 1
  BY Width DEF Word
<1>. HIDE DEF n
<1>2. \A x \in 0 .. n - 1 : x % n = x
  BY <1>1
<1>. QED  BY <1>1, <1>2 DEF n

\* What is not of the FSMs stays, and the divider takes its step.
LEMMA DivClocked ==
  ASSUME IInv, Clock, valid, ~valid_o, div_sel
  PROVE  /\ a' = a /\ b' = b /\ op' = op /\ instr' = instr
         /\ Dividend' = Dividend /\ Divisor' = Divisor /\ Result(instr)' = Result(instr)
         /\ md_state_q' = md_state_d /\ div_counter_q' = div_counter_d
         /\ op_numerator_q' = IF MdIs("MD_ABS_A") THEN IF sign_a THEN Minus(0, a) ELSE a
                              ELSE op_numerator_q
         /\ op_quotient_q' = CASE MdIs("MD_ABS_A") -> 0
                               [] MdIs("MD_COMP")  -> next_quotient
                               [] OTHER            -> op_quotient_q
         /\ div_by_zero_q' = IF MdIs("MD_IDLE") /\ op = "DIV" THEN b = 0 ELSE div_by_zero_q
         /\ imd_val_q'[0] = op_remainder_d /\ imd_val_q'[1] = op_denominator_d
         /\ op \in {"DIV", "REM"} /\ ControlTypeOK
<1>1. instr' = instr /\ div_en /\ op \in {"DIV", "REM"} /\ ControlTypeOK
  BY Kinds DEF Clock, IdClock, IInv
<1>2. a' = a /\ b' = b /\ op' = op
  BY <1>1 DEF a, b, op
<1>3. Dividend' = Dividend /\ Divisor' = Divisor /\ Result(instr)' = Result(instr)
  BY <1>1, <1>2 DEF Dividend, Divisor
<1>4. imd_val_q'[0] = op_remainder_d /\ imd_val_q'[1] = op_denominator_d
  <2>1. div_en /\ ~mult_en
    BY <1>1, Kinds
  <2>2. imd_val_q' = [i \in {0, 1} |->
          CASE i = 0 /\ div_en  -> op_remainder_d
            [] i = 0 /\ mult_en -> mac_res_d
            [] i = 1 /\ div_en  -> op_denominator_d
            [] OTHER            -> imd_val_q[i]]
    BY DEF Clock, ImdClock
  <2>3. imd_val_q'[0] = CASE 0 = 0 /\ div_en  -> op_remainder_d
                          [] 0 = 0 /\ mult_en -> mac_res_d
                          [] 0 = 1 /\ div_en  -> op_denominator_d
                          [] OTHER            -> imd_val_q[0]
    BY <2>2
  <2>4. imd_val_q'[1] = CASE 1 = 0 /\ div_en  -> op_remainder_d
                          [] 1 = 0 /\ mult_en -> mac_res_d
                          [] 1 = 1 /\ div_en  -> op_denominator_d
                          [] OTHER            -> imd_val_q[1]
    BY <2>2
  <2>. QED  BY <2>1, <2>3, <2>4
<1>. QED  BY <1>1, <1>2, <1>3, <1>4 DEF Clock, DivClock

\* A division by zero has its result at once.
LEMMA DivFromIdle ==
  ASSUME IInv, Clock, valid, ~valid_o, div_sel, DivData, md_state_q = "MD_IDLE"
  PROVE  DivData'
<1>1. CASE b = 0
  <2>1. md_state_q' = "MD_FINISH" /\ imd_val_q'[0] = IF op = "DIV" THEN 2^(W + 2) - 1 ELSE a
    BY <1>1, DivClocked, DivisorZero DEF md_state_d, op_remainder_d, MdIs
  <2>2. imd_val_q'[0] % 2^W = Result(instr)
    <3>1. CASE op = "DIV"
      <4>. DEFINE n == 2^W
                  z == 4 * n - 1
      <4>1. n \in Nat /\ n > 0 /\ 2^(W + 2) = 4 * n
        BY TopBit, Width
      <4>. HIDE DEF n
      <4>2. 4 * n - 1 = n * 3 + (n - 1) /\ n - 1 \in 0 .. n - 1 /\ 3 \in Int
        BY <4>1
      <4>3. (n * 3 + (n - 1)) % n = n - 1
        BY <4>1, <4>2, DivUnique
      <4>4. (4 * n - 1) % n = n - 1
        BY <4>2, <4>3
      <4>5. Result(instr) = n - 1
        BY <1>1, <3>1, DivClocked, DivResult DEF n
      <4>. QED  BY <2>1, <3>1, <4>1, <4>4, <4>5 DEF n
    <3>2. CASE op = "REM"
      BY <1>1, <2>1, <3>2, DivClocked, DivResult, DivOperands, WordAsIs
    <3>. QED  BY <3>1, <3>2, DivClocked
  <2>. QED  BY <1>1, <2>1, <2>2, DivClocked DEF DivData
<1>2. CASE b # 0
  <2>1. md_state_q' = "MD_ABS_A" /\ (op = "DIV" => div_by_zero_q' = FALSE)
    BY <1>2, DivClocked, DivisorZero DEF md_state_d, MdIs
  <2>. QED  BY <2>1, DivClocked DEF DivData
<1>. QED  BY <1>1, <1>2

\* The absolute value of the dividend.
LEMMA DivFromAbsA ==
  ASSUME IInv, Clock, valid, ~valid_o, div_sel, DivData, md_state_q = "MD_ABS_A"
  PROVE  DivData'
<1>1. md_state_q' = "MD_ABS_B" /\ op_quotient_q' = 0
  BY DivClocked DEF md_state_d, MdIs
<1>2. op_numerator_q' = Dividend
  <2>1. op_numerator_q' = IF sign_a THEN Minus(0, a) ELSE a
    BY DivClocked DEF MdIs
  <2>. QED  BY <2>1, DivClocked, DivOperands
<1>3. op = "DIV" /\ b # 0 => ~div_by_zero_q'
  BY DivClocked DEF DivData, MdIs
<1>. QED  BY <1>1, <1>2, <1>3, DivClocked DEF DivData

\* That of the divisor, and the dividend's top bit.
LEMMA DivFromAbsB ==
  ASSUME IInv, Clock, valid, ~valid_o, div_sel, DivData, md_state_q = "MD_ABS_B", b # 0
  PROVE  DivData'
<1>. DEFINE r == Dividend \div 2^(W - 1)
<1>1. /\ md_state_q' = "MD_COMP" /\ op_quotient_q' = 0 /\ op_numerator_q' = Dividend
      /\ div_counter_q' = W - 1
  BY DivClocked DEF md_state_d, div_counter_d, DivData, MdIs
<1>2. imd_val_q'[0] = r
  <2>1. op_remainder_d = op_numerator_q \div 2^(W - 1)
    BY DEF op_remainder_d, MdIs
  <2>. QED  BY <2>1, DivClocked DEF DivData
<1>3. imd_val_q'[1] = Divisor
  BY DivClocked, DivOperands DEF op_denominator_d, MdIs
<1>4. op = "DIV" => ~div_by_zero_q'
  BY DivClocked DEF DivData, MdIs
<1>5. r \in {0, 1}
  <2>. DEFINE p == 2^(W - 1)
  <2>1. p \in Nat /\ p > 0 /\ Dividend \in 0 .. 2 * p - 1
    BY TopBit, DivClocked, DivOperands
  <2>. HIDE DEF p
  <2>2. Dividend \in Int
    BY <2>1
  <2>. DEFINE y == Dividend \div p
              s == Dividend % p
  <2>3. y \in Int /\ s \in 0 .. p - 1 /\ Dividend = p * y + s
    BY <2>1, <2>2, IntDivMod
  <2>. HIDE DEF y, s
  <2>4. (y < 0 => p * y <= -p) /\ (y >= 2 => p * y >= 2 * p)
    BY <2>1, <2>3
  <2>5. y \in {0, 1}
    BY <2>1, <2>3, <2>4
  <2>. QED  BY <2>5 DEF y, p
<1>6. Divisor \in Nat /\ Divisor > 0
  BY DivClocked, DivOperands
<1>7. r \in 0 .. 2 * Divisor - 1
  <2>. HIDE DEF r
  <2>. QED  BY <1>5, <1>6
<1>8. Long(r, 0, W - 1)
  <2>1. 0 \in Word
    BY DivClocked, DivOperands
  <2>2. r = (2 * Divisor) * 0 + r /\ 0 = 2 * 2^(W - 1) * 0
    <3>. HIDE DEF r
    <3>. QED  BY <1>5, <1>6, TopBit
  <2>. QED  BY <2>1, <2>2 DEF Long
<1>9. Long(imd_val_q[0], op_quotient_q, div_counter_q)'
  BY <1>1, <1>2, <1>8, DivClocked DEF Long
<1>. HIDE DEF r
<1>. QED  BY <1>1, <1>2, <1>3, <1>4, <1>7, <1>9, DivClocked DEF DivData

\* One bit of the quotient, and one more of the dividend.
LEMMA DivFromComp ==
  ASSUME IInv, Clock, valid, ~valid_o, div_sel, DivData, md_state_q = "MD_COMP", b # 0,
         div_counter_q \in 1 .. W - 1
  PROVE  DivData'
<1>. DEFINE c  == div_counter_q
            p  == 2^(c - 1)
            d  == Divisor
            r1 == next_remainder
            e  == (Dividend \div p) % 2
            r  == 2 * r1 + e
<1>1. c \in 0 .. W - 1 /\ c - 1 \in 0 .. 31 /\ c - 1 \in 0 .. W - 1 /\ (c - 1) + 1 = c
  BY Width
<1>2. p \in Nat /\ p > 0 /\ 2^c = 2 * p
  <2>1. 2^(c - 1) \in Nat /\ 2^(c - 1) > 0 /\ 2^((c - 1) + 1) = 2 * 2^(c - 1)
    BY <1>1, Powers
  <2>. QED  BY <1>1, <2>1
<1>3. div_counter_d = c - 1
  <2>1. (c - 1) % W = c - 1
    BY <1>1, Width
  <2>. QED  BY <2>1 DEF div_counter_d
<1>4. PICK m1 \in Nat : /\ next_quotient = 2^c * m1
                        /\ r1 \in 0 .. d - 1
                        /\ Dividend \div 2^c = d * m1 + r1
  BY <1>1, DivClocked, Subtraction
<1>5. /\ md_state_q' = (IF c = 1 THEN "MD_LAST" ELSE "MD_COMP")
      /\ div_counter_q' = c - 1 /\ op_numerator_q' = Dividend /\ op_quotient_q' = next_quotient
      /\ op = "DIV" => ~div_by_zero_q'
  <2>1. op_numerator_q = Dividend /\ (op = "DIV" => ~div_by_zero_q)
    BY DEF DivData
  <2>2. md_state_d = IF c = 1 THEN "MD_LAST" ELSE "MD_COMP"
    BY DEF md_state_d, MdIs, AfterComp
  <2>3. MdIs("MD_COMP") /\ ~MdIs("MD_ABS_A") /\ ~MdIs("MD_IDLE")
    BY DEF MdIs
  <2>4. op_quotient_q' = next_quotient
    BY <2>3, DivClocked
  <2>. QED  BY <1>3, <2>1, <2>2, <2>3, <2>4, DivClocked
<1>6. imd_val_q'[0] = r
  <2>1. op_remainder_d = 2 * next_remainder + ((op_numerator_q \div 2^div_counter_d) % 2)
    BY DEF op_remainder_d, MdIs
  <2>. QED  BY <1>3, <2>1, DivClocked DEF DivData
<1>7. imd_val_q'[1] = d
  <2>1. op_denominator_d = d % 2^W
    BY DEF op_denominator_d, op_denominator_q, MdIs, DivData
  <2>. QED  BY <2>1, DivClocked, DivOperands, WordAsIs
<1>8. d \in Nat /\ d > 0 /\ Dividend \in Nat /\ Word = 0 .. 2^W - 1 /\ Dividend < 2^W /\ 2^W \in Nat
  <2>1. ControlTypeOK
    BY DEF IInv
  <2>2. d \in Word /\ d # 0 /\ Dividend \in Word /\ Word = 0 .. 2^W - 1 /\ 2^W \in Nat
    BY <2>1, DivOperands
  <2>. HIDE DEF d
  <2>. QED  BY <2>2
<1>9. /\ Dividend \div p = 2 * (Dividend \div (2 * p)) + e /\ e \in {0, 1}
      /\ Dividend \div p \in Nat /\ Dividend \div p <= Dividend
  <2>. HIDE DEF p
  <2>. QED  BY <1>2, <1>8, NextBit
<1>10. Dividend \div p = 2 * (d * m1 + r1) + e
  BY <1>2, <1>4, <1>9
<1>. DEFINE N == Dividend \div p
            k == d * m1
<1>11. /\ N = 2 * (k + r1) + e /\ N \in Nat /\ N <= Dividend /\ e \in {0, 1}
       /\ k \in Nat /\ k >= m1 /\ r1 \in 0 .. d - 1 /\ m1 \in Nat
  <2>1. k \in Nat /\ k >= m1
    <3>. HIDE DEF d
    <3>. QED  BY <1>4, <1>8
  <2>. QED  BY <1>4, <1>9, <1>10, <2>1
<1>12. r \in 0 .. 2 * d - 1 /\ N = 2 * k + r /\ m1 \in 0 .. 2^W - 1
  <2>. HIDE DEF N, k, d, r1, e
  <2>. QED  BY <1>8, <1>11
<1>13. N = (2 * d) * m1 + r
  <2>. HIDE DEF N, d, r
  <2>. QED  BY <1>8, <1>11, <1>12
<1>14. next_quotient = 2 * p * m1
  <2>. HIDE DEF p
  <2>. QED  BY <1>2, <1>4, <1>11
<1>15. Long(r, next_quotient, c - 1)
  <2>. HIDE DEF r, c
  <2>. QED  BY <1>8, <1>12, <1>13, <1>14 DEF Long, p
<1>16. Long(imd_val_q[0], op_quotient_q, div_counter_q)'
  <2>. HIDE DEF r, c
  <2>. QED  BY <1>5, <1>6, <1>15, DivClocked DEF Long
<1>17. imd_val_q'[0] \in 0 .. 2 * Divisor' - 1 /\ imd_val_q'[1] = Divisor'
  BY <1>6, <1>7, <1>12, DivClocked
<1>. HIDE DEF r, p, N
<1>. QED  BY <1>5, <1>16, <1>17, DivClocked DEF DivData

\* The last bit: the quotient and the remainder are complete.
LEMMA DivFromLast ==
  ASSUME IInv, Clock, valid, ~valid_o, div_sel, DivData, md_state_q = "MD_LAST", b # 0
  PROVE  DivData'
<1>1. div_counter_q = 0 /\ 0 \in 0 .. W - 1 /\ 2^0 = 1
  BY Width DEF DivData
<1>2. PICK m1 \in Nat : /\ next_quotient = 2^0 * m1
                        /\ next_remainder \in 0 .. Divisor - 1
                        /\ Dividend \div 2^0 = Divisor * m1 + next_remainder
  BY <1>1, DivClocked, Subtraction
<1>3. Divisor \in Nat /\ Divisor > 0 /\ Dividend \in Nat
  BY DivClocked, DivOperands
<1>4. next_quotient = m1 /\ Dividend = Divisor * m1 + next_remainder
  <2>1. Dividend \div 1 = Dividend /\ 1 * m1 = m1
    BY <1>3
  <2>. QED  BY <1>1, <1>2, <2>1
<1>5. next_quotient = Dividend \div Divisor /\ next_remainder = Dividend % Divisor
  <2>1. m1 \in Int
    OBVIOUS
  <2>2. /\ (Divisor * m1 + next_remainder) % Divisor = next_remainder
        /\ (Divisor * m1 + next_remainder) \div Divisor = m1
    BY <1>2, <1>3, <2>1, DivUnique
  <2>. QED  BY <1>4, <2>2
<1>6. md_state_q' = "MD_CHANGE_SIGN"
      /\ imd_val_q'[0] = (IF op = "DIV" THEN next_quotient ELSE next_remainder)
  BY DivClocked DEF md_state_d, op_remainder_d, MdIs
<1>7. op = "DIV" => ~div_by_zero_q'
  BY DivClocked DEF DivData, MdIs
<1>. QED  BY <1>5, <1>6, <1>7, DivClocked DEF DivData

\* A changed sign, as a word.
LEMMA Negated ==
  ASSUME NEW x \in Word
  PROVE  Minus(0, x % 2^W) % 2^W = (-x) % 2^W /\ (x % 2^W) % 2^W = x % 2^W
<1>. DEFINE n == 2^W
<1>1. n \in Nat /\ n > 0 /\ x \in Int /\ x % n = x
  BY Width, WordAsIs DEF Word
<1>2. Minus(0, x) = (-x) % n
  BY <1>1 DEF Minus
<1>. HIDE DEF n
<1>3. (-x) % n \in 0 .. n - 1
  BY <1>1
<1>. DEFINE y == (-x) % n
<1>. HIDE DEF y
<1>4. y % n = y
  BY <1>1, <1>3 DEF y
<1>. QED  BY <1>1, <1>2, <1>4 DEF n, y

\* The sign.
LEMMA DivFromChangeSign ==
  ASSUME IInv, Clock, valid, ~valid_o, div_sel, DivData, md_state_q = "MD_CHANGE_SIGN", b # 0
  PROVE  DivData'
<1>. DEFINE q == Dividend \div Divisor
            r == Dividend % Divisor
<1>1. md_state_q' = "MD_FINISH" /\ (op = "DIV" => ~div_by_zero_q /\ ~div_by_zero_q')
  BY DivClocked DEF DivData, md_state_d, MdIs
<1>2. imd_val_q[0] = IF op = "DIV" THEN q ELSE r
  BY DEF DivData
<1>3. imd_val_q'[0] = IF (IF op = "DIV" THEN div_change_sign ELSE rem_change_sign)
                      THEN Minus(0, remainder_q) ELSE imd_val_q[0]
  BY DivClocked DEF op_remainder_d, MdIs
<1>4. imd_val_q'[0] % 2^W = Result(instr)
  <2>1. CASE op = "DIV"
    <3>1. q \in Word /\ Result(instr) = (IF sign_a # sign_b THEN -q ELSE q) % 2^W
      BY <2>1, DivClocked, DivResult
    <3>. HIDE DEF q
    <3>2. Minus(0, q % 2^W) % 2^W = (-q) % 2^W
      BY <3>1, Negated
    <3>3. imd_val_q'[0] = IF sign_a # sign_b THEN Minus(0, q % 2^W) ELSE q
      BY <1>1, <1>2, <1>3, <2>1 DEF div_change_sign, remainder_q
    <3>4. CASE sign_a # sign_b
      BY <3>1, <3>2, <3>3, <3>4
    <3>5. CASE ~(sign_a # sign_b)
      BY <3>1, <3>3, <3>5
    <3>. QED  BY <3>4, <3>5
  <2>2. CASE op = "REM"
    <3>1. r \in Word /\ Result(instr) = (IF sign_a THEN -r ELSE r) % 2^W
      BY <2>2, DivClocked, DivResult
    <3>. HIDE DEF r
    <3>2. Minus(0, r % 2^W) % 2^W = (-r) % 2^W
      BY <3>1, Negated
    <3>3. imd_val_q'[0] = IF sign_a THEN Minus(0, r % 2^W) ELSE r
      BY <1>2, <1>3, <2>2 DEF rem_change_sign, remainder_q
    <3>4. CASE sign_a
      BY <3>1, <3>2, <3>3, <3>4
    <3>5. CASE ~sign_a
      BY <3>1, <3>3, <3>5
    <3>. QED  BY <3>4, <3>5
  <2>. QED  BY <2>1, <2>2, DivClocked
<1>. QED  BY <1>1, <1>4, DivClocked DEF DivData

\* The divider's registers, from cycle to cycle.
LEMMA DivStep ==
  ASSUME IInv, Clock, valid, ~valid_o, div_sel, DivData
  PROVE  DivData'
<1>1. DivPhase /\ md_state_q # "MD_FINISH"
  BY DEF IInv, PhaseInv, valid_o, MdIs
<1>2. \/ md_state_q \in {"MD_IDLE"}
      \/ b # 0 /\ md_state_q \in {"MD_ABS_A", "MD_ABS_B", "MD_LAST", "MD_CHANGE_SIGN"}
      \/ b # 0 /\ md_state_q = "MD_COMP" /\ div_counter_q \in 1 .. W - 1
  BY <1>1 DEF DivPhase
<1>. QED  BY <1>2, DivFromIdle, DivFromAbsA, DivFromAbsB, DivFromComp, DivFromLast,
             DivFromChangeSign

-----------------------------------------------------------------------------
(* The registers' contents are invariant too.                              *)

Built == <<RV32M, instr.op>> \in Builds

DataInv ==
  /\ Built
  /\ valid /\ div_sel => DivData
  /\ valid /\ ~div_sel /\ ~Single => FastData

\* An instruction is one the multiplier is given.
LEMMA BuiltStep ==
  ASSUME IInv, Built, Clock
  PROVE  Built'
<1>1. RV32M' = RV32M
  BY DEF Clock
<1>2. CASE instr' = instr
  BY <1>1, <1>2 DEF Built
<1>3. CASE instr' \in Following(instr)
  <2>1. PICK p \in Builds : p[1] = RV32M /\ instr'.op = p[2]
    BY <1>3 DEF Following, Instrs, InstrsWith
  <2>2. p = <<p[1], p[2]>>
    BY MultDivAssumption
  <2>. QED  BY <1>1, <2>1, <2>2 DEF Built
<1>. QED  BY <1>2, <1>3 DEF Clock, IdClock

\* The partial sums of the fast multiplier, from cycle to cycle.
LEMMA FastStep ==
  ASSUME IInv, Clock, valid, ~valid_o, ~div_sel, ~Single, FastData
  PROVE  FastData'
<1>1. instr' = instr /\ mult_en /\ ~div_en /\ op \in {"MULL", "MULH"} /\ ControlTypeOK /\ RV32M' = RV32M
  BY Kinds DEF Clock, IdClock, IInv
<1>2. mult_state_q \in {"ALBL", "ALBH", "AHBL", "AHBH"}
  BY DEF IInv, PhaseInv, MultPhase
<1>3. /\ LL' = LL /\ Mid' = Mid /\ Carry' = Carry /\ Lo(a)' = Lo(a) /\ BHigh' = BHigh /\ op' = op
  BY <1>1 DEF LL, Mid, Carry, AHigh, BHigh, op, a, b, sign_a, sign_b
<1>4. imd_val_q'[0] = mac_res_d
  <2>1. imd_val_q' = [i \in {0, 1} |->
          CASE i = 0 /\ div_en  -> op_remainder_d
            [] i = 0 /\ mult_en -> mac_res_d
            [] i = 1 /\ div_en  -> op_denominator_d
            [] OTHER            -> imd_val_q[i]]
    BY DEF Clock, ImdClock
  <2>2. imd_val_q'[0] = CASE 0 = 0 /\ div_en  -> op_remainder_d
                          [] 0 = 0 /\ mult_en -> mac_res_d
                          [] 0 = 1 /\ div_en  -> op_denominator_d
                          [] OTHER            -> imd_val_q[0]
    BY <2>1
  <2>. QED  BY <1>1, <2>2
<1>5. mult_state_q' = fast_state_d /\ ~fast_valid
  BY <1>1 DEF Clock, MultClock, mult_state_d, valid_o, mult_valid
<1>6. CASE mult_state_q = "ALBL"
  <2>1. mult_state_q' = "ALBH"
    BY <1>5, <1>6 DEF fast_state_d
  <2>. QED  BY <1>1, <1>3, <1>4, <1>6, <2>1, FastFirst DEF FastData
<1>7. CASE mult_state_q = "ALBH"
  <2>1. mult_state_q' = "AHBL"
    BY <1>5, <1>7 DEF fast_state_d
  <2>. QED  BY <1>1, <1>3, <1>4, <1>7, <2>1, FastSecond DEF FastData
<1>8. CASE mult_state_q = "AHBL"
  <2>1. op = "MULH"
    BY <1>1, <1>5, <1>8 DEF fast_valid
  <2>2. mult_state_q' = "AHBH"
    BY <1>5, <1>8, <2>1 DEF fast_state_d
  <2>. QED  BY <1>1, <1>3, <1>4, <1>8, <2>1, <2>2, FastThird DEF FastData
<1>9. CASE mult_state_q = "AHBH"
  <2>1. mult_state_q' = "ALBL"
    BY <1>5, <1>9 DEF fast_state_d
  <2>. QED  BY <2>1 DEF FastData
<1>. QED  BY <1>2, <1>6, <1>7, <1>8, <1>9

\* A step keeps the data, and an instruction that begins needs none.
LEMMA DataStep ==
  ASSUME IInv, DataInv, Clock, IInv'
  PROVE  DataInv'
<1>1. Built'
  BY BuiltStep DEF DataInv
<1>2. RV32M' = RV32M /\ (Single' <=> Single)
  BY DEF Clock, Single
<1>3. CASE valid /\ ~valid_o
  <2>1. instr' = instr /\ valid' = valid /\ (div_sel' <=> div_sel)
    BY <1>3 DEF Clock, IdClock, div_sel, op
  <2>2. CASE div_sel
    BY <1>1, <1>3, <2>1, <2>2, DivStep DEF DataInv
  <2>3. CASE ~div_sel
    BY <1>1, <1>2, <1>3, <2>1, <2>3, FastStep DEF DataInv
  <2>. QED  BY <2>2, <2>3
<1>4. CASE ~(valid /\ ~valid_o)
  <2>1. cycle' = 1
    BY <1>4 DEF Clock, IdClock
  <2>2. valid' /\ div_sel' => md_state_q' = "MD_IDLE"
    BY <2>1, Width DEF IInv, PhaseInv, DivPhase
  <2>3. valid' /\ ~div_sel' /\ ~Single' => mult_state_q' = "ALBL"
    BY <2>1 DEF IInv, PhaseInv, MultPhase
  <2>4. md_state_q' = "MD_IDLE" => DivData'
    BY DEF DivData
  <2>5. mult_state_q' = "ALBL" => FastData'
    BY DEF FastData
  <2>. QED  BY <1>1, <2>2, <2>3, <2>4, <2>5 DEF DataInv
<1>. QED  BY <1>3, <1>4

\* MULH on the single-cycle multiplier is left out: its result is wrong.
MulhOnFast == \A p \in Builds : p[2] \in {"mulh", "mulhsu", "mulhu"} => p[1] = "Fast"

\* In its last cycle an instruction has its result.
LEMMA ResultFromData ==
  ASSUME MulhOnFast, IInv, DataInv
  PROVE  ResultCorrect
<1>. SUFFICES ASSUME valid, valid_o
              PROVE  multdiv_result_o = Result(instr)
  BY DEF ResultCorrect
<1>1. ControlTypeOK /\ valid_o /\ cycle = Cycles(instr)
  BY EndsInTime DEF IInv
<1>2. CASE div_sel
  <2>1. DivPhase /\ DivData /\ (Cycles(instr) = IF b = 0 THEN 2 ELSE W + 5)
    BY <1>1, <1>2, Kinds DEF DataInv, IInv, PhaseInv
  <2>2. md_state_q = "MD_FINISH"
    BY <1>1, <2>1, Width DEF DivPhase
  <2>. QED  BY <1>2, <2>1, <2>2 DEF DivData, multdiv_result_o, remainder_q
<1>3. CASE ~div_sel
  <2>1. MultPhase /\ op \in {"MULL", "MULH"} /\ mult_en
    BY <1>1, <1>3, Kinds DEF IInv, PhaseInv
  <2>2. /\ op = "MULL" => instr.op = "mul" \/ vector
        /\ op = "MULH" => instr.op \in {"mulh", "mulhsu", "mulhu"}
    BY <1>1 DEF op, operator_of, vector, ControlTypeOK, InstrType, Ops
  <2>3. /\ vector => Single
        /\ op = "MULH" => ~Single
    <3>1. <<RV32M, instr.op>> \in Builds
      BY DEF DataInv, Built
    <3>2. /\ <<RV32M, instr.op>>[1] = RV32M
          /\ <<RV32M, instr.op>>[2] = instr.op
      OBVIOUS
    <3>. QED  BY <2>2, <3>1, <3>2, MultDivAssumption DEF MulhOnFast, vector, Single
  <2>4. CASE Single
    <3>1. op = "MULL" /\ mult_state_q = "MULL"
      BY <1>1, <2>1, <2>3, <2>4, Kinds DEF MultPhase
    <3>. QED  BY <1>1, <2>2, <2>4, <3>1, SingleMul, SingleVmul
  <2>5. CASE ~Single
    <3>1. mult_state_q = IF op = "MULL" THEN "AHBL" ELSE "AHBH"
      BY <1>1, <2>1, <2>5, Kinds DEF MultPhase
    <3>2. FastData
      BY <1>1, <1>3, <2>5 DEF DataInv
    <3>. QED  BY <1>1, <2>1, <2>2, <2>3, <2>5, <3>1, <3>2, FastMul, FastMulh
  <2>. QED  BY <2>4, <2>5
<1>. QED  BY <1>2, <1>3

\* At reset nothing is computed.
LEMMA DataInit == Init => DataInv
<1>. SUFFICES ASSUME Init PROVE DataInv
  OBVIOUS
<1>1. PICK p \in Builds : p[1] = RV32M /\ instr.op = p[2]
  BY DEF Init, InstrsWith
<1>2. p = <<p[1], p[2]>>
  BY MultDivAssumption
<1>. QED  BY <1>1, <1>2 DEF Init, DataInv, Built

\* The data invariant is inductive, with the phases.
LEMMA DataInvStep == IInv /\ DataInv /\ [Clock]_vars => DataInv'
<1>. SUFFICES ASSUME IInv, DataInv, [Clock]_vars PROVE DataInv'
  OBVIOUS
<1>1. CASE Clock
  BY <1>1, StepInv, DataStep
<1>2. CASE UNCHANGED vars
  <2>1. /\ RV32M' = RV32M /\ valid' = valid /\ instr' = instr /\ imd_val_q' = imd_val_q
        /\ mult_state_q' = mult_state_q /\ md_state_q' = md_state_q
        /\ div_counter_q' = div_counter_q /\ op_numerator_q' = op_numerator_q
        /\ op_quotient_q' = op_quotient_q /\ div_by_zero_q' = div_by_zero_q
    BY <1>2 DEF vars, mdVars
  <2>2. /\ a' = a /\ b' = b /\ op' = op /\ (div_sel' <=> div_sel) /\ (Single' <=> Single)
        /\ Result(instr)' = Result(instr)
    BY <2>1 DEF a, b, op, div_sel, Single
  <2>3. Dividend' = Dividend /\ Divisor' = Divisor
    BY <2>1, <2>2 DEF Dividend, Divisor
  <2>4. DivData' = DivData
    BY <2>1, <2>2, <2>3 DEF DivData, Long
  <2>5. FastData' = FastData
    BY <2>1, <2>2 DEF FastData, LL, Mid, Carry, AHigh, BHigh, sign_a, sign_b, LL
  <2>. QED  BY <2>1, <2>2, <2>4, <2>5 DEF DataInv, Built
<1>. QED  BY <1>1, <1>2

\* Every instruction is given its result, whatever the instructions before it
\* left in the registers it shares with them: products of signed and unsigned
\* halves and of lanes, and quotients and remainders by long division, for
\* every width, any operands and either multiplier.
THEOREM ResultsCorrect == ASSUME MulhOnFast PROVE Spec => []ResultCorrect
<1>1. IInv /\ DataInv => ResultCorrect
  BY ResultFromData
<1>. QED  BY <1>1, InitInv, StepInv, DataInit, DataInvStep, PTL DEF Spec
=============================================================================
