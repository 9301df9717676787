----------------------------- MODULE FetchStream -----------------------------
(***************************************************************************)
(* What the prefetch buffer promises the IF stage (ports of                *)
(* rtl/vcve2_prefetch_buffer.sv towards the IF stage): a stream of         *)
(* instructions.  At any time either nothing is offered, or the            *)
(* instruction at pc is, and it stays on offer until the IF stage takes it *)
(* or branches away.                                                       *)
(***************************************************************************)
EXTENDS Integers

CONSTANTS NWords, Programs, NoInstr

VARIABLES mem, pc, cmd, offer

vars == <<mem, pc, cmd, offer>>

Plus(h, n) == (h + n) % (2 * NWords)

FirstWord(a)  == a \div 2
SecondWord(a) == Plus(a, 1) \div 2
Unaligned(a)  == a % 2 = 1

\* The instruction at a is compressed: an erroneous word says nothing.
Compressed(a) == LET m == mem[FirstWord(a)]
                 IN ~m.err /\ IF Unaligned(a) THEN m.c1 ELSE m.c0

Next32(a) == IF Compressed(a) THEN Plus(a, 1) ELSE Plus(a, 2)

\* The words an instruction lies in; a compressed one has no second half.
Lo(a) == FirstWord(a)
Hi(a) == SecondWord(a)

Err(a) == \/ mem[Lo(a)].err
          \/ ~Compressed(a) /\ mem[Hi(a)].err

\* o is a faithful rendering of the instruction at a.  The upper half is
\* meaningful when the instruction is not compressed and its first word was
\* read, the plus2 flag when there is an error.
Renders(o, a) ==
  /\ o.lo = Lo(a)
  /\ Compressed(a) \/ mem[Lo(a)].err \/ o.hi = Hi(a)
  /\ o.err = Err(a)
  /\ o.err => (o.plus2 <=> ~mem[Lo(a)].err)

Offered == offer # NoInstr

Init == pc = 0 /\ ~Offered

\* pc moves on a branch or when an instruction is taken, never otherwise.
PcStep == pc' = IF cmd.branch THEN cmd.addr
                ELSE IF cmd.ready /\ Offered THEN Next32(pc) ELSE pc

OfferStep ==
  /\ Offered' => Renders(offer', pc')
  /\ (Offered /\ ~cmd.ready /\ ~cmd.branch) => Offered' /\ Renders(offer', pc)

Next == PcStep /\ OfferStep /\ UNCHANGED mem

Spec == Init /\ [][Next]_vars
=============================================================================
