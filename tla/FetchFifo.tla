------------------------------ MODULE FetchFifo ------------------------------
(***************************************************************************)
(* The fetch FIFO of the instruction prefetch buffer                       *)
(* (rtl/vcve2_fetch_fifo.sv): NUM_REQS+1 word entries with a bypass from   *)
(* the bus, and the aligner that cuts 16- and 32-bit instructions out of   *)
(* the words.  The ports are variables, so that the module that contains   *)
(* the FIFO connects them with INSTANCE ... WITH; every combinational      *)
(* signal is a state function with its name in the source.                 *)
(*                                                                         *)
(* An address counts half-words (bit 0 of a byte address is never used)    *)
(* modulo 2 * NWords.  A data word is named by the index of the memory     *)
(* word it was read from; mem says of each word whether its lower (c0) and *)
(* its upper (c1) half starts a compressed instruction and whether reading *)
(* it is a bus error (err), so the err_q bits follow rdata_q.              *)
(***************************************************************************)
EXTENDS Integers

CONSTANTS NUM_REQS,     \* bus requests the FIFO reserves room for
          NWords        \* words of the address space

VARIABLES clear_i, in_valid_i, in_addr_i, in_rdata_i, out_ready_i, \* inputs
          mem,                                                     \* memory
          valid_q, rdata_q, instr_addr_q                           \* registers

fifoVars == <<valid_q, rdata_q, instr_addr_q>>

Words   == 0 .. NWords - 1
Halfs   == 0 .. 2 * NWords - 1
Reqs    == 0 .. NUM_REQS - 1
Entries == 0 .. NUM_REQS

Word(h)      == h \div 2
Unaligned(h) == h % 2 = 1
Plus(h, n)   == (h + n) % (2 * NWords)

FifoTypeOK == /\ valid_q \in [Entries -> BOOLEAN]
              /\ rdata_q \in [Entries -> Words]
              /\ instr_addr_q \in Halfs

FifoInit == /\ valid_q = [i \in Entries |-> FALSE]
            /\ rdata_q = [i \in Entries |-> 0]
            /\ instr_addr_q = 0

-----------------------------------------------------------------------------
(* Output port and aligner.                                                *)

rdata  == IF valid_q[0] THEN rdata_q[0] ELSE in_rdata_i
rdata1 == IF valid_q[1] THEN rdata_q[1] ELSE in_rdata_i
err    == mem[rdata].err
valid  == valid_q[0] \/ in_valid_i

unaligned_is_compressed == mem[rdata].c1 /\ ~err
aligned_is_compressed   == mem[rdata].c0 /\ ~err

err_unaligned ==
  IF valid_q[1]
  THEN (mem[rdata_q[1]].err /\ ~unaligned_is_compressed) \/ mem[rdata_q[0]].err
  ELSE \/ valid_q[0] /\ mem[rdata_q[0]].err
       \/ mem[in_rdata_i].err /\ (~valid_q[0] \/ ~unaligned_is_compressed)

err_plus2 ==
  IF valid_q[1]
  THEN mem[rdata_q[1]].err /\ ~mem[rdata_q[0]].err
  ELSE mem[in_rdata_i].err /\ valid_q[0] /\ ~mem[rdata_q[0]].err

valid_unaligned == valid_q[1] \/ (valid_q[0] /\ in_valid_i)

out_valid_o == IF Unaligned(instr_addr_q) /\ ~unaligned_is_compressed
               THEN valid_unaligned
               ELSE valid

\* The words the two halves of the instruction on the output come from.
out_rdata_o == IF Unaligned(instr_addr_q)
               THEN [lo |-> rdata, hi |-> rdata1]
               ELSE [lo |-> rdata, hi |-> rdata]

out_err_o       == IF Unaligned(instr_addr_q) THEN err_unaligned ELSE err
out_err_plus2_o == Unaligned(instr_addr_q) /\ err_plus2

-----------------------------------------------------------------------------
(* Address, fill level and the next state of the entries.                  *)

addr_incr_two == IF Unaligned(instr_addr_q) THEN unaligned_is_compressed
                                            ELSE aligned_is_compressed

instr_addr_d == IF clear_i THEN in_addr_i
                ELSE Plus(instr_addr_q, IF addr_incr_two THEN 1 ELSE 2)

busy_o == [i \in Reqs |-> valid_q[i + 1]]

pop_fifo == /\ out_ready_i /\ out_valid_o
            /\ ~aligned_is_compressed \/ Unaligned(instr_addr_q)

lowest_free_entry(i) == ~valid_q[i] /\ (i > 0 => valid_q[i - 1])

valid_pushed(i) == (in_valid_i /\ lowest_free_entry(i)) \/ valid_q[i]

valid_popped(i) == IF pop_fifo THEN i < NUM_REQS /\ valid_pushed(i + 1)
                               ELSE valid_pushed(i)

KeptOnClear(i) == valid_popped(i)            \* mutant: a branch does not clear
valid_d(i) == valid_popped(i) /\ ~clear_i

entry_en(i) ==
  IF i = NUM_REQS
  THEN in_valid_i /\ lowest_free_entry(i)
  ELSE \/ valid_pushed(i + 1) /\ pop_fifo
       \/ in_valid_i /\ lowest_free_entry(i) /\ ~pop_fifo

rdata_d(i) == IF i < NUM_REQS /\ valid_q[i + 1] THEN rdata_q[i + 1]
                                                ELSE in_rdata_i

FifoClock ==
  /\ valid_q' = [i \in Entries |-> valid_d(i)]
  /\ rdata_q' = [i \in Entries |-> IF entry_en(i) THEN rdata_d(i)
                                                  ELSE rdata_q[i]]
  /\ instr_addr_q' = IF clear_i \/ (out_ready_i /\ out_valid_o)
                     THEN instr_addr_d ELSE instr_addr_q

-----------------------------------------------------------------------------
(* The assertions IbexFetchFifoPushPopFull and IbexFetchFifoPushFull: a    *)
(* word that arrives finds a free entry, or the FIFO is being cleared.     *)
PushFull == in_valid_i => ~valid_q[NUM_REQS] \/ clear_i
=============================================================================
