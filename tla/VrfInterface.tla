----------------------------- MODULE VrfInterface -----------------------------
(***************************************************************************)
(* The vector register file interface (rtl/vcve2_vrf_interface.sv) and its *)
(* address generation unit (rtl/vcve2_agu.sv).  The vector registers live  *)
(* in data memory: the FSM reads the operands of a vector instruction word *)
(* by word, and writes its results word by word behind them.               *)
(*                                                                         *)
(* The ports are variables (see FetchFifo).  op holds the decoded fields   *)
(* of the instruction in ID and the CSRs it depends on:                    *)
(*   sel, mult, mem, slide, up   the decoder's selections                  *)
(*   rs1, rs2, rd                register numbers                          *)
(*   bytes                       vl << sew                                 *)
(*   off                         slide offset in bytes (already << sew)    *)
(* A word is a function from byte lanes to bytes; a byte enable a set of   *)
(* lanes; an address of the register file a word index.                    *)
(***************************************************************************)
EXTENDS Integers

CONSTANTS Byte, ZeroByte,
          WordsPerReg,   \* words of a vector register: 4 ({rs1_i[2:0], 2'b00})
          AguWords       \* words the AGU's counters count: 32 (logic [4:0])

VARIABLES
  req_i, op, data_gnt_i, data_rvalid_i, data_rdata_i, wdata_i,
  lsu_gnt_i, lsu_done_i,
  vrf_state, num_iterations_q, offset_q, first_iteration_q, last_iteration_q,
  slide_offset_q, slide_first_write_q, slide_buffer_q,
  rs1_q, rs2_q, rs3_q, rd_q, buffer_q, curr_state_delay,
  addr_rs1_q, addr_rs2_q, addr_rd_q

vrfVars == <<vrf_state, num_iterations_q, offset_q, first_iteration_q,
             last_iteration_q, slide_offset_q, slide_first_write_q, slide_buffer_q,
             rs1_q, rs2_q, rs3_q, rd_q, buffer_q, curr_state_delay,
             addr_rs1_q, addr_rs2_q, addr_rd_q>>

Lanes == 0 .. 3
Zero  == [l \in Lanes |-> ZeroByte]
IterationLimit == 1073741824          \* num_iterations_q has PIPE_WIDTH-2 bits

VrfInit ==
  /\ vrf_state = "IDLE" /\ num_iterations_q = 0
  /\ offset_q = 0 /\ slide_offset_q = 0
  /\ first_iteration_q = FALSE /\ last_iteration_q = FALSE
  /\ slide_first_write_q = FALSE
  /\ slide_buffer_q = [l \in 0 .. 2 |-> ZeroByte]
  /\ rs1_q = Zero /\ rs2_q = Zero /\ rs3_q = Zero /\ rd_q = Zero /\ buffer_q = Zero
  /\ curr_state_delay = "none"
  /\ addr_rs1_q = 0 /\ addr_rs2_q = 0 /\ addr_rd_q = 0

sel(b)     == b \in op.sel            \* sel_operation_i[b]
SlideDown  == op.slide /\ ~op.up
State(s)   == vrf_state = s

-----------------------------------------------------------------------------
(* Byte enables.  The last write covers the bytes that remain of vl, for a *)
(* slide down those that remain of vl - offset.                            *)

LowLanes(n) == IF n % 4 = 0 THEN Lanes ELSE 0 .. (n % 4) - 1

offset_be == LowLanes(IF SlideDown THEN offset_q - slide_offset_q ELSE offset_q)

no_offset == IF SlideDown
             THEN \/ offset_q = slide_offset_q
                  \/ 0 < offset_q /\ offset_q < slide_offset_q
             ELSE offset_q = 0

slide_offset_be == slide_offset_q .. 3
no_offset_first == slide_offset_q = 0

sel_slide_be == /\ State("READ") /\ ~first_iteration_q
                /\ slide_first_write_q /\ op.slide /\ op.up

data_be_o == (IF sel_slide_be THEN slide_offset_be ELSE Lanes)
             \cap (IF last_iteration_q THEN offset_be ELSE Lanes)

-----------------------------------------------------------------------------
(* Requests.  data_req_o is high exactly when one of the registers is      *)
(* addressed; the data phase of a load or store goes through the LSU.  The *)
(* AGU's counters address the words of a group of registers, the upper     *)
(* bits of the register number (rs1_i[4:3]) select the group.              *)

FirstWord(r) == (r * WordsPerReg) % AguWords
Group(r)     == r * WordsPerReg - FirstWord(r)

accept == State("IDLE") /\ req_i /\ op.bytes # 0

agu_load_o       == accept
data_load_addr_o == accept /\ op.mem

\* The iteration that follows is the last.
last_next == num_iterations_q = IF no_offset THEN 1 ELSE 0

agu_get_rs1_o ==
  \/ State("START") /\ ~op.mem /\ sel(0)
  \/ State("INT_READ2") /\ sel(0) /\ ~sel(2) /\ sel(3) /\ ~last_iteration_q
  \/ State("INT_READ3") /\ sel(3) /\ ~last_iteration_q
  \/ State("WRITE") /\ ~last_iteration_q /\ sel(0) /\ ~last_next

agu_get_rs2_o ==
  \/ State("START") /\ ~op.mem /\ ~sel(0) /\ (op.mult \/ sel(1))
  \/ State("INT_READ2") /\ ~sel(0) /\ sel(3) /\ ~last_iteration_q
  \/ State("INT_WRITE") /\ ~last_iteration_q /\ sel(1) /\ sel(0)
  \/ State("LOAD_SLIDE")
  \/ State("WRITE") /\ ~last_iteration_q /\ ~sel(0) /\ sel(1) /\ ~last_next

NoRetry ==                                   \* mutant: STORE_WAITGNT does not request
  \/ State("START") /\ op.mem /\ sel(2)
  \/ State("INT_READ2") /\ sel(0) /\ sel(2)
  \/ State("INT_WRITE") /\ ~last_iteration_q /\ sel(1) /\ ~sel(0)
  \/ State("STORE_WAITLSU") /\ (lsu_done_i \/ first_iteration_q)
                            /\ ~last_iteration_q /\ ~last_next
\* Reads of rd: the third operand of vmacc, and the data of a store.
ReadsRd ==
  \/ State("START") /\ op.mem /\ sel(2)
  \/ State("INT_READ2") /\ sel(0) /\ sel(2)
  \/ State("INT_WRITE") /\ ~last_iteration_q /\ sel(1) /\ ~sel(0)
  \/ State("STORE_WAITLSU") /\ (lsu_done_i \/ first_iteration_q)
                            /\ ~last_iteration_q /\ ~last_next
  \/ State("STORE_WAITGNT")

data_we_o ==
  \/ State("START") /\ ~op.mem /\ ~op.mult /\ ~sel(0) /\ ~sel(1) /\ sel(3)
  \/ vrf_state \in {"INT_READ1", "READ"} /\ ~first_iteration_q
  \/ State("WRITE") /\ ~last_iteration_q /\ ~sel(0) /\ ~sel(1)
  \/ State("LOAD") /\ (lsu_done_i \/ last_iteration_q) /\ ~first_iteration_q
  \/ State("LOAD_WAITGNT")

agu_get_rd_o == ReadsRd \/ data_we_o
data_req_o   == agu_get_rs1_o \/ agu_get_rs2_o \/ agu_get_rd_o

\* rd is read before it is written in an iteration of vmacc, and counts then.
agu_incr_o == /\ data_req_o /\ data_gnt_i
              /\ ~(vrf_state \in {"INT_READ2", "INT_WRITE"} /\ agu_get_rd_o)

addr_o == IF agu_get_rs1_o THEN Group(op.rs1) + addr_rs1_q
          ELSE IF agu_get_rs2_o THEN Group(op.rs2) + addr_rs2_q
          ELSE Group(op.rd) + addr_rd_q

\* Requests to the LSU, one word each.
lsu_req_o ==
  \/ State("START") /\ op.mem /\ ~sel(2) /\ sel(3)
  \/ State("LOAD_WRITE") /\ ~last_iteration_q /\ ~last_next
  \/ State("STORE_READ") /\ (data_rvalid_i \/ last_iteration_q) /\ ~first_iteration_q

DoneEarly ==                                 \* mutant: done with the last request
  \/ State("IDLE") /\ req_i /\ op.bytes = 0
  \/ vrf_state \in {"INT_READ1", "READ", "LOAD_WRITE"} /\ last_iteration_q
  \/ State("STORE_WAITLSU") /\ (lsu_done_i \/ first_iteration_q) /\ last_iteration_q
vector_done_o ==
  \/ State("IDLE") /\ req_i /\ op.bytes = 0
  \/ vrf_state \in {"INT_WRITE", "WRITE", "LOAD_WRITE"} /\ last_iteration_q
  \/ State("STORE_WAITLSU") /\ (lsu_done_i \/ first_iteration_q) /\ last_iteration_q

-----------------------------------------------------------------------------
(* The FSM.  Each action says what one state does; Iterate counts.         *)

GoTo(s)   == vrf_state' = s
Granted(s) == vrf_state' = IF data_gnt_i THEN s ELSE vrf_state

KeepFirst == UNCHANGED <<first_iteration_q, slide_first_write_q>>
KeepIter  == UNCHANGED <<num_iterations_q, last_iteration_q>>
KeepSetup == UNCHANGED <<offset_q, slide_offset_q>>

Minus(m, n) == (m - n) % IterationLimit

Finish == GoTo("IDLE") /\ num_iterations_q' = 0 /\ UNCHANGED last_iteration_q

\* Move to the next iteration if c holds.
Iterate(c) ==
  /\ last_iteration_q' = (last_iteration_q \/ (c /\ last_next))
  /\ num_iterations_q' = IF c /\ ~last_next THEN Minus(num_iterations_q, 1)
                                            ELSE num_iterations_q

Idle ==
  /\ State("IDLE")
  /\ last_iteration_q' = FALSE
  /\ GoTo(IF accept THEN "START" ELSE "IDLE")
  /\ num_iterations_q' = IF ~accept THEN 0
                         ELSE IF op.slide THEN Minus(op.bytes \div 4, op.off \div 4)
                         ELSE op.bytes \div 4
  /\ offset_q' = IF accept THEN op.bytes % 4 ELSE offset_q
  /\ slide_offset_q' = IF accept /\ op.slide THEN op.off % 4 ELSE slide_offset_q
  /\ KeepFirst

Start ==
  /\ State("START")
  /\ first_iteration_q' = TRUE /\ slide_first_write_q' = TRUE
  /\ IF op.mem
     THEN IF sel(2) THEN Granted("STORE_READ")
          ELSE GoTo(IF sel(3) THEN "LOAD" ELSE "IDLE")
     ELSE IF op.mult THEN Granted("INT_READ1")
     ELSE IF sel(0) \/ sel(1)
          THEN Granted(IF SlideDown /\ ~no_offset_first THEN "LOAD_SLIDE" ELSE "READ")
     ELSE IF sel(3) THEN Granted("WRITE")
     ELSE GoTo("IDLE")
  /\ KeepIter /\ KeepSetup

IntRead1 ==
  /\ State("INT_READ1")
  /\ IF first_iteration_q THEN GoTo("INT_WRITE") ELSE Granted("INT_WRITE")
  /\ first_iteration_q' = FALSE
  /\ KeepIter /\ KeepSetup /\ UNCHANGED slide_first_write_q

IntRead2 ==
  /\ State("INT_READ2")
  /\ IF sel(0) /\ sel(2) THEN Granted("INT_READ3")
     ELSE IF ~sel(3) THEN GoTo("IDLE")
     ELSE IF last_iteration_q THEN GoTo("INT_READ1")
     ELSE Granted("INT_READ1")
  /\ KeepFirst /\ KeepIter /\ KeepSetup

IntRead3 ==
  /\ State("INT_READ3")
  /\ IF ~sel(3) THEN GoTo("IDLE")
     ELSE IF last_iteration_q THEN GoTo("INT_READ1")
     ELSE Granted("INT_READ1")
  /\ KeepFirst /\ KeepIter /\ KeepSetup

IntWrite ==
  /\ State("INT_WRITE")
  /\ IF last_iteration_q THEN Finish
     ELSE IF sel(1) THEN Granted("INT_READ2") /\ Iterate(data_gnt_i)
     ELSE GoTo("IDLE") /\ KeepIter
  /\ KeepFirst /\ KeepSetup

LoadSlide ==
  /\ State("LOAD_SLIDE")
  /\ Granted("READ")
  /\ KeepFirst /\ KeepIter /\ KeepSetup

Read ==
  /\ State("READ")
  /\ IF first_iteration_q THEN GoTo("WRITE") ELSE Granted("WRITE")
  /\ first_iteration_q' = FALSE
  /\ slide_first_write_q' = (slide_first_write_q /\ ~(data_we_o /\ data_gnt_i))
  /\ KeepIter /\ KeepSetup

Write ==
  /\ State("WRITE")
  /\ IF last_iteration_q THEN Finish
     ELSE IF sel(0) \/ sel(1)
     THEN /\ IF last_next THEN GoTo("READ") ELSE Granted("READ")
          /\ Iterate(last_next \/ data_gnt_i)
     ELSE GoTo("WRITE") /\ Iterate(data_gnt_i)
  /\ KeepFirst /\ KeepSetup

Load ==
  /\ State("LOAD")
  /\ IF ~(lsu_done_i \/ last_iteration_q) THEN GoTo("LOAD") /\ KeepFirst
     ELSE IF first_iteration_q
     THEN GoTo("LOAD_WRITE") /\ first_iteration_q' = FALSE /\ UNCHANGED slide_first_write_q
     ELSE GoTo(IF data_gnt_i THEN "LOAD_WRITE" ELSE "LOAD_WAITGNT") /\ KeepFirst
  /\ KeepIter /\ KeepSetup

LoadWaitGnt ==
  /\ State("LOAD_WAITGNT")
  /\ Granted("LOAD_WRITE")
  /\ KeepFirst /\ KeepIter /\ KeepSetup

LoadWrite ==
  /\ State("LOAD_WRITE")
  /\ IF last_iteration_q THEN Finish ELSE GoTo("LOAD") /\ Iterate(TRUE)
  /\ KeepFirst /\ KeepSetup

StoreRead ==
  /\ State("STORE_READ")
  /\ GoTo(IF data_rvalid_i \/ last_iteration_q THEN "STORE_WAITLSU" ELSE "STORE_READ")
  /\ KeepFirst /\ KeepIter /\ KeepSetup

StoreWaitLsu ==
  /\ State("STORE_WAITLSU")
  /\ IF ~(lsu_done_i \/ first_iteration_q) THEN GoTo("STORE_WAITLSU") /\ KeepIter
     ELSE IF last_iteration_q THEN Finish
     ELSE /\ GoTo(IF last_next \/ data_gnt_i THEN "STORE_READ" ELSE "STORE_WAITGNT")
          /\ Iterate(TRUE)
  /\ first_iteration_q' = FALSE
  /\ KeepSetup /\ UNCHANGED slide_first_write_q

StoreWaitGnt ==
  /\ State("STORE_WAITGNT")
  /\ Granted("STORE_READ")
  /\ KeepFirst /\ KeepIter /\ KeepSetup

VrfFsm == \/ Idle \/ Start \/ IntRead1 \/ IntRead2 \/ IntRead3 \/ IntWrite
          \/ LoadSlide \/ Read \/ Write \/ Load \/ LoadWaitGnt \/ LoadWrite
          \/ StoreRead \/ StoreWaitLsu \/ StoreWaitGnt

-----------------------------------------------------------------------------
(* Operands.  A slide shifts the words it reads by its offset's low bits   *)
(* through slide_buffer_q: n bytes of each word wait there for the next.   *)

kept == IF op.up \/ slide_offset_q = 0 THEN slide_offset_q ELSE 4 - slide_offset_q

slide_rdata == [l \in Lanes |-> IF l < kept THEN slide_buffer_q[l]
                                            ELSE data_rdata_i[l - kept]]

slide_buffer_d == [l \in 0 .. 2 |-> IF kept = 0 THEN slide_buffer_q[l]
                                    ELSE IF l < kept THEN data_rdata_i[4 - kept + l]
                                    ELSE ZeroByte]

rs1_en == State("INT_READ1") /\ data_rvalid_i /\ ~last_iteration_q /\ sel(0)

rs2_en == /\ data_rvalid_i
          /\ \/ State("INT_READ1") /\ ~last_iteration_q /\ ~sel(0)
             \/ State("INT_READ2") /\ sel(0)
             \/ State("LOAD_SLIDE")
             \/ State("READ") /\ ~last_iteration_q

rs3_en == /\ data_rvalid_i
          /\ \/ State("INT_READ2") /\ ~sel(0)
             \/ vrf_state \in {"INT_READ3", "STORE_READ"}

slide_buffer_en == /\ data_rvalid_i
                   /\ \/ State("LOAD_SLIDE")
                      \/ State("READ") /\ ~last_iteration_q /\ op.slide

rd_en == State("LOAD") /\ lsu_done_i

-----------------------------------------------------------------------------
(* A grant that comes late: the result (or the operand of a store) is kept *)
(* while the operands it came from are overwritten.                        *)

OnlyBinary == State("INT_READ1") /\ data_we_o /\ ~data_gnt_i   \* mutant
write_delayed ==
  \/ vrf_state \in {"INT_READ1", "READ"} /\ data_we_o /\ ~data_gnt_i
  \/ State("LOAD") /\ data_we_o /\ ~data_gnt_i

read_delayed == State("STORE_READ") /\ lsu_req_o /\ ~lsu_gnt_i

delay_starts == curr_state_delay = "none" /\ (write_delayed \/ read_delayed)
rd_buf_en    == delay_starts /\ ~op.mem
buffer_en    == delay_starts /\ op.mem

DelayFsm ==
  curr_state_delay' =
    CASE curr_state_delay = "none"  -> IF write_delayed THEN "write"
                                       ELSE IF read_delayed THEN "read" ELSE "none"
      [] curr_state_delay = "write" -> IF write_delayed THEN "write" ELSE "none"
      [] curr_state_delay = "read"  -> IF read_delayed THEN "read" ELSE "none"

Registers ==
  /\ rs1_q' = IF rs1_en THEN data_rdata_i ELSE rs1_q
  /\ rs2_q' = IF ~rs2_en THEN rs2_q ELSE IF op.slide THEN slide_rdata ELSE data_rdata_i
  /\ rs3_q' = IF rs3_en THEN data_rdata_i ELSE rs3_q
  /\ rd_q'  = IF rd_en \/ rd_buf_en THEN wdata_i ELSE rd_q
  /\ buffer_q' = IF ~buffer_en THEN buffer_q
                 ELSE IF read_delayed THEN rs3_q ELSE rd_q
  /\ slide_buffer_q' = IF slide_buffer_en THEN slide_buffer_d ELSE slide_buffer_q

rdata_c_o == IF curr_state_delay = "read" THEN buffer_q ELSE rs3_q

Undelayed == IF op.mem THEN rd_q ELSE wdata_i         \* mutant: no buffered result
data_wdata_o ==
  IF op.mem THEN IF curr_state_delay = "write" THEN buffer_q ELSE rd_q
  ELSE IF curr_state_delay = "write" THEN rd_q ELSE wdata_i

-----------------------------------------------------------------------------
(* The AGU: a counter per register operand, loaded with the first word of  *)
(* the register; for a slide, rs2 or rd starts at the word of the offset.  *)

Counted(a) == (a + 1) % AguWords

AguClock ==
  LET slid(r) == (r * WordsPerReg + op.off \div 4) % AguWords
      next(r, get, q, slide) ==
        IF agu_load_o THEN IF slide THEN slid(r) ELSE FirstWord(r)
        ELSE IF get /\ agu_incr_o THEN Counted(q) ELSE q
  IN /\ addr_rs1_q' = next(op.rs1, agu_get_rs1_o, addr_rs1_q, FALSE)
     /\ addr_rs2_q' = next(op.rs2, agu_get_rs2_o, addr_rs2_q, SlideDown)
     /\ addr_rd_q'  = next(op.rd, agu_get_rd_o, addr_rd_q, op.slide /\ op.up)

VrfClock == VrfFsm /\ DelayFsm /\ Registers /\ AguClock
=============================================================================
