------------------------------ MODULE VectorUnit ------------------------------
(***************************************************************************)
(* Vector and scalar instructions sharing the data memory: the VRF         *)
(* interface and its AGU, the load/store unit, the LSU's vector interface  *)
(* (rtl/vcve2_lsu_interface.sv), the data memory switch                    *)
(* (rtl/vcve2_dmem_switch.sv), the ID stage's FSM and IF-ID register, and  *)
(* the wiring of them (rtl/vcve2_core.sv).  A step is one clock cycle.     *)
(*                                                                         *)
(* The memory holds the words of the vector registers, then data.  The ALU *)
(* is the operator Alu, applied to each lane of three operands; Scalar is  *)
(* the value of the scalar operand, replicated.  There are no bus errors   *)
(* (ScalarMemory has them) and no traps here.                              *)
(*                                                                         *)
(* External: the memory grants a request in any cycle, performs it then,   *)
(* and answers in order.  The core does not tolerate every delay: a pair   *)
(* <<k, u>> of LateGrant (LateAnswer) says that while an instruction of    *)
(* class k is in ID, a request of unit u may be granted late (answered     *)
(* later than in the cycle after its grant).  The VRF's requests are not   *)
(* granted before the one before is answered, which its FSM relies on      *)
(* ("gnt=1 => data_rvalid of the previous operation=1").  Bubbles says     *)
(* whether the IF stage may have nothing to deliver.                       *)
(***************************************************************************)
EXTENDS Integers, Sequences

CONSTANTS NWords, NRegs, WordsPerReg, AguWords,
          Byte, ZeroByte, InitialMemory, Scalar, Alu(_, _, _),
          Programs, LateGrant, LateAnswer, Bubbles

VARIABLES
  in,                \* inputs: the grant as dmem_switch routes it, rvalid, fetch_valid
  todo, instr, instr_valid_id_q, id_fsm_q,          \* program, IF-ID register, ID
  addr_q, prev_op_q,                                \* lsu_interface, dmem_switch
  vrf_state, num_iterations_q, offset_q, first_iteration_q, last_iteration_q,
  slide_offset_q, slide_first_write_q, slide_buffer_q,
  rs1_q, rs2_q, rs3_q, rd_q, buffer_q, curr_state_delay,
  addr_rs1_q, addr_rs2_q, addr_rd_q,
  ls_fsm_cs, handle_misaligned_q, pmp_err_q, lsu_err_q,
  rdata_q, rdata_offset_q, data_type_q, data_sign_ext_q, data_we_q, addr_last_q,
  memory, inflight,  \* external
  before             \* history: the memory when the instruction entered ID

id   == <<todo, instr, instr_valid_id_q, id_fsm_q, addr_q, prev_op_q>>
vrf  == <<vrf_state, num_iterations_q, offset_q, first_iteration_q,
          last_iteration_q, slide_offset_q, slide_first_write_q, slide_buffer_q,
          rs1_q, rs2_q, rs3_q, rd_q, buffer_q, curr_state_delay,
          addr_rs1_q, addr_rs2_q, addr_rd_q>>
lsu  == <<ls_fsm_cs, handle_misaligned_q, pmp_err_q, lsu_err_q, rdata_q,
          rdata_offset_q, data_type_q, data_sign_ext_q, data_we_q, addr_last_q>>
clocked == <<id, vrf, lsu, memory, inflight, before>>
vars == <<in, clocked>>

Lanes  == 0 .. 3
Words  == 0 .. NWords - 1
Addrs  == [word : Words, lane : Lanes]
Zero   == [l \in Lanes |-> ZeroByte]

VrfWords == NRegs * WordsPerReg

ASSUME SizesAssumption ==
  /\ WordsPerReg \in Nat \ {0} /\ NRegs \in Nat \ {0} /\ AguWords \in Nat \ {0}
  /\ AguWords % WordsPerReg = 0 /\ VrfWords % AguWords = 0
  /\ NWords \in Nat /\ NWords > VrfWords

-----------------------------------------------------------------------------
(* The decoder.  A kind stands for the instructions that are handled alike;*)
(* "nosel" for those whose decoding selects no operands.                   *)

Kinds == {"vv", "vx", "macc_vv", "macc_vx", "mv_v", "mv_x", "slideup", "slidedown",
          "load", "store", "nosel", "lw", "sw", "other"}

Instr == [kind : Kinds, rs1 : 0 .. NRegs - 1, rs2 : 0 .. NRegs - 1, rd : 0 .. NRegs - 1,
          bytes : Nat, off : Nat, addr : Addrs, unit : BOOLEAN, stride : Nat]

Other == [kind |-> "other", rs1 |-> 0, rs2 |-> 0, rd |-> 0, bytes |-> 0, off |-> 0,
          addr |-> [word |-> 0, lane |-> 0], unit |-> FALSE, stride |-> 0]

ASSUME ProgramsAssumption == \A p \in Programs : p \in Seq(Instr)
ASSUME MemoryAssumption == InitialMemory \in [Words -> [Lanes -> Byte]]

Scalars == {"lw", "sw", "other"}

vrf_req       == instr.kind \notin Scalars
vrf_memory_op == instr.kind \in {"load", "store"}
vrf_slide_op  == instr.kind \in {"slideup", "slidedown"}
lsu_req_dec   == instr.kind \in {"lw", "sw"}
lsu_we        == instr.kind \in {"store", "sw"}

vrf_sel_operation ==
  CASE instr.kind = "vv"      -> {0, 1, 3}
    [] instr.kind = "vx"      -> {1, 3}
    [] instr.kind = "macc_vv" -> {0, 1, 2, 3}
    [] instr.kind = "macc_vx" -> {1, 2, 3}
    [] instr.kind = "mv_v"    -> {0, 3}
    [] instr.kind = "mv_x"    -> {3}
    [] vrf_slide_op           -> {1, 3}
    [] instr.kind = "load"    -> {3}
    [] instr.kind = "store"   -> {2}
    [] OTHER                  -> {}

op == [sel |-> vrf_sel_operation, mult |-> instr.kind \in {"vv", "macc_vv", "macc_vx"},
       mem |-> vrf_memory_op, slide |-> vrf_slide_op, up |-> instr.kind = "slideup",
       rs1 |-> instr.rs1, rs2 |-> instr.rs2, rd |-> instr.rd,
       bytes |-> instr.bytes, off |-> instr.off]

\* The class of an instruction, for LateGrant and LateAnswer.
Class == CASE instr.kind = "load"   -> "load"
           [] instr.kind = "store"  -> "store"
           [] instr.kind \in Scalars -> "scalar"
           [] OTHER                 -> "arith"

-----------------------------------------------------------------------------
(* The result of the ALU for the operands the VRF holds.                   *)

AluWord(a, b, c) == [l \in Lanes |-> Alu(a[l], b[l], c[l])]

vrf_wdata_id(rdata_c) ==
  CASE instr.kind = "vv"      -> AluWord(rs1_q, rs2_q, Zero)
    [] instr.kind = "vx"      -> AluWord(Scalar, rs2_q, Zero)
    [] instr.kind = "macc_vv" -> AluWord(rs1_q, rs2_q, rdata_c)
    [] instr.kind = "macc_vx" -> AluWord(Scalar, rs2_q, rdata_c)
    [] instr.kind = "mv_x"    -> Scalar
    [] OTHER                  -> rs2_q

-----------------------------------------------------------------------------
(* The units.  What the LSU reports to the VRF depends on its registers    *)
(* and the bus only: LsuResp leaves its other inputs open.                 *)

Answer == IF in.rvalid THEN Head(inflight).data ELSE Zero

vrf_data_rvalid == prev_op_q = "VRF" /\ vrf_req /\ in.rvalid
lsu_rvalid      == (prev_op_q = "LSU" \/ ~vrf_req) /\ in.rvalid

LsuResp == INSTANCE LoadStoreUnit WITH
  lsu_req_i <- FALSE, lsu_we_i <- FALSE, lsu_type_i <- "word", lsu_sign_ext_i <- FALSE,
  lsu_wdata_i <- Zero, addr_i <- addr_q, vec_be_i <- Lanes, data_gnt_i <- FALSE,
  data_rvalid_i <- lsu_rvalid, data_err_i <- FALSE, pmp_blocked_i <- {},
  data_rdata_i <- Answer

lsu_resp_valid == LsuResp!lsu_resp_valid_o

Vrf == INSTANCE VrfInterface WITH
  req_i         <- vrf_req,
  data_gnt_i    <- in.vrf_gnt,
  data_rvalid_i <- vrf_data_rvalid,
  data_rdata_i  <- Answer,
  wdata_i       <- IF vrf_memory_op THEN LsuResp!lsu_rdata_o
                   ELSE vrf_wdata_id(IF curr_state_delay = "read" THEN buffer_q ELSE rs3_q),
  lsu_gnt_i     <- vrf_req /\ in.lsu_gnt,
  lsu_done_i    <- lsu_resp_valid

instr_executing   == instr_valid_id_q
instr_first_cycle == instr_valid_id_q /\ id_fsm_q = "FIRST_CYCLE"
lsu_req           == instr_executing /\ instr_first_cycle /\ lsu_req_dec

lsu_if_req == IF vrf_req THEN Vrf!lsu_req_o ELSE lsu_req

Lsu == INSTANCE LoadStoreUnit WITH
  lsu_req_i      <- lsu_if_req,
  lsu_we_i       <- lsu_we,
  lsu_type_i     <- "word",
  lsu_sign_ext_i <- FALSE,
  lsu_wdata_i    <- IF vrf_req THEN Vrf!rdata_c_o ELSE Scalar,
  addr_i         <- IF vrf_req THEN addr_q ELSE instr.addr,
  vec_be_i       <- IF vrf_req THEN Vrf!data_be_o ELSE Lanes,
  data_gnt_i     <- in.lsu_gnt,
  data_rvalid_i  <- lsu_rvalid,
  data_err_i     <- FALSE,
  pmp_blocked_i  <- {},
  data_rdata_i   <- Answer

\* lsu_interface: the address of the next word of a vector access.
Plus(a, n) == LET b == (a.word * 4 + a.lane + n) % (NWords * 4)
              IN [word |-> b \div 4, lane |-> b % 4]

scalar_addr == IF vrf_memory_op THEN Plus(addr_last_q, instr.stride) ELSE instr.addr

LsuInterfaceClock ==
  addr_q' = IF Vrf!data_load_addr_o THEN instr.addr
            ELSE IF ~lsu_resp_valid THEN addr_q
            ELSE IF instr.unit THEN Plus(addr_q, 4) ELSE scalar_addr

\* dmem_switch: who has the data memory, and whose the next answer is.
vrf_has_mem == vrf_req /\ ~Vrf!lsu_req_o /\ ~Lsu!busy_o

\* Mutant: forgets an LSU access whose answer is late.
SwitchAtOnce == prev_op_q' = IF ~vrf_req \/ vrf_has_mem THEN "VRF" ELSE "LSU"

SwitchClock ==
  prev_op_q' = IF ~vrf_req THEN "VRF"
               ELSE IF prev_op_q = "VRF" \/ lsu_resp_valid
                    THEN IF vrf_has_mem THEN "VRF" ELSE "LSU"
               ELSE "LSU"

bus == IF vrf_has_mem
       THEN [req |-> Vrf!data_req_o, we |-> Vrf!data_we_o, be |-> Vrf!data_be_o,
             word |-> Vrf!addr_o, wdata |-> Vrf!data_wdata_o]
       ELSE [req |-> Lsu!data_req_o, we |-> lsu_we, be |-> Lsu!data_be,
             word |-> Lsu!data_addr_o.word, wdata |-> Lsu!data_wdata]

-----------------------------------------------------------------------------
(* The ID stage's FSM and the IF-ID register.                              *)

multicycle_done == IF vrf_req THEN Vrf!vector_done_o ELSE lsu_resp_valid

stall_vec == instr_executing /\ vrf_req
             /\ (id_fsm_q = "FIRST_CYCLE" \/ ~Vrf!vector_done_o)
stall_mem == instr_valid_id_q /\ lsu_req_dec /\ (~lsu_resp_valid \/ instr_first_cycle)
stall_id  == stall_vec \/ stall_mem
instr_done == ~stall_id /\ instr_executing

IdClock ==
  id_fsm_q' = IF ~instr_executing THEN id_fsm_q
              ELSE IF id_fsm_q = "FIRST_CYCLE"
                   THEN IF lsu_req_dec \/ vrf_req THEN "MULTI_CYCLE" ELSE "FIRST_CYCLE"
              ELSE IF multicycle_done THEN "FIRST_CYCLE" ELSE "MULTI_CYCLE"

new_instr == in.fetch_valid /\ ~stall_id

IfIdClock ==
  /\ instr_valid_id_q' = (new_instr \/ (instr_valid_id_q /\ stall_id))
  /\ instr' = IF ~new_instr THEN instr
              ELSE IF todo = <<>> THEN Other ELSE Head(todo)
  /\ todo' = IF new_instr /\ todo # <<>> THEN Tail(todo) ELSE todo

-----------------------------------------------------------------------------
(* The memory.                                                             *)

gnt == in.vrf_gnt \/ in.lsu_gnt

Merge(old, new, be) == [l \in Lanes |-> IF l \in be THEN new[l] ELSE old[l]]

granted == IF ~gnt THEN inflight
           ELSE Append(inflight, [unit |-> IF in.vrf_gnt THEN "VRF" ELSE "LSU",
                                  data |-> memory[bus.word]])

Memory ==
  /\ memory' = IF gnt /\ bus.we
               THEN [memory EXCEPT ![bus.word] = Merge(@, bus.wdata, bus.be)]
               ELSE memory
  /\ inflight' = IF in.rvalid THEN Tail(granted) ELSE granted
  /\ before' = IF new_instr THEN memory' ELSE before

Requester == IF vrf_has_mem THEN "VRF" ELSE "LSU"

\* The grant goes to the unit that has the memory; which grants and answers
\* come at once.
BusRules ==
  /\ in.rvalid => inflight # <<>>
  /\ inflight # <<>> /\ (<<Class, Head(inflight).unit>> \notin LateAnswer) => in.rvalid
  /\ in.vrf_gnt => inflight = <<>> \/ in.rvalid
  /\ in.vrf_gnt => vrf_has_mem
  /\ in.lsu_gnt => ~vrf_has_mem
  /\ IF bus.req THEN <<Class, Requester>> \notin LateGrant => gnt ELSE ~gnt

\* One grant at a time; without bubbles the IF stage always has an instruction.
Inputs == { i \in [vrf_gnt : BOOLEAN, lsu_gnt : BOOLEAN, rvalid : BOOLEAN, fetch_valid : BOOLEAN] :
              ~(i.vrf_gnt /\ i.lsu_gnt) /\ (Bubbles \/ i.fetch_valid) }

Drive == \E i \in Inputs : in' = i

Init ==
  /\ todo \in Programs /\ instr = Other
  /\ instr_valid_id_q = FALSE /\ id_fsm_q = "FIRST_CYCLE"
  /\ addr_q = [word |-> 0, lane |-> 0] /\ prev_op_q = "VRF"
  /\ Vrf!VrfInit /\ Lsu!LsuInit
  /\ memory = InitialMemory /\ before = InitialMemory /\ inflight = <<>>
  /\ in \in Inputs /\ BusRules

Clock == /\ IdClock
         /\ IfIdClock
         /\ LsuInterfaceClock
         /\ SwitchClock
         /\ Vrf!VrfClock
         /\ Lsu!LsuClock
         /\ Memory
         /\ Drive
         /\ BusRules'

Spec == Init /\ [][Clock]_vars
-----------------------------------------------------------------------------
(* What an instruction promises, as a function of the memory m before it.  *)
(* Register groups and data are byte arrays: Index is the place in one of  *)
(* the byte at word w, lane l.                                             *)

RegIndex(r, w, l) == ((w - r * WordsPerReg) % AguWords) * 4 + l
InGroup(r, w)     == w < VrfWords /\ w \div AguWords = (r * WordsPerReg) \div AguWords

RegByte(m, r, k) == m[r * WordsPerReg + k \div 4][k % 4]

DataByte(m, a, k) == m[Plus(a, k).word][Plus(a, k).lane]

\* Where byte k of a vector load or store is in memory: an element of a strided
\* one is a word.
Offset(i, k) == IF i.unit THEN k ELSE (k \div 4) * i.stride + (k % 4)

Scal(k) == Scalar[k % 4]

\* Byte k of the vector result.
Result(m, i, k) ==
  CASE i.kind = "vv"      -> Alu(RegByte(m, i.rs1, k), RegByte(m, i.rs2, k), ZeroByte)
    [] i.kind = "vx"      -> Alu(Scal(k), RegByte(m, i.rs2, k), ZeroByte)
    [] i.kind = "macc_vv" -> Alu(RegByte(m, i.rs1, k), RegByte(m, i.rs2, k), RegByte(m, i.rd, k))
    [] i.kind = "macc_vx" -> Alu(Scal(k), RegByte(m, i.rs2, k), RegByte(m, i.rd, k))
    [] i.kind = "mv_v"    -> RegByte(m, i.rs1, k)
    [] i.kind = "mv_x"    -> Scal(k)
    [] i.kind = "slideup" -> RegByte(m, i.rs2, k - i.off)
    [] i.kind = "slidedown" -> RegByte(m, i.rs2, k + i.off)
    [] i.kind = "load"    -> DataByte(m, i.addr, Offset(i, k))

\* The bytes of rd that a vector instruction writes: the first vl elements; a
\* slide up leaves those below the offset, a slide down writes as many as there
\* are from the offset on.
Written(i) == CASE i.kind \in {"nosel", "store"} -> {}
                [] i.kind = "slideup"   -> i.off .. i.bytes - 1
                [] i.kind = "slidedown" -> 0 .. i.bytes - i.off - 1
                [] OTHER                -> 0 .. i.bytes - 1

\* Byte k of the elements stored goes to Offset(i, k).
StoredAt(m, i, w, l) ==
  LET bytes == IF i.kind = "sw" THEN 0 .. 3 ELSE 0 .. i.bytes - 1
      at    == { k \in bytes : LET a == Plus(i.addr, IF i.kind = "sw" THEN k ELSE Offset(i, k))
                               IN a.word = w /\ a.lane = l }
  IN IF at = {} THEN m[w][l]
     ELSE LET k == CHOOSE k \in at : \A j \in at : j <= k
          IN IF i.kind = "sw" THEN Scalar[k] ELSE RegByte(m, i.rd, k)

Expected(m, i) ==
  [w \in Words |-> [l \in Lanes |->
     CASE i.kind \in {"store", "sw"} -> StoredAt(m, i, w, l)
       [] i.kind \in {"lw", "other", "nosel"} -> m[w][l]
       [] OTHER -> IF InGroup(i.rd, w) /\ RegIndex(i.rd, w, l) \in Written(i)
                   THEN Result(m, i, RegIndex(i.rd, w, l)) ELSE m[w][l]]]

-----------------------------------------------------------------------------
(* Properties.                                                             *)

\* An instruction that leaves ID has written exactly what it promises, from the
\* operands it found: the elements of rd, the bytes stored, nothing behind vl
\* and nothing anywhere else, whichever of its requests had to wait.
ResultCorrect == instr_done => memory = Expected(before, instr)

\* The assertion NoMemResponseWithoutPendingAccess of the core, with vector
\* instructions counted as accesses: an answer on the data bus finds a load, a
\* store or a vector instruction executing in ID.
NoMemResponseWithoutInstruction ==
  in.rvalid => instr_executing /\ (lsu_req_dec \/ vrf_req)

\* dmem_switch hands each answer to the unit whose request it belongs to
\* ("keep track of the previous unit").
AnswerRouted ==
  in.rvalid => (vrf_data_rvalid <=> Head(inflight).unit = "VRF")

\* An instruction starts with the VRF, the LSU and the bus at rest, also when
\* the one before it was a vector instruction whose last write the VRF did not
\* wait for.
CleanStart ==
  instr_first_cycle =>
    vrf_state = "IDLE" /\ ls_fsm_cs = "IDLE" /\ inflight = <<>> /\ curr_state_delay = "none"

\* OBI: a request on the data bus stays, with its address, byte enables and
\* write data, until it is granted, though the VRF and the LSU share the bus.
RequestStable ==
  [][bus.req /\ ~gnt =>
       bus'.req /\ bus'.we = bus.we /\ bus'.word = bus.word /\ bus'.be = bus.be
       /\ (bus.we => bus'.wdata = bus.wdata)]_vars

-----------------------------------------------------------------------------
(* Liveness, under the assumptions of PrefetchBuffer on clock and memory.  *)

FairSpec == /\ Spec /\ WF_clocked(Clock)
            /\ []<>(bus.req => gnt)
            /\ []<>(inflight # <<>> => in.rvalid)

\* Every vector instruction leaves ID.
VectorEnds == []<>(instr_valid_id_q /\ vrf_req => instr_done)
=============================================================================
