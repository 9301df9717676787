------------------------------- MODULE Pipeline -------------------------------
(***************************************************************************)
(* The control of the two-stage pipeline: the IF-ID register and the       *)
(* choice of the next fetch address (rtl/vcve2_if_stage.sv), the FSM and   *)
(* the stalls of the ID stage (rtl/vcve2_id_stage.sv), the controller      *)
(* (rtl/vcve2_controller.sv), the registers that traps save and restore    *)
(* (TrapCsrs) and the clock gate (rtl/vcve2_top.sv).  A step is one cycle  *)
(* of the free-running clock (see PrefetchBuffer).                         *)
(*                                                                         *)
(* External to this module: the instructions that arrive; how long the     *)
(* fetch, the load/store unit, the multiplier and the vector unit take     *)
(* (PrefetchBuffer, ScalarMemory and VectorUnit have them); the interrupt  *)
(* lines, masked with mie, and the debugger.  fetch_enable_i is high.      *)
(***************************************************************************)
CONSTANTS
  Pcs,        \* addresses of instructions
  Succ,       \* the address after each of them
  Boot,       \* boot address
  Entry,      \* addresses of the trap and debug handlers, and of the first
              \* interrupt (IRQ) and NMI (NM) vectors
  Triggers,   \* breakpoints: the value of tdata2 while tdata1.execute is set
  Tw,         \* mstatus.tw
  Instrs,     \* the instructions that may be fetched
  Lines       \* the lines that may be raised, of "irq", "nm", "debug"

VARIABLES
  in,                       \* inputs of the cycle
  instr_valid_id_q, instr,  \* IF-ID register: instr is the decoded instruction
  pc_id,                    \* and its address
  pc_if,                    \* the address of the next instruction to be fetched
  id_fsm_q, branch_set_raw_q, branch_jump_set_done_q,
  ctrl_fsm_cs, nmi_mode_q, debug_mode_q, do_single_step_q,
  enter_debug_mode_prio_q, load_err_q, store_err_q, exc_req_q, illegal_insn_q,
  priv_lvl_q, mstatus_q, mepc_q, mstack_q, dcsr_q, depc_q,
  core_busy_q,
  outstanding,              \* history: an access of the load/store unit is under way
  saved                     \* history: the state an NMI interrupted

ifid == <<instr_valid_id_q, instr, pc_id, pc_if>>
id   == <<id_fsm_q, branch_set_raw_q, branch_jump_set_done_q>>
ctrl == <<ctrl_fsm_cs, nmi_mode_q, debug_mode_q, do_single_step_q,
          enter_debug_mode_prio_q, load_err_q, store_err_q, exc_req_q, illegal_insn_q>>
csrs == <<priv_lvl_q, mstatus_q, mepc_q, mstack_q, dcsr_q, depc_q>>
clocked == <<ifid, id, ctrl, csrs, core_busy_q, outstanding, saved>>
vars == <<in, clocked>>

Kinds == {"op", "muldiv", "load", "store", "vec", "branch", "jump", "csr",
          "ecall", "ebreak", "mret", "dret", "wfi"}

\* The decoder ends with removing the requests of what it finds illegal, which
\* leaves an "op", but neither that of a vector instruction nor the signals of
\* the system instructions.
Illegals == {"op", "vec", "ecall", "ebreak", "mret", "dret", "wfi"}

ASSUME InstrsAssumption ==
  \A i \in Instrs :
    /\ i.kind \in Kinds
    /\ {i.err, i.illegal, i.group, i.fails, i.taken} \subseteq BOOLEAN
    /\ i.illegal => i.kind \in Illegals
    /\ i.group   => i.kind = "vec"
    /\ i.fails   => i.kind \in {"load", "store", "vec"}

\* The operand of a CSR instruction has the fields of the register.  For a
\* register without fields, only the operation that replaces it is there.
CsrOps == {"READ", "WRITE", "SET", "CLEAR"}
Encodings == {"U", "S", "H", "M"}

ASSUME OperandAssumption ==
  \A i \in Instrs :
    /\ i.op \in CsrOps
    /\ i.kind \in {"branch", "jump"} => i.arg \in Pcs
    /\ i.kind = "csr" /\ i.op # "READ" =>
         /\ i.csr \in {"mepc", "dpc"} => i.op = "WRITE" /\ i.arg \in Pcs
         /\ i.csr = "mstatus" =>
              i.arg \in [mie : BOOLEAN, mpie : BOOLEAN, mpp : Encodings]
         /\ i.csr = "dcsr" =>
              i.arg \in [step : BOOLEAN, ebreakm : BOOLEAN, ebreaku : BOOLEAN, prv : Encodings]

ASSUME AddressAssumption == /\ Boot \in Pcs /\ Succ \in [Pcs -> Pcs]
                            /\ Entry \in [{"EXC", "IRQ", "NM", "DBG", "DBG_EXC"} -> Pcs]
                            /\ Triggers \subseteq Pcs
                            /\ Tw \in BOOLEAN

-----------------------------------------------------------------------------
(* ID stage: decoder, FSM, stalls.                                         *)

lsu_req_dec    == instr.kind \in {"load", "store"}
multdiv_en_dec == instr.kind = "muldiv"
branch_in_dec  == instr.kind = "branch"
jump_in_dec    == instr.kind = "jump"
vrf_req        == instr.kind = "vec"
csr_access     == instr.kind = "csr"

instr_fetch_err == instr.err /\ instr_valid_id_q
controller_run  == ctrl_fsm_cs = "DECODE"
instr_executing == instr_valid_id_q /\ ~instr.err /\ controller_run

FirstCycle        == id_fsm_q = "FIRST_CYCLE"
instr_first_cycle == instr_valid_id_q /\ FirstCycle

\* in.done is the completion signal of the unit that executes instr: the
\* LSU's response, the multiplier's result, or vector_done_o (for a vector
\* access that fails: the LSU's error response).
lsu_resp_valid == in.done /\ lsu_req_dec
ex_valid       == multdiv_en_dec => in.done
vector_done    == in.done /\ vrf_req /\ ~instr.fails
lsu_err        == in.done /\ instr.fails
load_err       == lsu_err /\ instr.kind # "store"
store_err      == lsu_err /\ instr.kind = "store"

multicycle_done == IF vrf_req THEN vector_done
                   ELSE IF lsu_req_dec THEN lsu_resp_valid ELSE ex_valid

\* What needs more than the first cycle, beyond loads and stores.
StartsMultiCycle == \/ multdiv_en_dec /\ ~ex_valid
                    \/ branch_in_dec /\ instr.taken
                    \/ jump_in_dec
                    \/ vrf_req

\* mutant: no stall in the first cycle
NoFirstStall == instr_valid_id_q /\ lsu_req_dec /\ ~lsu_resp_valid /\ ~instr_first_cycle
stall_mem   == instr_valid_id_q /\ lsu_req_dec /\ (~lsu_resp_valid \/ instr_first_cycle)
stall_multi == /\ instr_executing
               /\ IF FirstCycle THEN StartsMultiCycle
                  ELSE ~multicycle_done /\ ~lsu_req_dec
                         /\ (multdiv_en_dec \/ branch_in_dec \/ jump_in_dec \/ vrf_req)
stall_id    == stall_mem \/ stall_multi

id_fsm_d == IF FirstCycle
            THEN IF lsu_req_dec \/ StartsMultiCycle THEN "MULTI_CYCLE" ELSE "FIRST_CYCLE"
            ELSE IF multicycle_done THEN "FIRST_CYCLE" ELSE "MULTI_CYCLE"

lsu_req == instr_executing /\ instr_first_cycle /\ lsu_req_dec

branch_set_raw_d == instr_executing /\ FirstCycle /\ branch_in_dec /\ instr.taken
jump_set_raw     == instr_executing /\ FirstCycle /\ jump_in_dec
branch_set       == branch_set_raw_q /\ ~branch_jump_set_done_q
jump_set         == jump_set_raw /\ ~branch_jump_set_done_q

-----------------------------------------------------------------------------
(* Controller: exceptions.                                                 *)

Insn(kind) == instr.kind = kind /\ instr_valid_id_q

illegal_csr_insn == csr_access /\ \/ instr.csr = "none"
                                  \/ instr.csr \in {"dcsr", "dpc"} /\ ~debug_mode_q
                                  \/ priv_lvl_q # "M"

illegal_insn == \/ instr_valid_id_q /\ (instr.illegal \/ illegal_csr_insn)
                \/ vrf_req /\ instr.group

illegal_dret  == Insn("dret") /\ ~debug_mode_q
illegal_umode == priv_lvl_q # "M" /\ (Insn("mret") \/ (Tw /\ Insn("wfi")))

illegal_insn_d == (illegal_insn \/ illegal_dret \/ illegal_umode) /\ ctrl_fsm_cs # "FLUSH"

exc_req_d == /\ Insn("ecall") \/ Insn("ebreak") \/ illegal_insn_d \/ instr_fetch_err
             /\ ctrl_fsm_cs # "FLUSH"

exc_req_lsu == load_err \/ store_err

ebrk_insn_prio == Insn("ebreak") /\ ~instr_fetch_err /\ ~illegal_insn_q

ebreak_into_debug == \/ priv_lvl_q = "M" /\ dcsr_q.ebreakm
                     \/ priv_lvl_q = "U" /\ dcsr_q.ebreaku

-----------------------------------------------------------------------------
(* Controller: interrupts and debug requests.                              *)

\* mutant: the step is held only while the instruction is in ID
StepNotHeld      == instr_valid_id_q /\ ~debug_mode_q /\ dcsr_q.step
do_single_step_d == IF instr_valid_id_q THEN ~debug_mode_q /\ dcsr_q.step
                                        ELSE do_single_step_q

trigger_match           == pc_if \in Triggers
enter_debug_mode_prio_d == (in.debug_req \/ do_single_step_d) /\ ~debug_mode_q
enter_debug_mode        == enter_debug_mode_prio_d \/ (trigger_match /\ ~debug_mode_q)

\* mutant: mstatus.mie masks the NMI as well
MasksNmi   == ~debug_mode_q /\ ~nmi_mode_q /\ mstatus_q.mie /\ (in.nm \/ in.irq)
handle_irq == ~debug_mode_q /\ ~nmi_mode_q /\ (in.nm \/ (in.irq /\ mstatus_q.mie))

-----------------------------------------------------------------------------
(* Controller: the FSM's outputs and its next state.                       *)

\* FLUSH handles an exception, an EBREAK that goes on to DBG_TAKEN_ID, or one
\* of the special instructions.
Excepts   == exc_req_q \/ store_err_q \/ load_err_q
ToDebugId == Excepts /\ ebrk_insn_prio /\ (debug_mode_q \/ ebreak_into_debug)
Returns(kind) == ctrl_fsm_cs = "FLUSH" /\ ~Excepts /\ Insn(kind)

flush_id == \/ ctrl_fsm_cs \in {"WAIT_SLEEP", "SLEEP", "DBG_TAKEN_IF", "DBG_TAKEN_ID"}
            \/ ctrl_fsm_cs = "FLUSH" /\ ~ToDebugId

instr_done == ~stall_id /\ ~flush_id /\ instr_executing
csr_op_en  == csr_access /\ instr_done

csr_pipe_flush == /\ csr_op_en
                  /\ \/ instr.op \in {"WRITE", "SET"} /\ instr.csr = "mstatus"
                     \/ instr.op = "CLEAR" /\ instr.csr \in {"dcsr", "dpc"}

special_req_pc_change  == Insn("mret") \/ Insn("dret") \/ exc_req_d \/ exc_req_lsu
special_req_flush_only == Insn("wfi") \/ (csr_pipe_flush /\ instr_valid_id_q)
special_req            == special_req_pc_change \/ special_req_flush_only

TakesRequest == ctrl_fsm_cs = "DECODE" /\ ~stall_id /\ ~special_req /\ ~instr_valid_id_q

retain_id == ctrl_fsm_cs = "DECODE" /\ special_req

halt_if ==
  \/ ctrl_fsm_cs \in {"WAIT_SLEEP", "SLEEP", "FLUSH"}
  \/ /\ handle_irq \/ enter_debug_mode
     /\ \/ ctrl_fsm_cs = "FIRST_FETCH"
        \/ ctrl_fsm_cs = "DECODE" /\ (stall_id \/ instr_valid_id_q)
        \/ TakesRequest

id_in_ready       == ~stall_id /\ ~halt_if /\ ~retain_id
instr_valid_clear == ~(stall_id \/ retain_id) \/ flush_id

\* mutant: a debug request turns the clock on but does not wake up the FSM
SleepsOn == in.nm \/ in.irq \/ debug_mode_q \/ dcsr_q.step
wake_up == in.nm \/ in.irq \/ in.debug_req \/ debug_mode_q \/ dcsr_q.step

instr_req_o == ctrl_fsm_cs \notin {"RESET", "WAIT_SLEEP", "SLEEP"}
\* mutant: SLEEP leaves it to the lines to turn the clock on
NeverBusy   == ctrl_fsm_cs \notin {"WAIT_SLEEP", "SLEEP"}
ctrl_busy   == ctrl_fsm_cs # "WAIT_SLEEP" /\ (ctrl_fsm_cs = "SLEEP" => wake_up)

\* Where a request leads that is taken between two instructions.
RequestState == IF enter_debug_mode THEN "DBG_TAKEN_IF" ELSE "IRQ_TAKEN"

\* The transition out of FLUSH.
AfterFlush == IF enter_debug_mode_prio_q /\ ~(ebrk_insn_prio /\ ebreak_into_debug)
              THEN "DBG_TAKEN_IF"
              ELSE IF ToDebugId THEN "DBG_TAKEN_ID"
              ELSE IF Returns("wfi") THEN "WAIT_SLEEP"
              ELSE "DECODE"

ctrl_fsm_ns ==
  CASE ctrl_fsm_cs = "RESET"      -> "BOOT_SET"
    [] ctrl_fsm_cs = "BOOT_SET"   -> "FIRST_FETCH"
    [] ctrl_fsm_cs = "WAIT_SLEEP" -> "SLEEP"
    [] ctrl_fsm_cs = "SLEEP"      -> IF wake_up THEN "FIRST_FETCH" ELSE "SLEEP"
    [] ctrl_fsm_cs = "FIRST_FETCH" ->
         IF handle_irq \/ enter_debug_mode THEN RequestState
         ELSE IF id_in_ready THEN "DECODE" ELSE "FIRST_FETCH"
    [] ctrl_fsm_cs = "DECODE" ->
         IF special_req THEN "FLUSH"
         ELSE IF TakesRequest /\ (handle_irq \/ enter_debug_mode) THEN RequestState
         ELSE "DECODE"
    [] ctrl_fsm_cs \in {"IRQ_TAKEN", "DBG_TAKEN_IF", "DBG_TAKEN_ID"} -> "DECODE"
    [] ctrl_fsm_cs = "FLUSH" -> AfterFlush

\* The NMI that IRQ_TAKEN takes, and the debug entry of DBG_TAKEN_ID that
\* saves the state (not when it was an EBREAK in debug mode).
TakesIrq  == ctrl_fsm_cs = "IRQ_TAKEN" /\ handle_irq
TakesNmi  == TakesIrq /\ in.nm
EbreakHalts == ctrl_fsm_cs = "DBG_TAKEN_ID" /\ ebreak_into_debug /\ ~debug_mode_q
Exception == ctrl_fsm_cs = "FLUSH" /\ Excepts /\ ~ToDebugId

pc_set == \/ ctrl_fsm_cs \in {"RESET", "BOOT_SET", "DBG_TAKEN_IF", "DBG_TAKEN_ID"}
          \/ ctrl_fsm_cs = "DECODE" /\ (branch_set \/ jump_set)
          \/ TakesIrq \/ Exception \/ Returns("mret") \/ Returns("dret")

\* pc_mux_o, exc_pc_mux_o and the multiplexers they control.
fetch_addr_n ==
  CASE ctrl_fsm_cs \in {"RESET", "BOOT_SET"}             -> Boot
    [] ctrl_fsm_cs = "DECODE"                            -> instr.arg
    [] ctrl_fsm_cs \in {"DBG_TAKEN_IF", "DBG_TAKEN_ID"}  -> Entry["DBG"]
    [] ctrl_fsm_cs = "IRQ_TAKEN" -> IF in.nm THEN Entry["NM"] ELSE Entry["IRQ"]
    [] Exception -> IF debug_mode_q THEN Entry["DBG_EXC"] ELSE Entry["EXC"]
    [] Returns("mret") -> mepc_q
    [] Returns("dret") -> depc_q

Csr == INSTANCE TrapCsrs WITH
         csr_we_int         <- csr_op_en /\ instr.op # "READ" /\ ~illegal_csr_insn,
         csr_op_i           <- instr.op,
         csr_addr_i         <- instr.csr,
         csr_wdata_i        <- instr.arg,
         csr_save_cause_i   <- \/ TakesIrq \/ Exception \/ EbreakHalts
                               \/ ctrl_fsm_cs = "DBG_TAKEN_IF",
         csr_save_if_i      <- TakesIrq \/ ctrl_fsm_cs = "DBG_TAKEN_IF",
         debug_csr_save_i   <- EbreakHalts \/ ctrl_fsm_cs = "DBG_TAKEN_IF",
         csr_restore_mret_i <- Returns("mret"),
         csr_restore_dret_i <- Returns("dret"),
         nmi_mode_i         <- nmi_mode_q,
         debug_mode_i       <- debug_mode_q,
         pc_if_i            <- pc_if,
         pc_id_i            <- pc_id

-----------------------------------------------------------------------------
(* The registers.                                                          *)

nmi_mode_d == IF TakesNmi THEN TRUE
              ELSE IF Returns("mret") THEN FALSE ELSE nmi_mode_q

debug_mode_d == IF ctrl_fsm_cs \in {"DBG_TAKEN_IF", "DBG_TAKEN_ID"} THEN TRUE
                ELSE IF Returns("dret") THEN FALSE ELSE debug_mode_q

ControllerClock ==
  /\ ctrl_fsm_cs' = ctrl_fsm_ns
  /\ nmi_mode_q' = nmi_mode_d
  /\ debug_mode_q' = debug_mode_d
  /\ do_single_step_q' = do_single_step_d
  /\ enter_debug_mode_prio_q' = enter_debug_mode_prio_d
  /\ load_err_q' = load_err /\ store_err_q' = store_err
  /\ exc_req_q' = exc_req_d /\ illegal_insn_q' = illegal_insn_d

\* mutant: branch_jump_set_done_q outlives the instruction
DoneNotCleared == branch_set_raw_q \/ jump_set_raw \/ branch_jump_set_done_q
branch_jump_set_done_d ==
  (branch_set_raw_q \/ jump_set_raw \/ branch_jump_set_done_q) /\ ~instr_valid_clear

IdClock ==
  /\ id_fsm_q' = IF instr_executing THEN id_fsm_d ELSE id_fsm_q
  /\ branch_set_raw_q' = branch_set_raw_d
  /\ branch_jump_set_done_q' = branch_jump_set_done_d

new_instr == in.fetch_valid /\ id_in_ready

\* mutant: an instruction that arrives with a jump is not squashed
NotSquashed == new_instr \/ (instr_valid_id_q /\ ~instr_valid_clear)
instr_valid_id_d == \/ new_instr /\ ~pc_set
                    \/ instr_valid_id_q /\ ~instr_valid_clear

\* The prefetch buffer follows a jump, and else advances when IF takes an
\* instruction (FetchStream).  Its content is any instruction.
IfIdClock ==
  /\ instr_valid_id_q' = instr_valid_id_d
  /\ IF new_instr THEN instr' \in Instrs /\ pc_id' = pc_if
                  ELSE UNCHANGED <<instr, pc_id>>
  /\ pc_if' = IF pc_set THEN fetch_addr_n
              ELSE IF new_instr THEN Succ[pc_if] ELSE pc_if

\* The access of the instruction in ID, and what the last NMI interrupted as
\* long as neither a trap nor an instruction overwrites where it is kept.
Keeps == ~Csr!trap /\ ~Csr!writes("mstatus") /\ ~Csr!writes("mepc") /\ ~Returns("mret")

History ==
  /\ outstanding' = (lsu_req \/ (outstanding /\ ~lsu_resp_valid))
  /\ saved' = IF TakesNmi THEN {[priv |-> priv_lvl_q, mstatus |-> mstatus_q,
                                 mepc |-> mepc_q, pc |-> pc_if]}
              ELSE IF Keeps THEN saved ELSE {}

-----------------------------------------------------------------------------
(* The clock gate.  core_busy_q is clocked by the free-running clock.      *)
(* lsu_busy, the third term of core_busy_o, is left out: NoAccessAsleep    *)
(* says that it is not needed.                                             *)

core_busy == ctrl_busy \/ in.if_busy
clock_en  == core_busy_q \/ in.debug_req \/ in.irq \/ in.nm

-----------------------------------------------------------------------------
(* The inputs.  One that nothing in the core looks at in a cycle is low in  *)
(* it: fetch_valid while ID takes no instruction, done while nothing is     *)
(* awaited, requests while they are masked, if_busy while ctrl_busy is      *)
(* high.  The prefetch buffer delivers nothing before it has fetched, and   *)
(* becomes busy by fetching only (Quiesces in PrefetchBuffer).             *)

Inputs == [fetch_valid : BOOLEAN, done : BOOLEAN, irq : BOOLEAN, nm : BOOLEAN,
           debug_req : BOOLEAN, if_busy : BOOLEAN]

Maskable == ~debug_mode_q /\ ~nmi_mode_q

InputRules ==
  /\ in.fetch_valid => id_in_ready /\ ctrl_fsm_cs \notin {"RESET", "BOOT_SET"}
  /\ in.done => \/ outstanding
                \/ instr_executing /\ multdiv_en_dec
                \/ instr_executing /\ vrf_req /\ ~FirstCycle
  /\ in.nm  => "nm" \in Lines /\ (Maskable \/ ctrl_fsm_cs = "SLEEP")
  /\ in.irq => "irq" \in Lines /\ ((Maskable /\ mstatus_q.mie) \/ ctrl_fsm_cs = "SLEEP")
  /\ in.debug_req => "debug" \in Lines /\ (~debug_mode_q \/ ctrl_fsm_cs = "SLEEP")
  /\ in.if_busy => ctrl_fsm_cs \in {"WAIT_SLEEP", "SLEEP"}

Drive == /\ \E i \in Inputs : in' = i
         /\ in'.if_busy => in.if_busy \/ instr_req_o

-----------------------------------------------------------------------------
ResetInstr == [kind |-> "op", err |-> FALSE, illegal |-> TRUE, group |-> FALSE,
               fails |-> FALSE, taken |-> FALSE, op |-> "READ", csr |-> "none",
               arg |-> Boot]

Init ==
  /\ instr_valid_id_q = FALSE /\ instr = ResetInstr /\ pc_id = Boot
  /\ pc_if = Boot
  /\ id_fsm_q = "FIRST_CYCLE"
  /\ branch_set_raw_q = FALSE /\ branch_jump_set_done_q = FALSE
  /\ ctrl_fsm_cs = "RESET"
  /\ nmi_mode_q = FALSE /\ debug_mode_q = FALSE
  /\ do_single_step_q = FALSE /\ enter_debug_mode_prio_q = FALSE
  /\ load_err_q = FALSE /\ store_err_q = FALSE
  /\ exc_req_q = FALSE /\ illegal_insn_q = FALSE
  /\ Csr!CsrInit(Boot)
  /\ core_busy_q = FALSE
  /\ outstanding = FALSE /\ saved = {}
  /\ in \in Inputs /\ InputRules

CoreClock == /\ ControllerClock
             /\ IdClock
             /\ IfIdClock
             /\ Csr!CsrClock
             /\ History

Clock == /\ IF clock_en THEN CoreClock
            ELSE UNCHANGED <<ifid, id, ctrl, csrs, outstanding, saved>>
         /\ core_busy_q' = core_busy
         /\ Drive
         /\ InputRules'

Spec == Init /\ [][Clock]_vars
-----------------------------------------------------------------------------
(* Properties.                                                             *)

States == {"RESET", "BOOT_SET", "WAIT_SLEEP", "SLEEP", "FIRST_FETCH", "DECODE",
           "FLUSH", "IRQ_TAKEN", "DBG_TAKEN_IF", "DBG_TAKEN_ID"}

Snapshots == [priv : Csr!Levels, mstatus : Csr!Mstatus, mepc : Pcs, pc : Pcs]

\* The types of the registers and inputs.
TypeOK ==
  /\ in \in Inputs
  /\ instr_valid_id_q \in BOOLEAN /\ instr \in Instrs \cup {ResetInstr}
  /\ pc_id \in Pcs /\ pc_if \in Pcs
  /\ id_fsm_q \in {"FIRST_CYCLE", "MULTI_CYCLE"}
  /\ branch_set_raw_q \in BOOLEAN /\ branch_jump_set_done_q \in BOOLEAN
  /\ ctrl_fsm_cs \in States
  /\ nmi_mode_q \in BOOLEAN /\ debug_mode_q \in BOOLEAN
  /\ do_single_step_q \in BOOLEAN /\ enter_debug_mode_prio_q \in BOOLEAN
  /\ load_err_q \in BOOLEAN /\ store_err_q \in BOOLEAN
  /\ exc_req_q \in BOOLEAN /\ illegal_insn_q \in BOOLEAN
  /\ Csr!CsrTypeOK
  /\ core_busy_q \in BOOLEAN /\ outstanding \in BOOLEAN
  /\ saved \in SUBSET Snapshots

\* An instruction that enters ID finds the FSM and the branch flops as an
\* instruction before it should leave them: MULTI_CYCLE belongs to an
\* instruction that "requires multiple cycles to complete" and that is still
\* in ID (comment on id_fsm_q), and the flops to a branch or a jump.
AtRest ==
  /\ id_fsm_q = "MULTI_CYCLE" =>
       instr_valid_id_q /\ ~instr_fetch_err
         /\ instr.kind \in {"load", "store", "muldiv", "vec", "branch", "jump"}
  /\ branch_set_raw_q =>
       instr_valid_id_q /\ branch_in_dec /\ ~FirstCycle /\ ~branch_jump_set_done_q
  /\ branch_jump_set_done_q => instr_valid_id_q /\ jump_in_dec /\ ~FirstCycle

\* While a load or store is under way it stays in ID with the controller in
\* DECODE and the clock running: neither a trap, nor a debug request, nor
\* sleep, comes between the request and its response.
NoAccessAsleep ==
  outstanding => /\ instr_valid_id_q /\ lsu_req_dec /\ ~FirstCycle
                 /\ ctrl_fsm_cs = "DECODE" /\ clock_en

\* An NMI can be taken in the middle of a handler that has interrupts
\* disabled, and MRET then gives back everything the NMI overwrote: the
\* level, mstatus, mepc and the address, so that the handler's own return
\* still works (mstack).
NmiTransparent ==
  [][Returns("mret") /\ clock_en => \A s \in saved :
       /\ nmi_mode_q
       /\ priv_lvl_q' = s.priv /\ mstatus_q' = s.mstatus
       /\ mepc_q' = s.mepc /\ pc_if' = s.pc]_vars

\* The pipeline implements the sequential machine of Hart.  The instruction
\* in ID is the one under way, until it leaves; a CSR instruction that
\* flushes the pipeline has done its work when FLUSH begins, and an EBREAK
\* that enters debug mode stays under way in DBG_TAKEN_ID.
NoInstr == [kind |-> "none"]

Pending == \/ instr_valid_id_q
                /\ ~(ctrl_fsm_cs = "FLUSH" /\ csr_access /\ ~Excepts)
           \/ ctrl_fsm_cs = "DBG_TAKEN_ID"

Sequential == INSTANCE Hart WITH
  pc      <- IF Pending THEN pc_id ELSE pc_if,
  ir      <- IF Pending THEN instr ELSE NoInstr,
  priv    <- priv_lvl_q,
  mstatus <- mstatus_q,
  mepc    <- mepc_q,
  mstack  <- mstack_q,
  nmi     <- nmi_mode_q,
  debug   <- debug_mode_q,
  dcsr    <- dcsr_q,
  dpc     <- depc_q,
  stepped <- do_single_step_q /\ ~debug_mode_q /\ ~Pending

ImplementsHart == Sequential!Spec
-----------------------------------------------------------------------------
(* Liveness.  External: the prefetch buffer delivers while it is asked to   *)
(* (FetchProgress) and becomes idle when it is not (Quiesces), and every    *)
(* unit completes what it started (AccessEnds, VectorEnds).                 *)

FairSpec ==
  /\ Spec /\ WF_clocked(Clock)
  /\ []<>(instr_req_o /\ id_in_ready /\ ~pc_set => in.fetch_valid)
  /\ []<>(outstanding \/ (instr_executing /\ (multdiv_en_dec \/ vrf_req)) => in.done)
  /\ []<>(~in.if_busy)

\* A debug request that stays is honoured, whatever the program does and
\* although the core may be asleep when it comes: the core enters debug mode.
DebugRequestTaken == <>[](~debug_mode_q => in.debug_req) => []<>debug_mode_q

\* So is an NMI, unless the core is in debug mode or handles one.
NmiTaken == <>[](Maskable => in.nm) => []<>~Maskable

\* Sleep ends when there is a reason to wake up, also when the core has
\* gone to sleep in debug mode, where WFI is a NOP and no line needs to be
\* raised to turn the clock on.
WakesUp ==
  []<>(ctrl_fsm_cs = "SLEEP" =>
         ~(in.nm \/ in.irq \/ in.debug_req \/ debug_mode_q \/ dcsr_q.step))
=============================================================================
