---------------------------- MODULE PipelineProofs ----------------------------
(***************************************************************************)
(* Proofs about the control of the pipeline, for every set of addresses    *)
(* and instructions, every placement of handlers and breakpoints, and any  *)
(* behaviour of the fetch, the units, the lines and the debugger.          *)
(***************************************************************************)
EXTENDS Pipeline, TLAPS

USE InstrsAssumption, OperandAssumption, AddressAssumption

-----------------------------------------------------------------------------
(* Type correctness.                                                       *)

\* What is in the IF-ID register is an instruction, or the reset value.
LEMMA InstrFacts ==
  ASSUME instr \in Instrs \cup {ResetInstr}
  PROVE  /\ instr.kind \in Kinds
         /\ instr.err \in BOOLEAN /\ instr.illegal \in BOOLEAN /\ instr.group \in BOOLEAN
         /\ instr.fails \in BOOLEAN /\ instr.taken \in BOOLEAN
         /\ instr.op \in CsrOps
         /\ instr.illegal => instr.kind \in Illegals
         /\ instr.group   => instr.kind = "vec"
         /\ instr.fails   => instr.kind \in {"load", "store", "vec"}
         /\ instr.kind \in {"branch", "jump"} => instr.arg \in Pcs
<1>1. CASE instr \in Instrs
  BY <1>1
<1>2. CASE instr = ResetInstr
  BY <1>2 DEF ResetInstr, Kinds, Illegals, CsrOps
<1>. QED  BY <1>1, <1>2

LEMMA InitType == Init => TypeOK
<1>. SUFFICES ASSUME Init PROVE TypeOK
  OBVIOUS
<1>1. Csr!CsrTypeOK
  BY DEF Init, Csr!CsrInit, Csr!CsrTypeOK, Csr!Levels, Csr!Mstatus, Csr!Mstack, Csr!Dcsr
<1>. QED  BY <1>1 DEF Init, TypeOK, States, Inputs

LEMMA ControlType ==
  ASSUME TypeOK, ControllerClock
  PROVE  /\ ctrl_fsm_cs' \in States
         /\ nmi_mode_q' \in BOOLEAN /\ debug_mode_q' \in BOOLEAN
         /\ do_single_step_q' \in BOOLEAN /\ enter_debug_mode_prio_q' \in BOOLEAN
         /\ load_err_q' \in BOOLEAN /\ store_err_q' \in BOOLEAN
         /\ exc_req_q' \in BOOLEAN /\ illegal_insn_q' \in BOOLEAN
<1>0. /\ instr.err \in BOOLEAN /\ instr.fails \in BOOLEAN
      /\ in.debug_req \in BOOLEAN /\ in.done \in BOOLEAN
      /\ dcsr_q.step \in BOOLEAN
  BY InstrFacts DEF TypeOK, Inputs, Csr!CsrTypeOK, Csr!Dcsr
<1>1. ctrl_fsm_cs' \in States
  BY DEF TypeOK, States, ControllerClock, ctrl_fsm_ns, AfterFlush, RequestState
<1>2. nmi_mode_q' \in BOOLEAN /\ debug_mode_q' \in BOOLEAN
  BY DEF TypeOK, ControllerClock, nmi_mode_d, debug_mode_d
<1>3. do_single_step_q' \in BOOLEAN
  BY <1>0 DEF TypeOK, ControllerClock, do_single_step_d
<1>4. enter_debug_mode_prio_q' \in BOOLEAN
  BY <1>0, Zenon DEF TypeOK, ControllerClock, enter_debug_mode_prio_d
<1>5. load_err_q' \in BOOLEAN /\ store_err_q' \in BOOLEAN
  BY <1>0, Zenon DEF ControllerClock, load_err, store_err, lsu_err
<1>6. exc_req_q' \in BOOLEAN
  BY Zenon DEF ControllerClock, exc_req_d
<1>7. illegal_insn_q' \in BOOLEAN
  BY Zenon DEF ControllerClock, illegal_insn_d
<1>. QED  BY <1>1, <1>2, <1>3, <1>4, <1>5, <1>6, <1>7

LEMMA IdType ==
  ASSUME TypeOK, IdClock
  PROVE  /\ id_fsm_q' \in {"FIRST_CYCLE", "MULTI_CYCLE"}
         /\ branch_set_raw_q' \in BOOLEAN /\ branch_jump_set_done_q' \in BOOLEAN
<1>1. id_fsm_q' \in {"FIRST_CYCLE", "MULTI_CYCLE"}
  BY DEF TypeOK, IdClock, id_fsm_d
<1>2. branch_set_raw_q' \in BOOLEAN
  BY InstrFacts, Zenon DEF TypeOK, IdClock, branch_set_raw_d
<1>3. branch_jump_set_done_q' \in BOOLEAN
  BY Zenon DEF IdClock, branch_jump_set_done_d
<1>. QED  BY <1>1, <1>2, <1>3

\* The flop of a branch is set for a branch only: a taken branch stalls.
BranchFlop == branch_set_raw_q => branch_in_dec

LEMMA BranchFlopStep ==
  ASSUME TypeOK, BranchFlop, IdClock, IfIdClock
  PROVE  BranchFlop'
<1>. SUFFICES ASSUME branch_set_raw_d PROVE branch_in_dec'
  BY DEF BranchFlop, IdClock
<1>1. branch_in_dec /\ stall_id
  BY DEF branch_set_raw_d, stall_id, stall_multi, StartsMultiCycle
<1>2. instr' = instr
  BY <1>1 DEF IfIdClock, new_instr, id_in_ready
<1>. QED  BY <1>1, <1>2 DEF branch_in_dec

LEMMA FetchType ==
  ASSUME TypeOK, BranchFlop, IfIdClock
  PROVE  /\ instr_valid_id_q' \in BOOLEAN /\ instr' \in Instrs \cup {ResetInstr}
         /\ pc_id' \in Pcs /\ pc_if' \in Pcs
<1>1. instr_valid_id_q' \in BOOLEAN
  BY Zenon DEF IfIdClock, instr_valid_id_d
<1>2. instr' \in Instrs \cup {ResetInstr} /\ pc_id' \in Pcs
  BY DEF TypeOK, IfIdClock
<1>3. ASSUME pc_set PROVE fetch_addr_n \in Pcs
  <2>0. mepc_q \in Pcs /\ depc_q \in Pcs
    BY DEF TypeOK, Csr!CsrTypeOK
  <2>1. CASE ctrl_fsm_cs \in {"RESET", "BOOT_SET"}
    BY <2>1 DEF fetch_addr_n, Exception, Returns
  <2>2. CASE ctrl_fsm_cs = "DECODE"
    <3>1. branch_set \/ jump_set
      BY <1>3, <2>2 DEF pc_set, TakesIrq, Exception, Returns
    <3>2. instr.kind \in {"branch", "jump"}
      BY <3>1 DEF branch_set, jump_set, jump_set_raw, BranchFlop, branch_in_dec, jump_in_dec
    <3>3. instr.arg \in Pcs
      BY <3>2, InstrFacts DEF TypeOK
    <3>. QED  BY <2>2, <3>3 DEF fetch_addr_n, Exception, Returns
  <2>3. CASE ctrl_fsm_cs \in {"DBG_TAKEN_IF", "DBG_TAKEN_ID"}
    BY <2>3 DEF fetch_addr_n, Exception, Returns
  <2>4. CASE ctrl_fsm_cs = "IRQ_TAKEN"
    BY <2>4 DEF fetch_addr_n, Exception, Returns
  <2>5. CASE ctrl_fsm_cs = "FLUSH"
    <3>1. Exception \/ Returns("mret") \/ Returns("dret")
      BY <1>3, <2>5 DEF pc_set, TakesIrq
    <3>2. CASE Exception
      BY <2>5, <3>2 DEF fetch_addr_n, Exception, Returns
    <3>3. CASE Returns("mret") /\ ~Exception
      BY <2>0, <2>5, <3>3 DEF fetch_addr_n, Returns, Insn
    <3>4. CASE Returns("dret") /\ ~Exception
      BY <2>0, <2>5, <3>4 DEF fetch_addr_n, Returns, Insn
    <3>. QED  BY <3>1, <3>2, <3>3, <3>4
  <2>. QED  BY <1>3, <2>1, <2>2, <2>3, <2>4, <2>5 DEF pc_set, TakesIrq, Exception, Returns
<1>4. pc_if' \in Pcs
  BY <1>3 DEF TypeOK, IfIdClock
<1>. QED  BY <1>1, <1>2, <1>4

\* A level that is written is one of those the core has.
LEMMA LevelType ==
  ASSUME NEW old, NEW w
  PROVE  Csr!WrittenLevel(old, w) \in Csr!Levels
BY DEF Csr!WrittenLevel, Csr!Levels

LEMMA BitType ==
  ASSUME NEW old \in BOOLEAN, NEW w \in BOOLEAN, instr.op \in CsrOps, instr.op # "READ"
  PROVE  Csr!Written(old, w) \in BOOLEAN
<1>1. CASE instr.op = "WRITE"
  BY <1>1 DEF Csr!Written
<1>2. CASE instr.op = "SET"
  <2>1. Csr!Written(old, w) <=> old \/ w
    BY <1>2 DEF Csr!Written
  <2>. QED  BY <1>2, <2>1 DEF Csr!Written
<1>3. CASE instr.op = "CLEAR"
  BY <1>3 DEF Csr!Written
<1>. QED  BY <1>1, <1>2, <1>3 DEF CsrOps

\* What an instruction writes has the fields of the register.
LEMMA WriteFacts ==
  ASSUME TypeOK
  PROVE  /\ instr.op \in CsrOps
         /\ \A csr : Csr!writes(csr) => instr.op # "READ"
         /\ Csr!writes("mepc") \/ Csr!writes("dpc") => instr.arg \in Pcs
         /\ Csr!writes("mstatus") => instr.arg.mie \in BOOLEAN /\ instr.arg.mpie \in BOOLEAN
         /\ Csr!writes("dcsr") => /\ instr.arg.step \in BOOLEAN
                                  /\ instr.arg.ebreakm \in BOOLEAN
                                  /\ instr.arg.ebreaku \in BOOLEAN
<1>1. CASE instr \in Instrs
  BY <1>1 DEF Csr!writes, csr_op_en, csr_access
<1>2. CASE instr = ResetInstr
  BY <1>2 DEF ResetInstr, CsrOps, Csr!writes, csr_op_en, csr_access
<1>. QED  BY <1>1, <1>2 DEF TypeOK

LEMMA CsrType ==
  ASSUME TypeOK, Csr!CsrClock
  PROVE  Csr!CsrTypeOK'
<1>0. Csr!CsrTypeOK /\ pc_if \in Pcs /\ pc_id \in Pcs
  BY DEF TypeOK
<1>1. priv_lvl_q' \in Csr!Levels
  BY <1>0 DEF Csr!CsrClock, Csr!CsrTypeOK, Csr!priv_lvl_d, Csr!Levels, Csr!Dcsr, Csr!Mstatus
<1>2. mstatus_q' \in Csr!Mstatus
  BY <1>0, WriteFacts, LevelType, BitType
     DEF Csr!CsrClock, Csr!CsrTypeOK, Csr!mstatus_d, Csr!Levels, Csr!Mstatus, Csr!Mstack
<1>3. mepc_q' \in Pcs /\ depc_q' \in Pcs
  BY <1>0, WriteFacts
     DEF Csr!CsrClock, Csr!CsrTypeOK, Csr!mepc_d, Csr!depc_d, Csr!exception_pc, Csr!Mstack
<1>4. mstack_q' \in Csr!Mstack
  BY <1>0 DEF Csr!CsrClock, Csr!CsrTypeOK, Csr!mstack_d, Csr!Mstack, Csr!Mstatus
<1>5. dcsr_q' \in Csr!Dcsr
  BY <1>0, WriteFacts, LevelType, BitType
     DEF Csr!CsrClock, Csr!CsrTypeOK, Csr!dcsr_d, Csr!Dcsr
<1>. QED  BY <1>1, <1>2, <1>3, <1>4, <1>5 DEF Csr!CsrTypeOK

LEMMA HistoryType ==
  ASSUME TypeOK, History
  PROVE  outstanding' \in BOOLEAN /\ saved' \in SUBSET Snapshots
<1>1. outstanding' \in BOOLEAN
  BY Zenon DEF History
<1>2. [priv |-> priv_lvl_q, mstatus |-> mstatus_q, mepc |-> mepc_q, pc |-> pc_if]
        \in Snapshots
  BY DEF TypeOK, Csr!CsrTypeOK, Snapshots
<1>. QED  BY <1>1, <1>2 DEF TypeOK, History

TypeInv == TypeOK /\ BranchFlop

LEMMA TypeStep ==
  ASSUME TypeInv, [Clock]_vars
  PROVE  TypeInv'
<1>1. CASE Clock
  <2>1. in' \in Inputs /\ core_busy_q' \in BOOLEAN
    <3>1. core_busy \in BOOLEAN
      BY Zenon DEF core_busy
    <3>. QED  BY <1>1, <3>1 DEF Clock, Drive
  <2>2. CASE CoreClock
    <3>. USE DEF CoreClock
    <3>1. BranchFlop'
      BY <2>2, BranchFlopStep DEF TypeInv
    <3>2. TypeOK'
      BY <2>1, <2>2, ControlType, IdType, FetchType, CsrType, HistoryType
         DEF TypeInv, TypeOK
    <3>. QED  BY <3>1, <3>2 DEF TypeInv
  <2>3. CASE UNCHANGED <<ifid, id, ctrl, csrs, outstanding, saved>>
    BY <2>1, <2>3 DEF TypeInv, TypeOK, BranchFlop, branch_in_dec, ifid, id, ctrl, csrs,
                      Csr!CsrTypeOK
  <2>. QED  BY <1>1, <2>2, <2>3 DEF Clock
<1>2. CASE UNCHANGED vars
  BY <1>2 DEF TypeInv, TypeOK, BranchFlop, branch_in_dec, vars, clocked, ifid, id, ctrl,
              csrs, Csr!CsrTypeOK
<1>. QED  BY <1>1, <1>2

\* The registers keep their types, whatever is fetched and written: no level
\* but those the core has, and no address but those of instructions.
THEOREM TypeCorrect == Spec => []TypeOK
<1>1. Init => TypeInv
  BY InitType DEF TypeInv, BranchFlop, Init
<1>2. TypeInv /\ [Clock]_vars => TypeInv'
  BY TypeStep
<1>3. TypeInv => TypeOK
  BY DEF TypeInv
<1>. QED  BY <1>1, <1>2, <1>3, PTL DEF Spec

-----------------------------------------------------------------------------
(* What an instruction of several cycles finds.                            *)

MultiKinds == {"load", "store", "muldiv", "vec", "branch", "jump"}

\* No vector instruction is illegal or has an access that fails.
VecSupported ==
  \A i \in Instrs : i.kind = "vec" => ~i.illegal /\ ~i.group /\ ~i.fails

\* An instruction of several cycles runs in ID and raises no exception now.
Undisturbed == /\ instr_valid_id_q /\ ~instr.err /\ ctrl_fsm_cs = "DECODE"
               /\ instr.kind \in MultiKinds
               /\ ~instr.illegal /\ ~instr.group
               /\ ~lsu_err

LEMMA NoSpecialRequest ==
  ASSUME Undisturbed
  PROVE  ~special_req
<1>. USE DEF Undisturbed, MultiKinds
<1>1. \A kind \in {"ecall", "ebreak", "mret", "dret", "wfi"} : ~Insn(kind)
  BY DEF Insn
<1>2. ~illegal_insn_d
  BY <1>1 DEF illegal_insn_d, illegal_insn, illegal_dret, illegal_umode, illegal_csr_insn,
              csr_access
<1>3. ~exc_req_d /\ ~exc_req_lsu
  BY <1>1, <1>2 DEF exc_req_d, exc_req_lsu, load_err, store_err, instr_fetch_err
<1>4. ~csr_pipe_flush
  BY DEF csr_pipe_flush, csr_op_en, csr_access
<1>. QED  BY <1>1, <1>3, <1>4
          DEF special_req, special_req_pc_change, special_req_flush_only

\* While it stalls, it stays, and so does the controller.
LEMMA Stays ==
  ASSUME Undisturbed, stall_id, CoreClock
  PROVE  /\ instr' = instr /\ instr_valid_id_q' /\ ctrl_fsm_cs' = "DECODE"
         /\ ~instr_valid_clear
<1>1. ~special_req
  BY NoSpecialRequest
<1>2. ctrl_fsm_cs' = "DECODE"
  BY <1>1 DEF Undisturbed, CoreClock, ControllerClock, ctrl_fsm_ns, TakesRequest
<1>3. ~flush_id
  BY DEF Undisturbed, flush_id
<1>4. ~instr_valid_clear /\ ~new_instr
  BY <1>3 DEF instr_valid_clear, new_instr, id_in_ready
<1>5. instr' = instr
  BY <1>4 DEF CoreClock, IfIdClock
<1>6. instr_valid_id_q'
  BY <1>4 DEF Undisturbed, CoreClock, IfIdClock, instr_valid_id_d
<1>. QED  BY <1>2, <1>4, <1>5, <1>6

-----------------------------------------------------------------------------
(* Nothing comes between an access and its response.                       *)

\* The clock has been running since before DECODE was reached.
DecodeRuns == ctrl_fsm_cs = "DECODE" => core_busy_q

\* The access belongs to a load or store that runs.
AccessRuns == outstanding => /\ instr_valid_id_q /\ lsu_req_dec /\ ~instr.err
                             /\ ~FirstCycle /\ ctrl_fsm_cs = "DECODE"

\* No unit completes what it has not been given.
DoneRule == in.done => outstanding \/ multdiv_en_dec \/ vrf_req

AccessInv == TypeInv /\ DoneRule /\ DecodeRuns /\ AccessRuns

LEMMA AccessStep ==
  ASSUME AccessInv, CoreClock
  PROVE  AccessRuns'
<1>. SUFFICES ASSUME outstanding'
              PROVE  /\ instr_valid_id_q' /\ lsu_req_dec' /\ ~instr'.err
                     /\ id_fsm_q' = "MULTI_CYCLE" /\ ctrl_fsm_cs' = "DECODE"
  BY DEF AccessRuns, FirstCycle
<1>1. lsu_req \/ (outstanding /\ ~lsu_resp_valid)
  BY DEF CoreClock, History
<1>2. /\ instr_valid_id_q /\ lsu_req_dec /\ ~instr.err /\ ctrl_fsm_cs = "DECODE"
      /\ FirstCycle => ~outstanding
  BY <1>1 DEF AccessInv, AccessRuns, lsu_req, instr_executing, controller_run
<1>3. ~in.done
  BY <1>1, <1>2 DEF AccessInv, AccessRuns, DoneRule, lsu_req, lsu_resp_valid, lsu_req_dec,
                    multdiv_en_dec, vrf_req, instr_first_cycle
<1>4. ~instr.illegal /\ ~instr.group
  BY <1>2, InstrFacts DEF AccessInv, TypeInv, TypeOK, lsu_req_dec, Illegals
<1>5. Undisturbed
  BY <1>2, <1>3, <1>4 DEF Undisturbed, MultiKinds, lsu_req_dec, lsu_err
<1>6. stall_id
  BY <1>2, <1>3 DEF stall_id, stall_mem, lsu_resp_valid
<1>7. instr' = instr /\ instr_valid_id_q' /\ ctrl_fsm_cs' = "DECODE"
  BY <1>5, <1>6, Stays
<1>8. id_fsm_q' = "MULTI_CYCLE"
  BY <1>2, <1>3 DEF CoreClock, IdClock, instr_executing, controller_run, id_fsm_d,
                    multicycle_done, lsu_resp_valid, vrf_req, lsu_req_dec
<1>. QED  BY <1>2, <1>7, <1>8 DEF lsu_req_dec

LEMMA DecodeStep ==
  ASSUME AccessInv, Clock
  PROVE  DecodeRuns'
<1>. SUFFICES ASSUME ctrl_fsm_cs' = "DECODE" PROVE core_busy_q'
  BY DEF DecodeRuns
<1>1. ctrl_fsm_cs \notin {"WAIT_SLEEP", "SLEEP"}
  BY DEF Clock, CoreClock, ControllerClock, ctrl_fsm_ns, ctrl
<1>. QED  BY <1>1 DEF Clock, core_busy, ctrl_busy

LEMMA AccessInvStep ==
  ASSUME AccessInv, [Clock]_vars
  PROVE  AccessInv'
<1>1. TypeInv'
  BY TypeStep DEF AccessInv
<1>2. CASE Clock
  <2>1. DoneRule'
    BY <1>2 DEF Clock, InputRules, DoneRule
  <2>2. DecodeRuns'
    BY <1>2, DecodeStep
  <2>3. AccessRuns'
    <3>1. CASE CoreClock
      BY <3>1, AccessStep
    <3>2. CASE UNCHANGED <<ifid, id, ctrl, csrs, outstanding, saved>>
      BY <3>2 DEF AccessInv, AccessRuns, lsu_req_dec, FirstCycle, ifid, id, ctrl
    <3>. QED  BY <1>2, <3>1, <3>2 DEF Clock
  <2>. QED  BY <1>1, <2>1, <2>2, <2>3 DEF AccessInv
<1>3. CASE UNCHANGED vars
  <2>1. DoneRule'
    BY <1>3 DEF AccessInv, DoneRule, multdiv_en_dec, vrf_req, vars, clocked, ifid
  <2>2. DecodeRuns' /\ AccessRuns'
    BY <1>3 DEF AccessInv, DecodeRuns, AccessRuns, lsu_req_dec, FirstCycle, vars, clocked,
                ifid, id, ctrl
  <2>. QED  BY <1>1, <2>1, <2>2 DEF AccessInv
<1>. QED  BY <1>2, <1>3

LEMMA AccessInvariance == Spec => []AccessInv
<1>1. Init => AccessInv
  BY InitType DEF Init, AccessInv, TypeInv, BranchFlop, DoneRule, InputRules, DecodeRuns, AccessRuns
<1>2. AccessInv /\ [Clock]_vars => AccessInv'
  BY AccessInvStep
<1>. QED  BY <1>1, <1>2, PTL DEF Spec

\* Between the request of a load or store and its response the controller
\* stays in DECODE and the clock runs, whatever traps, debug requests and WFI
\* are about.
THEOREM AccessCompletes == Spec => []NoAccessAsleep
<1>1. AccessInv => NoAccessAsleep
  BY DEF AccessInv, DecodeRuns, AccessRuns, NoAccessAsleep, clock_en
<1>. QED  BY <1>1, AccessInvariance, PTL

-----------------------------------------------------------------------------
(* No instruction finds what another one left in ID.                       *)

\* The second cycle of an instruction is in DECODE.
MultiRuns == id_fsm_q = "MULTI_CYCLE" => ctrl_fsm_cs = "DECODE"

RestInv == AccessInv /\ AtRest /\ MultiRuns

\* An instruction that is in ID in its second cycle, or that begins one, and
\* is not done, has nothing that would end it otherwise.
LEMMA MultiUndisturbed ==
  ASSUME VecSupported, RestInv, CoreClock, id_fsm_q' = "MULTI_CYCLE"
  PROVE  Undisturbed /\ stall_id
<1>1. /\ instr_executing
      /\ id_fsm_d = "MULTI_CYCLE"
      /\ instr.kind \in MultiKinds
  <2>1. instr_executing
    BY DEF CoreClock, IdClock, RestInv, MultiRuns, AtRest, instr_executing, controller_run,
           instr_fetch_err, AccessInv, TypeInv, TypeOK
  <2>2. id_fsm_d = "MULTI_CYCLE"
    BY <2>1 DEF CoreClock, IdClock
  <2>3. instr.kind \in MultiKinds
    BY <2>2 DEF id_fsm_d, RestInv, AtRest, AccessInv, TypeInv, TypeOK, FirstCycle, MultiKinds,
                StartsMultiCycle, lsu_req_dec, multdiv_en_dec, branch_in_dec, jump_in_dec,
                vrf_req
  <2>. QED  BY <2>1, <2>2, <2>3
<1>2. instr_valid_id_q /\ ~instr.err /\ ctrl_fsm_cs = "DECODE"
  BY <1>1 DEF instr_executing, controller_run
<1>3. instr \in Instrs \cup {ResetInstr}
  BY DEF RestInv, AccessInv, TypeInv, TypeOK
<1>4. instr.kind = "vec" => ~instr.illegal /\ ~instr.group /\ ~instr.fails
  BY <1>3 DEF VecSupported, ResetInstr
<1>5. ~instr.illegal /\ ~instr.group
  BY <1>1, <1>3, <1>4, InstrFacts DEF MultiKinds, Illegals
<1>6. ~lsu_err /\ stall_id
  <2>1. CASE lsu_req_dec
    <3>1. ~in.done
      <4>1. CASE FirstCycle
        BY <2>1, <4>1 DEF RestInv, AccessInv, DoneRule, AccessRuns, lsu_req_dec,
                          multdiv_en_dec, vrf_req
      <4>2. CASE ~FirstCycle
        BY <1>1, <2>1, <4>2 DEF id_fsm_d, multicycle_done, lsu_resp_valid, lsu_req_dec, vrf_req
      <4>. QED  BY <4>1, <4>2
    <3>. QED  BY <1>2, <2>1, <3>1 DEF lsu_err, stall_id, stall_mem, lsu_resp_valid
  <2>2. CASE ~lsu_req_dec
    <3>1. ~lsu_err
      BY <1>3, <1>4, <2>2, InstrFacts DEF lsu_err, lsu_req_dec
    <3>2. CASE FirstCycle
      BY <1>1, <2>2, <3>1, <3>2 DEF id_fsm_d, stall_id, stall_multi
    <3>3. CASE ~FirstCycle
      BY <1>1, <2>2, <3>1, <3>3
         DEF id_fsm_d, stall_id, stall_multi, MultiKinds, lsu_req_dec, multdiv_en_dec,
             branch_in_dec, jump_in_dec, vrf_req
    <3>. QED  BY <3>2, <3>3
  <2>. QED  BY <2>1, <2>2
<1>. QED  BY <1>1, <1>2, <1>5, <1>6 DEF Undisturbed

\* A branch or a jump is done in its second cycle.
LEMMA JumpLeaves ==
  ASSUME RestInv, ~FirstCycle, branch_in_dec \/ jump_in_dec, CoreClock
  PROVE  instr_valid_clear
<1>1. /\ instr_valid_id_q /\ ~instr.err /\ ctrl_fsm_cs = "DECODE"
  BY DEF RestInv, AtRest, MultiRuns, FirstCycle, instr_fetch_err, AccessInv, TypeInv, TypeOK
<1>2. instr.kind \in {"branch", "jump"}
  BY DEF branch_in_dec, jump_in_dec
<1>3. instr \in Instrs \cup {ResetInstr}
  BY DEF RestInv, AccessInv, TypeInv, TypeOK
<1>4. Undisturbed
  BY <1>1, <1>2, <1>3, InstrFacts DEF Undisturbed, MultiKinds, Illegals, lsu_err
<1>5. ~special_req
  BY <1>4, NoSpecialRequest
<1>6. ~stall_id
  BY <1>2 DEF stall_id, stall_mem, stall_multi, lsu_req_dec, multicycle_done, ex_valid,
              multdiv_en_dec, vrf_req
<1>. QED  BY <1>5, <1>6 DEF instr_valid_clear, retain_id

LEMMA RestCore ==
  ASSUME VecSupported, RestInv, CoreClock
  PROVE  AtRest' /\ MultiRuns'
<1>1. ASSUME id_fsm_q' = "MULTI_CYCLE"
      PROVE  /\ instr' = instr /\ instr_valid_id_q' /\ ctrl_fsm_cs' = "DECODE"
             /\ ~instr.err /\ instr.kind \in MultiKinds
             /\ ~instr_valid_clear
  BY <1>1, MultiUndisturbed, Stays DEF Undisturbed
<1>2. ASSUME branch_set_raw_d \/ jump_set_raw
      PROVE  id_fsm_q' = "MULTI_CYCLE"
  BY <1>2 DEF branch_set_raw_d, jump_set_raw, CoreClock, IdClock, id_fsm_d, StartsMultiCycle
<1>3. ASSUME branch_set_raw_q'
      PROVE  /\ instr_valid_id_q' /\ branch_in_dec' /\ ~FirstCycle'
             /\ ~branch_jump_set_done_q'
  <2>1. branch_set_raw_d
    BY <1>3 DEF CoreClock, IdClock
  <2>2. FirstCycle /\ branch_in_dec
    BY <2>1 DEF branch_set_raw_d
  <2>3. ~branch_set_raw_q /\ ~branch_jump_set_done_q /\ ~jump_set_raw
    BY <2>2 DEF RestInv, AtRest, jump_set_raw, branch_in_dec, jump_in_dec
  <2>4. ~branch_jump_set_done_q'
    BY <2>3 DEF CoreClock, IdClock, branch_jump_set_done_d
  <2>. QED  BY <1>1, <1>2, <2>1, <2>2, <2>4 DEF branch_in_dec, FirstCycle
<1>4. ASSUME branch_jump_set_done_q'
      PROVE  instr_valid_id_q' /\ jump_in_dec' /\ ~FirstCycle'
  <2>1. (branch_set_raw_q \/ jump_set_raw \/ branch_jump_set_done_q) /\ ~instr_valid_clear
    BY <1>4 DEF CoreClock, IdClock, branch_jump_set_done_d
  <2>2. ~branch_set_raw_q /\ ~branch_jump_set_done_q
    BY <2>1, JumpLeaves DEF RestInv, AtRest
  <2>3. jump_set_raw
    BY <2>1, <2>2
  <2>4. jump_in_dec
    BY <2>3 DEF jump_set_raw
  <2>. QED  BY <1>1, <1>2, <2>3, <2>4 DEF jump_in_dec, FirstCycle
<1>5. MultiRuns'
  BY <1>1 DEF MultiRuns
<1>. QED  BY <1>1, <1>3, <1>4, <1>5 DEF AtRest, instr_fetch_err, MultiKinds

LEMMA RestStep ==
  ASSUME VecSupported, RestInv, [Clock]_vars
  PROVE  RestInv'
<1>1. AccessInv'
  BY AccessInvStep DEF RestInv
<1>2. CASE CoreClock
  BY <1>1, <1>2, RestCore DEF RestInv
<1>3. CASE UNCHANGED <<ifid, id, ctrl, csrs, outstanding, saved>>
  BY <1>1, <1>3 DEF RestInv, AtRest, MultiRuns, instr_fetch_err, FirstCycle, branch_in_dec,
                    jump_in_dec, ifid, id, ctrl
<1>4. [Clock]_vars => CoreClock \/ UNCHANGED <<ifid, id, ctrl, csrs, outstanding, saved>>
  BY DEF Clock, vars, clocked
<1>. QED  BY <1>2, <1>3, <1>4

\* As long as no vector instruction is illegal or fails, the FSM and the flops
\* of the ID stage are at rest when an instruction enters ID.
THEOREM EntersAtRest ==
  ASSUME VecSupported
  PROVE  Spec => []AtRest
<1>1. Init => RestInv
  BY InitType DEF Init, RestInv, AtRest, MultiRuns, AccessInv, TypeInv, BranchFlop, DoneRule,
                  InputRules, DecodeRuns, AccessRuns
<1>2. RestInv /\ [Clock]_vars => RestInv'
  BY RestStep
<1>3. RestInv => AtRest
  BY DEF RestInv
<1>. QED  BY <1>1, <1>2, <1>3, PTL DEF Spec

-----------------------------------------------------------------------------
(* An NMI leaves no trace.                                                 *)

\* What an NMI interrupted is in mstatus, mepc and the stack as long as its
\* handler keeps it.
NmiSaved ==
  \A s \in saved :
    /\ nmi_mode_q
    /\ mepc_q = s.pc
    /\ mstatus_q = [mie |-> FALSE, mpie |-> s.mstatus.mie, mpp |-> s.priv]
    /\ mstack_q = [mpie |-> s.mstatus.mpie, mpp |-> s.mstatus.mpp, epc |-> s.mepc]

NmiInv == TypeInv /\ NmiSaved

\* Nothing is saved when something is restored.
LEMMA RestoreSavesNothing ==
  ASSUME Returns("mret")
  PROVE  /\ ~Csr!trap /\ ~Csr!debug_entry /\ Csr!mret
         /\ ~TakesNmi
BY DEF Returns, Insn, Csr!trap, Csr!debug_entry, Csr!mret, TakesNmi, TakesIrq, Exception,
       EbreakHalts

\* An NMI is a trap, and saves the state of the interrupted program.
LEMMA NmiTraps ==
  ASSUME TypeOK, TakesNmi
  PROVE  Csr!trap /\ Csr!exception_pc = pc_if
BY DEF TakesNmi, TakesIrq, handle_irq, Csr!trap, Csr!exception_pc, EbreakHalts

LEMMA NmiCore ==
  ASSUME NmiInv, CoreClock
  PROVE  NmiSaved'
<1>1. CASE TakesNmi
  <2>1. Csr!trap /\ Csr!exception_pc = pc_if
    BY <1>1, NmiTraps DEF NmiInv, TypeInv
  <2>2. nmi_mode_q' /\ saved' = {[priv |-> priv_lvl_q, mstatus |-> mstatus_q,
                                  mepc |-> mepc_q, pc |-> pc_if]}
    BY <1>1 DEF CoreClock, ControllerClock, nmi_mode_d, History
  <2>3. /\ mepc_q' = pc_if
        /\ mstatus_q' = [mie |-> FALSE, mpie |-> mstatus_q.mie, mpp |-> priv_lvl_q]
        /\ mstack_q' = [mpie |-> mstatus_q.mpie, mpp |-> mstatus_q.mpp, epc |-> mepc_q]
    BY <2>1 DEF CoreClock, Csr!CsrClock, Csr!mepc_d, Csr!mstatus_d, Csr!mstack_d
  <2>4. \A s \in saved' : s.priv = priv_lvl_q /\ s.mstatus = mstatus_q /\ s.mepc = mepc_q
                             /\ s.pc = pc_if
    BY <2>2
  <2>. QED  BY <2>2, <2>3, <2>4, Zenon DEF NmiSaved
<1>2. CASE ~TakesNmi /\ Keeps
  <2>1. saved' = saved
    BY <1>2 DEF CoreClock, History
  <2>2. nmi_mode_q => nmi_mode_q'
    BY <1>2 DEF CoreClock, ControllerClock, nmi_mode_d, Keeps
  <2>3. ~Csr!mret
    BY <1>2 DEF Keeps, Csr!mret
  <2>4. mepc_q' = mepc_q /\ mstatus_q' = mstatus_q /\ mstack_q' = mstack_q
    BY <1>2, <2>3 DEF CoreClock, Csr!CsrClock, Csr!mepc_d, Csr!mstatus_d, Csr!mstack_d, Keeps
  <2>. QED  BY <2>1, <2>2, <2>4 DEF NmiInv, NmiSaved
<1>3. CASE ~TakesNmi /\ ~Keeps
  BY <1>3 DEF CoreClock, History, NmiSaved
<1>. QED  BY <1>1, <1>2, <1>3

LEMMA NmiStep ==
  ASSUME NmiInv, [Clock]_vars
  PROVE  NmiInv'
<1>1. TypeInv'
  BY TypeStep DEF NmiInv
<1>2. CASE CoreClock
  BY <1>1, <1>2, NmiCore DEF NmiInv
<1>3. CASE UNCHANGED <<ifid, id, ctrl, csrs, outstanding, saved>>
  BY <1>1, <1>3 DEF NmiInv, NmiSaved, ctrl, csrs
<1>4. [Clock]_vars => CoreClock \/ UNCHANGED <<ifid, id, ctrl, csrs, outstanding, saved>>
  BY DEF Clock, vars, clocked
<1>. QED  BY <1>2, <1>3, <1>4

LEMMA NmiReturn ==
  ASSUME NmiInv, Clock, Returns("mret"), clock_en, NEW s \in saved
  PROVE  /\ nmi_mode_q
         /\ priv_lvl_q' = s.priv /\ mstatus_q' = s.mstatus
         /\ mepc_q' = s.mepc /\ pc_if' = s.pc
<1>1. CoreClock
  BY DEF Clock
<1>2. Csr!mret /\ ~Csr!trap
  BY RestoreSavesNothing
<1>3. s.mstatus \in Csr!Mstatus
  BY DEF NmiInv, TypeInv, TypeOK, Snapshots
<1>0. /\ nmi_mode_q
      /\ mepc_q = s.pc
      /\ mstatus_q = [mie |-> FALSE, mpie |-> s.mstatus.mie, mpp |-> s.priv]
      /\ mstack_q = [mpie |-> s.mstatus.mpie, mpp |-> s.mstatus.mpp, epc |-> s.mepc]
  BY Zenon DEF NmiInv, NmiSaved
<1>4. mepc_q' = s.mepc /\ priv_lvl_q' = s.priv
  <2>1. mepc_q' = mstack_q.epc
    BY <1>0, <1>1, <1>2, Zenon DEF CoreClock, Csr!CsrClock, Csr!mepc_d
  <2>2. priv_lvl_q' = mstatus_q.mpp
    BY <1>1, <1>2 DEF CoreClock, Csr!CsrClock, Csr!priv_lvl_d, Csr!mret, Csr!dret
  <2>. QED  BY <1>0, <2>1, <2>2
<1>5. mstatus_q' = s.mstatus
  <2>1. mstatus_q' = [mie |-> mstatus_q.mpie, mpie |-> mstack_q.mpie, mpp |-> mstack_q.mpp]
    BY <1>0, <1>1, <1>2, Zenon DEF CoreClock, Csr!CsrClock, Csr!mstatus_d
  <2>2. mstatus_q.mpie = s.mstatus.mie /\ mstack_q.mpie = s.mstatus.mpie
          /\ mstack_q.mpp = s.mstatus.mpp
    BY <1>0
  <2>3. mstatus_q' = [mie |-> s.mstatus.mie, mpie |-> s.mstatus.mpie, mpp |-> s.mstatus.mpp]
    BY <2>1, <2>2, Zenon
  <2>. QED  BY <1>3, <2>3 DEF Csr!Mstatus
<1>6. pc_if' = s.pc
  BY <1>0, <1>1 DEF CoreClock, IfIdClock, pc_set, fetch_addr_n, Returns, Exception, Insn
<1>. QED  BY <1>0, <1>4, <1>5, <1>6

\* An NMI may interrupt a handler that could not be interrupted otherwise;
\* MRET gives back everything it overwrote.
THEOREM NmiIsTransparent == Spec => NmiTransparent
<1>1. Init => NmiInv
  BY InitType DEF Init, NmiInv, TypeInv, BranchFlop, NmiSaved
<1>2. NmiInv /\ [Clock]_vars => NmiInv'
  BY NmiStep
<1>3. NmiInv /\ [Clock]_vars =>
        [Returns("mret") /\ clock_en => \A s \in saved :
           /\ nmi_mode_q
           /\ priv_lvl_q' = s.priv /\ mstatus_q' = s.mstatus
           /\ mepc_q' = s.mepc /\ pc_if' = s.pc]_vars
  BY NmiReturn
<1>. QED  BY <1>1, <1>2, <1>3, PTL DEF Spec, NmiTransparent

-----------------------------------------------------------------------------
(* The pipeline implements the sequential machine: its invariant.          *)

\* What the controller finds at fault in the instruction in ID.
faulty == illegal_insn \/ illegal_dret \/ illegal_umode

\* FLUSH handles what the cycle before it found, and the single step that
\* may be over is remembered.
FlushCause ==
  /\ illegal_insn_q <=> faulty
  /\ exc_req_q <=> Insn("ecall") \/ Insn("ebreak") \/ faulty \/ instr_fetch_err
  /\ load_err_q \/ store_err_q => instr.kind \in {"load", "store"} /\ instr.fails
  /\ Excepts \/ instr.kind \in {"mret", "dret", "wfi", "csr"}
  /\ do_single_step_q <=> ~debug_mode_q /\ dcsr_q.step
  /\ enter_debug_mode_prio_q => ~debug_mode_q

\* Where an instruction is in ID.
Occupied ==
  /\ instr_valid_id_q => instr \in Instrs /\ ctrl_fsm_cs \in {"DECODE", "FLUSH"}
  /\ ctrl_fsm_cs = "FLUSH" => instr_valid_id_q /\ FlushCause
  /\ ctrl_fsm_cs = "DBG_TAKEN_ID" =>
       /\ instr \in Instrs /\ instr.kind = "ebreak"
       /\ ~instr.err /\ ~instr.illegal /\ ~instr.group
       /\ debug_mode_q \/ ebreak_into_debug

\* The next instruction is the one after that in ID, or the target of the
\* jump that ID executes; the target of a branch is still to be set.
NextPc ==
  /\ instr_valid_id_q =>
       pc_if = IF jump_in_dec /\ ~FirstCycle THEN instr.arg ELSE Succ[pc_id]
  /\ ~FirstCycle /\ branch_in_dec => instr.taken /\ branch_set_raw_q
  /\ ~FirstCycle /\ jump_in_dec => branch_jump_set_done_q
  /\ ctrl_fsm_cs \in {"RESET", "BOOT_SET"} => pc_if = Boot

\* No interrupt is taken where debug mode would have to come first.
Requested ==
  /\ ctrl_fsm_cs = "IRQ_TAKEN" =>
       ~debug_mode_q /\ ~do_single_step_q /\ pc_if \notin Triggers
  /\ ctrl_fsm_cs = "DBG_TAKEN_IF" => ~debug_mode_q

\* Nothing arrives before the first fetch, and nothing is done for nobody.
InputFacts == /\ in.fetch_valid => ctrl_fsm_cs \notin {"RESET", "BOOT_SET"}
              /\ in.done => outstanding \/ instr_valid_id_q

HartInv == RestInv /\ InputFacts /\ Occupied /\ NextPc /\ Requested

\* What the registers hold.
LEMMA HartFacts ==
  ASSUME HartInv
  PROVE  /\ RestInv /\ AtRest /\ MultiRuns /\ AccessRuns /\ TypeOK
         /\ instr \in Instrs \cup {ResetInstr}
         /\ ctrl_fsm_cs \in States /\ id_fsm_q \in {"FIRST_CYCLE", "MULTI_CYCLE"}
         /\ instr_valid_id_q \in BOOLEAN /\ debug_mode_q \in BOOLEAN /\ nmi_mode_q \in BOOLEAN
         /\ do_single_step_q \in BOOLEAN
         /\ pc_if \in Pcs /\ pc_id \in Pcs
BY DEF HartInv, RestInv, AccessInv, TypeInv, TypeOK

\* A vector instruction that is supported raises no exception of its own.
LEMMA VecFacts ==
  ASSUME VecSupported, instr \in Instrs \cup {ResetInstr}
  PROVE  ~instr.group /\ (instr.fails => instr.kind \in {"load", "store"})
<1>1. CASE instr \in Instrs
  BY <1>1 DEF VecSupported
<1>2. CASE instr = ResetInstr
  BY <1>2 DEF ResetInstr
<1>. QED  BY <1>1, <1>2

\* Between instructions nothing stalls, and nothing is special or jumps.
LEMMA Empty ==
  ASSUME VecSupported, HartInv, ~instr_valid_id_q
  PROVE  /\ ~special_req /\ ~stall_id /\ ~branch_set /\ ~jump_set /\ ~instr_done /\ ~csr_op_en
         /\ FirstCycle
         /\ ~load_err /\ ~store_err
<1>. USE HartFacts
<1>1. ~stall_id /\ ~instr_done /\ ~csr_op_en /\ ~instr_executing
  BY DEF stall_id, stall_mem, stall_multi, instr_executing, instr_done, csr_op_en
<1>2. FirstCycle
  BY DEF AtRest, FirstCycle
<1>3. ~branch_set /\ ~jump_set
  BY <1>1 DEF AtRest, branch_set, jump_set, jump_set_raw
<1>4. ~in.done
  BY DEF HartInv, InputFacts, AccessRuns
<1>5. ~load_err /\ ~store_err
  BY <1>4 DEF load_err, store_err, lsu_err
<1>6. \A kind : ~Insn(kind)
  BY DEF Insn
<1>7. ~exc_req_d
  BY <1>6, VecFacts DEF exc_req_d, illegal_insn_d, illegal_insn, illegal_dret, illegal_umode,
                        instr_fetch_err
<1>8. ~special_req
  BY <1>5, <1>6, <1>7 DEF special_req, special_req_pc_change, special_req_flush_only,
                          exc_req_lsu
<1>. QED  BY <1>1, <1>2, <1>3, <1>5, <1>8

\* An instruction that enters ID finds no debug request due before it.
LEMMA Enters ==
  ASSUME VecSupported, HartInv, new_instr, ~pc_set
  PROVE  /\ ~(do_single_step_d /\ ~debug_mode_q)
         /\ pc_if \in Triggers => debug_mode_q
         /\ ctrl_fsm_ns = "DECODE"
         /\ instr_valid_clear
<1>. USE HartFacts
<1>1. ~stall_id /\ ~halt_if /\ ~retain_id
  BY DEF new_instr, id_in_ready
<1>2. ctrl_fsm_cs \in {"FIRST_FETCH", "DECODE", "IRQ_TAKEN"}
  BY <1>1 DEF halt_if, pc_set, new_instr, HartInv, InputFacts, States
<1>3. CASE ctrl_fsm_cs = "FIRST_FETCH"
  BY <1>1, <1>3 DEF halt_if, enter_debug_mode, enter_debug_mode_prio_d, trigger_match,
                    ctrl_fsm_ns, id_in_ready, instr_valid_clear
<1>4. CASE ctrl_fsm_cs = "DECODE"
  <2>1. ~special_req
    BY <1>1, <1>4 DEF retain_id
  <2>2. ~handle_irq /\ ~enter_debug_mode
    BY <1>1, <1>4, <2>1 DEF halt_if, TakesRequest
  <2>. QED  BY <1>1, <1>4, <2>1, <2>2 DEF enter_debug_mode, enter_debug_mode_prio_d,
                   trigger_match, ctrl_fsm_ns, instr_valid_clear
<1>5. CASE ctrl_fsm_cs = "IRQ_TAKEN"
  <2>1. ~instr_valid_id_q
    BY <1>5 DEF HartInv, Occupied
  <2>. QED  BY <1>1, <1>5, <2>1 DEF HartInv, Requested, do_single_step_d, ctrl_fsm_ns,
                   instr_valid_clear
<1>. QED  BY <1>2, <1>3, <1>4, <1>5

\* Without a trap, a return or a write the registers of TrapCsrs stay.
LEMMA CsrsKept ==
  ASSUME CoreClock, ~TakesIrq, ~Exception, ~EbreakHalts, ctrl_fsm_cs # "DBG_TAKEN_IF",
         ~Returns("mret"), ~Returns("dret"), ~csr_op_en \/ instr.op = "READ" \/ illegal_csr_insn
  PROVE  UNCHANGED csrs
<1>1. ~Csr!trap /\ ~Csr!debug_entry /\ ~Csr!mret /\ ~Csr!dret
  BY DEF Csr!trap, Csr!debug_entry, Csr!mret, Csr!dret
<1>2. \A csr : ~Csr!writes(csr)
  BY DEF Csr!writes
<1>3. priv_lvl_q' = priv_lvl_q
  BY <1>1 DEF CoreClock, Csr!CsrClock, Csr!priv_lvl_d
<1>4. mstatus_q' = mstatus_q /\ mstack_q' = mstack_q /\ mepc_q' = mepc_q
  BY <1>1, <1>2 DEF CoreClock, Csr!CsrClock, Csr!mstatus_d, Csr!mstack_d, Csr!mepc_d
<1>5. dcsr_q' = dcsr_q /\ depc_q' = depc_q
  BY <1>1, <1>2 DEF CoreClock, Csr!CsrClock, Csr!dcsr_d, Csr!depc_d
<1>. QED  BY <1>3, <1>4, <1>5 DEF csrs

\* Where no request, exception or return is handled, the modes stay too.
LEMMA ModesKept ==
  ASSUME CoreClock, ctrl_fsm_cs \notin {"FLUSH", "DBG_TAKEN_IF", "DBG_TAKEN_ID"}, ~TakesIrq
  PROVE  /\ nmi_mode_q' = nmi_mode_q /\ debug_mode_q' = debug_mode_q
         /\ ~csr_op_en \/ instr.op = "READ" \/ illegal_csr_insn => UNCHANGED csrs
         /\ pc_set => ctrl_fsm_cs \in {"RESET", "BOOT_SET"}
                        \/ (ctrl_fsm_cs = "DECODE" /\ (branch_set \/ jump_set))
<1>1. ~Exception /\ ~EbreakHalts /\ ~Returns("mret") /\ ~Returns("dret") /\ ~TakesNmi
  BY DEF Exception, EbreakHalts, Returns, TakesNmi
<1>2. nmi_mode_q' = nmi_mode_q /\ debug_mode_q' = debug_mode_q
  BY <1>1 DEF CoreClock, ControllerClock, nmi_mode_d, debug_mode_d
<1>3. pc_set => ctrl_fsm_cs \in {"RESET", "BOOT_SET"}
                        \/ (ctrl_fsm_cs = "DECODE" /\ (branch_set \/ jump_set))
  BY <1>1 DEF pc_set
<1>. QED  BY <1>1, <1>2, <1>3, CsrsKept

\* An exception or a special instruction is kept for FLUSH: it is not a jump,
\* and only a CSR instruction may have had an effect.
LEMMA Retained ==
  ASSUME VecSupported, HartInv, ctrl_fsm_cs = "DECODE", special_req, CoreClock
  PROVE  /\ instr_valid_id_q /\ instr_valid_id_q' /\ instr' = instr /\ pc_id' = pc_id
         /\ pc_if' = pc_if /\ pc_if = Succ[pc_id] /\ instr \in Instrs
         /\ ctrl_fsm_cs' = "FLUSH"
         /\ nmi_mode_q' = nmi_mode_q /\ debug_mode_q' = debug_mode_q
<1>. USE HartFacts
<1>1. instr_valid_id_q /\ instr \in Instrs
  BY Empty DEF HartInv, Occupied
<1>2. retain_id /\ ~flush_id /\ ~instr_valid_clear /\ ~new_instr
  BY DEF retain_id, flush_id, instr_valid_clear, new_instr, id_in_ready
<1>3. instr_valid_id_q' /\ instr' = instr /\ pc_id' = pc_id
  BY <1>1, <1>2 DEF CoreClock, IfIdClock, instr_valid_id_d
<1>4. ctrl_fsm_cs' = "FLUSH"
  BY DEF CoreClock, ControllerClock, ctrl_fsm_ns
<1>5. ~Undisturbed
  BY NoSpecialRequest
<1>6. /\ instr.kind \in {"branch", "jump"} => instr.err
      /\ instr.kind \in {"branch", "jump"} => FirstCycle
  <2>1. instr.kind \in {"branch", "jump"} => ~instr.illegal /\ ~instr.group /\ ~instr.fails
    BY InstrFacts DEF Illegals
  <2>2. instr.kind \in {"branch", "jump"} => instr.err
    BY <1>1, <1>5, <2>1, InstrFacts DEF Undisturbed, MultiKinds, lsu_err
  <2>. QED  BY <1>1, <2>2, InstrFacts DEF AtRest, instr_fetch_err, FirstCycle
<1>7. ~branch_set /\ ~jump_set
  <2>1. CASE instr.kind \in {"branch", "jump"}
    BY <1>6, <2>1, InstrFacts
       DEF AtRest, branch_set, jump_set, jump_set_raw, instr_executing, FirstCycle
  <2>2. CASE instr.kind \notin {"branch", "jump"}
    BY <2>2 DEF AtRest, branch_set, jump_set, jump_set_raw, branch_in_dec, jump_in_dec
  <2>. QED  BY <2>1, <2>2
<1>8. nmi_mode_q' = nmi_mode_q /\ debug_mode_q' = debug_mode_q /\ ~pc_set
  BY <1>7, ModesKept DEF TakesIrq
<1>9. pc_if' = pc_if
  BY <1>2, <1>8 DEF CoreClock, IfIdClock
<1>10. pc_if = Succ[pc_id]
  BY <1>1, <1>6 DEF HartInv, NextPc, jump_in_dec
<1>. QED  BY <1>1, <1>3, <1>4, <1>8, <1>9, <1>10

\* In ID an instruction stays as long as it stalls.
LEMMA Stalled ==
  ASSUME VecSupported, HartInv, ctrl_fsm_cs = "DECODE", ~special_req, stall_id, CoreClock
  PROVE  /\ instr_valid_id_q /\ instr_valid_id_q' /\ instr' = instr /\ pc_id' = pc_id
         /\ instr \in Instrs /\ ctrl_fsm_cs' = "DECODE" /\ ~new_instr /\ ~instr_valid_clear
         /\ nmi_mode_q' = nmi_mode_q /\ debug_mode_q' = debug_mode_q
         /\ UNCHANGED csrs
<1>. USE HartFacts
<1>1. instr_valid_id_q /\ instr \in Instrs
  BY Empty DEF HartInv, Occupied
<1>2. ~flush_id /\ ~instr_valid_clear /\ ~new_instr /\ ~csr_op_en
  BY DEF flush_id, instr_valid_clear, new_instr, id_in_ready, csr_op_en, instr_done
<1>3. instr_valid_id_q' /\ instr' = instr /\ pc_id' = pc_id
  BY <1>1, <1>2 DEF CoreClock, IfIdClock, instr_valid_id_d
<1>4. ctrl_fsm_cs' = "DECODE"
  BY <1>1 DEF CoreClock, ControllerClock, ctrl_fsm_ns, TakesRequest
<1>. QED  BY <1>1, <1>2, <1>3, <1>4, ModesKept DEF TakesIrq

\* What ends without an exception: it runs, is legal, and does not fail.
LEMMA Done ==
  ASSUME VecSupported, HartInv, ctrl_fsm_cs = "DECODE", ~special_req, ~stall_id,
         instr_valid_id_q
  PROVE  /\ instr \in Instrs /\ ~instr.err /\ ~faulty /\ instr_done /\ instr_valid_clear
         /\ instr.kind \in {"op", "muldiv", "load", "store", "vec", "branch", "jump", "csr"}
         /\ ~instr.fails
<1>. USE HartFacts
<1>1. instr \in Instrs
  BY DEF HartInv, Occupied
<1>2. ~exc_req_d /\ ~exc_req_lsu /\ \A kind \in {"mret", "dret", "wfi"} : ~Insn(kind)
  BY DEF special_req, special_req_pc_change, special_req_flush_only
<1>3. ~instr.err /\ ~faulty /\ \A kind \in {"ecall", "ebreak"} : ~Insn(kind)
  BY <1>2 DEF exc_req_d, illegal_insn_d, faulty, instr_fetch_err
<1>4. instr_executing /\ instr_done /\ instr_valid_clear
  BY <1>3 DEF instr_executing, controller_run, instr_done, flush_id, instr_valid_clear,
              retain_id
<1>5. instr.kind \in {"op", "muldiv", "load", "store", "vec", "branch", "jump", "csr"}
  BY <1>2, <1>3, InstrFacts DEF Insn, Kinds
<1>6. ~instr.fails
  <2>1. ~lsu_err
    BY <1>2, InstrFacts DEF exc_req_lsu, load_err, store_err
  <2>2. instr.kind \in {"load", "store"} => in.done
    BY DEF stall_id, stall_mem, lsu_req_dec, lsu_resp_valid
  <2>. QED  BY <2>1, <2>2, VecFacts DEF lsu_err
<1>. QED  BY <1>1, <1>3, <1>4, <1>5, <1>6

\* When it ends, IF goes on at its successor, or jumps.
LEMMA DonePc ==
  ASSUME VecSupported, HartInv, ctrl_fsm_cs = "DECODE", ~special_req, ~stall_id,
         instr_valid_id_q
  PROVE  /\ pc_set => /\ instr.kind = "branch" /\ instr.taken
                      /\ fetch_addr_n = instr.arg
         /\ ~pc_set => pc_if = IF instr.kind = "jump" \/ (instr.kind = "branch" /\ instr.taken)
                               THEN instr.arg ELSE Succ[pc_id]
<1>. USE HartFacts
<1>1. instr_executing /\ ~stall_multi
  BY Done DEF instr_done, stall_id
<1>2. pc_set <=> branch_set \/ jump_set
  BY DEF pc_set, TakesIrq, Exception, Returns
<1>3. CASE instr.kind = "jump"
  <2>1. ~FirstCycle
    BY <1>1, <1>3 DEF stall_multi, StartsMultiCycle, jump_in_dec
  <2>2. ~branch_set /\ ~jump_set
    BY <1>3, <2>1 DEF branch_set, jump_set, jump_set_raw, AtRest, branch_in_dec
  <2>3. pc_if = instr.arg
    BY <1>3, <2>1 DEF HartInv, NextPc, jump_in_dec
  <2>. QED  BY <1>2, <1>3, <2>2, <2>3
<1>4. CASE instr.kind = "branch" /\ instr.taken
  <2>1. ~FirstCycle
    BY <1>1, <1>4 DEF stall_multi, StartsMultiCycle, branch_in_dec
  <2>2. branch_set
    BY <1>4, <2>1 DEF HartInv, NextPc, branch_in_dec, branch_set, AtRest
  <2>3. fetch_addr_n = instr.arg
    BY DEF fetch_addr_n, Exception, Returns
  <2>. QED  BY <1>2, <1>4, <2>2, <2>3
<1>5. CASE instr.kind # "jump" /\ ~(instr.kind = "branch" /\ instr.taken)
  <2>1. ~(~FirstCycle /\ branch_in_dec) /\ ~jump_in_dec
    BY <1>5 DEF HartInv, NextPc, branch_in_dec, jump_in_dec
  <2>2. ~branch_set /\ ~jump_set
    BY <2>1 DEF branch_set, jump_set, jump_set_raw, AtRest
  <2>3. pc_if = Succ[pc_id]
    BY <2>1 DEF HartInv, NextPc
  <2>. QED  BY <1>2, <1>5, <2>2, <2>3
<1>. QED  BY <1>3, <1>4, <1>5

\* In FLUSH the instruction leaves, unless it is an EBREAK on its way to
\* DBG_TAKEN_ID.  Nothing stalls, and nothing else begins.
LEMMA Flushes ==
  ASSUME VecSupported, HartInv, ctrl_fsm_cs = "FLUSH", CoreClock
  PROVE  /\ instr_valid_id_q /\ instr \in Instrs /\ FirstCycle /\ FlushCause
         /\ ~instr_valid_id_q' /\ instr' = instr /\ pc_id' = pc_id
         /\ pc_if = Succ[pc_id]
         /\ ~pc_set => pc_if' = pc_if
         /\ ctrl_fsm_cs' = AfterFlush
         /\ ~csr_op_en /\ ~TakesIrq /\ ~EbreakHalts
<1>. USE HartFacts
<1>1. instr_valid_id_q /\ instr \in Instrs /\ FlushCause
  BY DEF HartInv, Occupied
<1>2. FirstCycle
  BY DEF MultiRuns, FirstCycle
<1>3. ~new_instr
  BY DEF new_instr, id_in_ready, halt_if
<1>4. instr_valid_clear
  <2>1. CASE ToDebugId
    BY <2>1 DEF ToDebugId, ebrk_insn_prio, Insn, instr_valid_clear, stall_id, stall_mem,
                stall_multi, lsu_req_dec, instr_executing, controller_run, retain_id
  <2>2. CASE ~ToDebugId
    BY <2>2 DEF instr_valid_clear, flush_id
  <2>. QED  BY <2>1, <2>2
<1>5. ~instr_valid_id_q' /\ instr' = instr /\ pc_id' = pc_id
  BY <1>3, <1>4 DEF CoreClock, IfIdClock, instr_valid_id_d
<1>6. pc_if = Succ[pc_id] /\ (~pc_set => pc_if' = pc_if)
  BY <1>1, <1>2, <1>3 DEF HartInv, NextPc, CoreClock, IfIdClock
<1>7. ctrl_fsm_cs' = AfterFlush
  BY DEF CoreClock, ControllerClock, ctrl_fsm_ns
<1>8. ~csr_op_en /\ ~TakesIrq /\ ~EbreakHalts
  BY DEF csr_op_en, instr_done, instr_executing, controller_run, TakesIrq, EbreakHalts
<1>. QED  BY <1>1, <1>2, <1>5, <1>6, <1>7, <1>8

\* The EBREAK that goes on to DBG_TAKEN_ID has no exception but its own.
LEMMA GoesOn ==
  ASSUME VecSupported, HartInv, ctrl_fsm_cs = "FLUSH", ToDebugId, CoreClock
  PROVE  /\ ctrl_fsm_cs' = "DBG_TAKEN_ID"
         /\ instr.kind = "ebreak" /\ ~instr.err /\ ~instr.illegal /\ ~instr.group
         /\ debug_mode_q \/ ebreak_into_debug
         /\ debug_mode_q' = debug_mode_q /\ nmi_mode_q' = nmi_mode_q /\ UNCHANGED csrs
         /\ ~pc_set
<1>. USE HartFacts
<1>1. Excepts /\ Insn("ebreak") /\ ~instr_fetch_err /\ ~illegal_insn_q /\ ebrk_insn_prio
        /\ (debug_mode_q \/ ebreak_into_debug)
  BY DEF ToDebugId, ebrk_insn_prio
<1>2. ctrl_fsm_cs' = "DBG_TAKEN_ID"
  BY <1>1, Flushes DEF AfterFlush, FlushCause
<1>3. ~instr.err /\ ~instr.illegal /\ ~instr.group
  BY <1>1, Flushes DEF FlushCause, faulty, illegal_insn, instr_fetch_err, vrf_req, Insn
<1>4. ~Exception /\ \A kind : ~Returns(kind)
  BY <1>1 DEF Exception, Returns
<1>5. ~TakesIrq /\ ~EbreakHalts /\ ~TakesNmi /\ ~csr_op_en
  BY Flushes DEF TakesNmi
<1>6. UNCHANGED csrs
  BY <1>4, <1>5, CsrsKept
<1>7. debug_mode_q' = debug_mode_q /\ nmi_mode_q' = nmi_mode_q
  BY <1>4, <1>5 DEF CoreClock, ControllerClock, debug_mode_d, nmi_mode_d
<1>8. ~pc_set
  BY <1>4, <1>5 DEF pc_set
<1>. QED  BY <1>1, <1>2, <1>3, <1>6, <1>7, <1>8 DEF Insn

LEMMA FlushCauseStep ==
  ASSUME VecSupported, HartInv, CoreClock, ctrl_fsm_cs = "DECODE", special_req
  PROVE  FlushCause'
<1>. USE HartFacts
<1>0. /\ instr_valid_id_q /\ instr_valid_id_q' /\ instr' = instr
      /\ debug_mode_q' = debug_mode_q
      /\ instr \in Instrs
  BY Retained
<1>1. priv_lvl_q' = priv_lvl_q
  <2>1. ~TakesIrq /\ ~Exception /\ ~EbreakHalts /\ ~Returns("mret") /\ ~Returns("dret")
    BY DEF TakesIrq, Exception, EbreakHalts, Returns
  <2>. QED  BY <2>1 DEF CoreClock, Csr!CsrClock, Csr!priv_lvl_d, Csr!dret, Csr!mret
<1>2. faulty' <=> faulty
  BY <1>0, <1>1 DEF faulty, illegal_insn, illegal_dret, illegal_umode, illegal_csr_insn, Insn,
                    csr_access, vrf_req
<1>3. illegal_insn_q' <=> faulty'
  BY <1>2 DEF CoreClock, ControllerClock, illegal_insn_d, faulty
<1>4. exc_req_q' <=> (Insn("ecall") \/ Insn("ebreak") \/ faulty \/ instr_fetch_err)'
  <2>1. exc_req_q' <=> Insn("ecall") \/ Insn("ebreak") \/ faulty \/ instr_fetch_err
    BY DEF CoreClock, ControllerClock, exc_req_d, illegal_insn_d, faulty
  <2>. QED  BY <1>0, <1>2, <2>1 DEF Insn, instr_fetch_err
<1>5. load_err_q' \/ store_err_q' => instr'.kind \in {"load", "store"} /\ instr'.fails
  BY <1>0, VecFacts DEF CoreClock, ControllerClock, load_err, store_err, lsu_err
<1>6. Excepts' \/ instr'.kind \in {"mret", "dret", "wfi", "csr"}
  <2>1. /\ exc_req_d => exc_req_q' /\ Excepts'
        /\ exc_req_lsu => Excepts'
    BY DEF CoreClock, ControllerClock, Excepts, exc_req_lsu
  <2>2. ~exc_req_d /\ ~exc_req_lsu => instr.kind \in {"mret", "dret", "wfi", "csr"}
    BY DEF special_req, special_req_pc_change, special_req_flush_only, Insn, csr_pipe_flush,
           csr_op_en, csr_access
  <2>. QED  BY <1>0, <2>1, <2>2
<1>7. do_single_step_q' <=> ~debug_mode_q' /\ dcsr_q'.step
  <2>1. do_single_step_q' <=> ~debug_mode_q /\ dcsr_q.step
    BY <1>0 DEF CoreClock, ControllerClock, do_single_step_d
  <2>2. CASE debug_mode_q
    BY <1>0, <2>1, <2>2
  <2>3. CASE ~debug_mode_q
    <3>1. ~Csr!writes("dcsr")
      BY <2>3 DEF Csr!writes, illegal_csr_insn, csr_op_en, csr_access
    <3>2. ~Csr!debug_entry
      BY DEF Csr!debug_entry, EbreakHalts
    <3>3. dcsr_q' = dcsr_q
      BY <3>1, <3>2 DEF CoreClock, Csr!CsrClock, Csr!dcsr_d
    <3>. QED  BY <1>0, <2>1, <3>3
  <2>. QED  BY <2>2, <2>3
<1>8. enter_debug_mode_prio_q' => ~debug_mode_q'
  <2>1. enter_debug_mode_prio_q' = enter_debug_mode_prio_d
    BY DEF CoreClock, ControllerClock
  <2>2. enter_debug_mode_prio_d => ~debug_mode_q
    BY DEF enter_debug_mode_prio_d
  <2>. QED  BY <1>0, <2>1, <2>2
<1>. QED  BY <1>3, <1>4, <1>5, <1>6, <1>7, <1>8 DEF FlushCause

\* The instruction that is in ID after the cycle was there before, in
\* DECODE, or has just entered from IF.
LEMMA WhoIsNext ==
  ASSUME VecSupported, HartInv, CoreClock, instr_valid_id_q'
  PROVE  \/ new_instr /\ ~pc_set
         \/ ~new_instr /\ instr_valid_id_q /\ ctrl_fsm_cs = "DECODE" /\ (special_req \/ stall_id)
<1>1. (new_instr /\ ~pc_set) \/ (instr_valid_id_q /\ ~instr_valid_clear)
  BY DEF CoreClock, IfIdClock, instr_valid_id_d
<1>2. CASE instr_valid_id_q /\ ~instr_valid_clear
  <2>1. ~new_instr /\ (stall_id \/ retain_id)
    BY <1>2 DEF instr_valid_clear, new_instr, id_in_ready
  <2>2. ctrl_fsm_cs = "DECODE"
    BY <1>2, Flushes DEF HartInv, Occupied
  <2>. QED  BY <1>2, <2>1, <2>2 DEF retain_id
<1>. QED  BY <1>1, <1>2

LEMMA OccupiedStep ==
  ASSUME VecSupported, HartInv, CoreClock
  PROVE  Occupied'
<1>. USE HartFacts
<1>1. ASSUME instr_valid_id_q'
      PROVE  instr' \in Instrs /\ ctrl_fsm_cs' \in {"DECODE", "FLUSH"}
  <2>1. CASE new_instr /\ ~pc_set
    BY <2>1, Enters DEF CoreClock, ControllerClock, IfIdClock
  <2>2. CASE ctrl_fsm_cs = "DECODE" /\ special_req
    BY <2>2, Retained
  <2>3. CASE ctrl_fsm_cs = "DECODE" /\ ~special_req /\ stall_id
    BY <2>3, Stalled
  <2>. QED  BY <1>1, <2>1, <2>2, <2>3, WhoIsNext
<1>2. ASSUME ctrl_fsm_cs' = "FLUSH"
      PROVE  instr_valid_id_q' /\ FlushCause'
  <2>1. ctrl_fsm_cs = "DECODE" /\ special_req
    BY <1>2 DEF CoreClock, ControllerClock, ctrl_fsm_ns, RequestState, AfterFlush, States
  <2>. QED  BY <2>1, Retained, FlushCauseStep
<1>3. ASSUME ctrl_fsm_cs' = "DBG_TAKEN_ID"
      PROVE  /\ instr' \in Instrs /\ instr'.kind = "ebreak"
             /\ ~instr'.err /\ ~instr'.illegal /\ ~instr'.group
             /\ debug_mode_q' \/ ebreak_into_debug'
  <2>1. ctrl_fsm_cs = "FLUSH"
    BY <1>3 DEF CoreClock, ControllerClock, ctrl_fsm_ns, RequestState, AfterFlush, States
  <2>2. ToDebugId
    BY <1>3, <2>1 DEF CoreClock, ControllerClock, ctrl_fsm_ns, AfterFlush
  <2>. QED  BY <2>1, <2>2, Flushes, GoesOn DEF ebreak_into_debug, csrs
<1>. QED  BY <1>1, <1>2, <1>3 DEF Occupied

LEMMA NextPcStep ==
  ASSUME VecSupported, HartInv, CoreClock
  PROVE  NextPc'
<1>. USE HartFacts
<1>1. ASSUME id_fsm_q' = "MULTI_CYCLE"
      PROVE  /\ Undisturbed /\ stall_id /\ instr_valid_id_q /\ instr' = instr
             /\ instr.kind \in MultiKinds /\ ctrl_fsm_cs = "DECODE" /\ ~special_req
             /\ instr_executing /\ ~instr_valid_clear
  BY <1>1, MultiUndisturbed, Stays, NoSpecialRequest
     DEF Undisturbed, instr_executing, controller_run
<1>2. id_fsm_q' \in {"FIRST_CYCLE", "MULTI_CYCLE"}
  BY IdType DEF CoreClock
<1>3. ASSUME ~FirstCycle', branch_in_dec' \/ jump_in_dec'
      PROVE  FirstCycle /\ (branch_in_dec \/ jump_in_dec) /\ instr' = instr
  <2>1. id_fsm_q' = "MULTI_CYCLE"
    BY <1>2, <1>3 DEF FirstCycle
  <2>2. instr' = instr /\ ~instr_valid_clear
    BY <1>1, <2>1
  <2>. QED  BY <1>3, <2>2, JumpLeaves DEF branch_in_dec, jump_in_dec
<1>4. ASSUME instr_valid_id_q'
      PROVE  pc_if' = IF jump_in_dec' /\ ~FirstCycle' THEN instr'.arg ELSE Succ[pc_id']
  <2>1. CASE new_instr /\ ~pc_set
    <3>1. FirstCycle'
      BY <1>1, <1>2, <2>1, Enters DEF FirstCycle
    <3>. QED  BY <2>1, <3>1 DEF CoreClock, IfIdClock
  <2>2. CASE ctrl_fsm_cs = "DECODE" /\ special_req
    <3>1. FirstCycle'
      BY <1>1, <1>2, <2>2 DEF FirstCycle
    <3>. QED  BY <2>2, <3>1, Retained
  <2>3. CASE ctrl_fsm_cs = "DECODE" /\ ~special_req /\ stall_id
    <3>1. /\ instr_valid_id_q /\ instr' = instr /\ pc_id' = pc_id /\ ~new_instr
          /\ ~instr_valid_clear
      BY <2>3, Stalled
    <3>2. /\ pc_set <=> branch_set \/ jump_set
          /\ pc_set => fetch_addr_n = instr.arg
      BY <2>3 DEF pc_set, TakesIrq, Exception, Returns, fetch_addr_n
    <3>3. pc_if' = IF pc_set THEN fetch_addr_n ELSE pc_if
      BY <3>1 DEF CoreClock, IfIdClock
    <3>4. ~(~FirstCycle /\ (branch_in_dec \/ jump_in_dec))
      BY <3>1, JumpLeaves
    <3>5. ~branch_set /\ ~branch_jump_set_done_q
      BY <3>4 DEF AtRest, branch_set
    <3>6. pc_if = Succ[pc_id]
      BY <3>1, <3>4 DEF HartInv, NextPc
    <3>7. CASE jump_in_dec
      <4>1. FirstCycle
        BY <3>4, <3>7
      <4>2. ~instr.err
        <5>1. ~exc_req_d
          BY <2>3 DEF special_req, special_req_pc_change
        <5>. QED  BY <2>3, <3>1, <5>1 DEF exc_req_d, instr_fetch_err
      <4>3. instr_executing
        BY <2>3, <3>1, <4>2 DEF instr_executing, controller_run
      <4>4. jump_set
        BY <3>5, <3>7, <4>1, <4>3 DEF jump_set, jump_set_raw
      <4>5. id_fsm_q' = "MULTI_CYCLE"
        BY <3>7, <4>1, <4>3 DEF CoreClock, IdClock, id_fsm_d, StartsMultiCycle
      <4>. QED  BY <3>1, <3>2, <3>3, <3>7, <4>4, <4>5 DEF jump_in_dec, FirstCycle
    <3>8. CASE ~jump_in_dec
      <4>1. ~jump_set
        BY <3>8 DEF jump_set, jump_set_raw
      <4>. QED  BY <3>1, <3>2, <3>3, <3>5, <3>6, <3>8, <4>1 DEF jump_in_dec
    <3>. QED  BY <3>7, <3>8
  <2>. QED  BY <1>4, <2>1, <2>2, <2>3, WhoIsNext
<1>5. ASSUME ~FirstCycle', branch_in_dec'
      PROVE  instr'.taken /\ branch_set_raw_q'
  <2>1. id_fsm_q' = "MULTI_CYCLE"
    BY <1>2, <1>5 DEF FirstCycle
  <2>2. FirstCycle /\ branch_in_dec /\ instr' = instr /\ instr_executing
    BY <1>1, <1>3, <1>5, <2>1 DEF branch_in_dec, jump_in_dec
  <2>3. instr.taken
    BY <2>1, <2>2 DEF CoreClock, IdClock, id_fsm_d, StartsMultiCycle, branch_in_dec,
                      jump_in_dec, lsu_req_dec, multdiv_en_dec, vrf_req
  <2>. QED  BY <2>2, <2>3 DEF CoreClock, IdClock, branch_set_raw_d
<1>6. ASSUME ~FirstCycle', jump_in_dec'
      PROVE  branch_jump_set_done_q'
  <2>1. id_fsm_q' = "MULTI_CYCLE"
    BY <1>2, <1>6 DEF FirstCycle
  <2>2. FirstCycle /\ jump_in_dec /\ instr_executing /\ ~instr_valid_clear
    BY <1>1, <1>3, <1>6, <2>1 DEF branch_in_dec, jump_in_dec
  <2>. QED  BY <2>2 DEF CoreClock, IdClock, branch_jump_set_done_d, jump_set_raw
<1>7. ctrl_fsm_cs' \in {"RESET", "BOOT_SET"} => pc_if' = Boot
  <2>1. ctrl_fsm_cs' \in {"RESET", "BOOT_SET"} => ctrl_fsm_cs = "RESET"
    BY DEF CoreClock, ControllerClock, ctrl_fsm_ns, RequestState, AfterFlush, States
  <2>. QED  BY <2>1 DEF CoreClock, IfIdClock, pc_set, fetch_addr_n, Exception, Returns
<1>. QED  BY <1>4, <1>5, <1>6, <1>7 DEF NextPc

LEMMA RequestedStep ==
  ASSUME VecSupported, HartInv, CoreClock
  PROVE  Requested'
<1>. USE HartFacts
<1>1. ASSUME ctrl_fsm_cs' = "IRQ_TAKEN" \/ ctrl_fsm_cs' = "DBG_TAKEN_IF", ctrl_fsm_cs # "FLUSH"
      PROVE  /\ ~instr_valid_id_q /\ ctrl_fsm_cs \in {"FIRST_FETCH", "DECODE"}
             /\ handle_irq \/ enter_debug_mode
             /\ ctrl_fsm_cs' = RequestState
             /\ ctrl_fsm_cs = "DECODE" => TakesRequest
  BY <1>1 DEF CoreClock, ControllerClock, ctrl_fsm_ns, TakesRequest, HartInv, Occupied, States
<1>2. ASSUME ctrl_fsm_cs' = "IRQ_TAKEN"
      PROVE  ~debug_mode_q' /\ ~do_single_step_q' /\ pc_if' \notin Triggers
  <2>1. ctrl_fsm_cs # "FLUSH"
    BY <1>2 DEF CoreClock, ControllerClock, ctrl_fsm_ns, AfterFlush
  <2>2. handle_irq /\ ~enter_debug_mode
    BY <1>1, <1>2, <2>1 DEF RequestState
  <2>3. ~debug_mode_q /\ ~do_single_step_d /\ pc_if \notin Triggers
    BY <2>2 DEF handle_irq, enter_debug_mode, enter_debug_mode_prio_d, trigger_match
  <2>4. ~new_instr
    BY <1>1, <1>2, <2>1, <2>2 DEF new_instr, id_in_ready, halt_if
  <2>5. ~pc_set /\ debug_mode_q' = debug_mode_q
    BY <1>1, <1>2, <2>1, Empty, ModesKept DEF TakesIrq
  <2>6. pc_if' = pc_if
    BY <2>4, <2>5 DEF CoreClock, IfIdClock
  <2>. QED  BY <2>3, <2>5, <2>6 DEF CoreClock, ControllerClock
<1>3. ASSUME ctrl_fsm_cs' = "DBG_TAKEN_IF"
      PROVE  ~debug_mode_q'
  <2>1. CASE ctrl_fsm_cs = "FLUSH"
    <3>1. enter_debug_mode_prio_q
      BY <1>3, <2>1 DEF CoreClock, ControllerClock, ctrl_fsm_ns, AfterFlush
    <3>2. ~debug_mode_q
      BY <2>1, <3>1 DEF HartInv, Occupied, FlushCause
    <3>. QED  BY <2>1, <3>2 DEF CoreClock, ControllerClock, debug_mode_d
  <2>2. CASE ctrl_fsm_cs # "FLUSH"
    <3>1. ~debug_mode_q
      BY <1>1, <1>3, <2>2 DEF handle_irq, enter_debug_mode, enter_debug_mode_prio_d
    <3>2. debug_mode_q' = debug_mode_q
      BY <1>1, <1>3, <2>2, ModesKept DEF TakesIrq
    <3>. QED  BY <3>1, <3>2
  <2>. QED  BY <2>1, <2>2
<1>. QED  BY <1>2, <1>3 DEF Requested

LEMMA HartInvStep ==
  ASSUME VecSupported, HartInv, [Clock]_vars
  PROVE  HartInv'
<1>1. RestInv'
  BY RestStep DEF HartInv
<1>2. CASE Clock
  <2>1. InputFacts'
    BY <1>2 DEF Clock, InputRules, InputFacts, instr_executing
  <2>2. Occupied' /\ NextPc' /\ Requested'
    <3>1. CASE CoreClock
      BY <3>1, OccupiedStep, NextPcStep, RequestedStep
    <3>2. CASE UNCHANGED <<ifid, id, ctrl, csrs, outstanding, saved>>
      <4>1. FlushCause' <=> FlushCause
        BY <3>2 DEF FlushCause, faulty, illegal_insn, illegal_dret, illegal_umode,
                    illegal_csr_insn, csr_access, vrf_req, Insn, instr_fetch_err, Excepts,
                    ifid, ctrl, csrs
      <4>2. Occupied'
        BY <3>2, <4>1 DEF HartInv, Occupied, ebreak_into_debug, ifid, ctrl, csrs
      <4>3. NextPc' /\ Requested'
        BY <3>2 DEF HartInv, NextPc, Requested, FirstCycle, branch_in_dec, jump_in_dec,
                    ifid, id, ctrl
      <4>. QED  BY <4>2, <4>3
    <3>. QED  BY <1>2, <3>1, <3>2 DEF Clock
  <2>. QED  BY <1>1, <2>1, <2>2 DEF HartInv
<1>3. CASE UNCHANGED vars
  <2>1. FlushCause' <=> FlushCause
    BY <1>3 DEF FlushCause, faulty, illegal_insn, illegal_dret, illegal_umode,
                illegal_csr_insn, csr_access, vrf_req, Insn, instr_fetch_err, Excepts,
                vars, clocked, ifid, ctrl, csrs
  <2>2. Occupied'
    BY <1>3, <2>1 DEF HartInv, Occupied, ebreak_into_debug, vars, clocked, ifid, ctrl, csrs
  <2>3. NextPc' /\ Requested' /\ InputFacts'
    BY <1>3 DEF HartInv, NextPc, Requested, InputFacts, FirstCycle, branch_in_dec,
                jump_in_dec, vars, clocked, ifid, id, ctrl
  <2>. QED  BY <1>1, <2>2, <2>3 DEF HartInv
<1>. QED  BY <1>2, <1>3

LEMMA HartInit ==
  ASSUME VecSupported, Init
  PROVE  HartInv
<1>1. RestInv
  BY InitType DEF Init, RestInv, AtRest, MultiRuns, AccessInv, TypeInv, BranchFlop, DoneRule,
                  InputRules, DecodeRuns, AccessRuns
<1>2. InputFacts
  BY DEF Init, InputRules, InputFacts, instr_executing
<1>3. Occupied /\ NextPc /\ Requested
  BY DEF Init, Occupied, NextPc, Requested, FirstCycle
<1>. QED  BY <1>1, <1>2, <1>3 DEF HartInv

-----------------------------------------------------------------------------
(* The pipeline implements the sequential machine: its steps.              *)

\* The sequential machine's variables, as Sequential maps them.
HartPc      == IF Pending THEN pc_id ELSE pc_if
HartIr      == IF Pending THEN instr ELSE NoInstr
HartStepped == do_single_step_q /\ ~debug_mode_q /\ ~Pending

HartStep == [Sequential!Next]_(Sequential!vars)

\* No instruction is NoInstr.
LEMMA InstrIsSome ==
  ASSUME NEW i \in Instrs
  PROVE  i # NoInstr
<1>1. i.kind # NoInstr.kind
  BY DEF NoInstr, Kinds
<1>. QED  BY <1>1

\* A step that leaves the sequential machine where it was.
LEMMA Stutters ==
  ASSUME HartPc' = HartPc, HartIr' = HartIr, HartStepped' = HartStepped,
         UNCHANGED csrs, nmi_mode_q' = nmi_mode_q, debug_mode_q' = debug_mode_q
  PROVE  HartStep
BY DEF HartStep, Sequential!vars, Sequential!csrs, Sequential!mode, csrs, HartPc, HartIr,
       HartStepped

\* Whatever begins, begins without a debug request due before it.
LEMMA Begins ==
  ASSUME VecSupported, HartInv, CoreClock, Pending', new_instr, ~pc_set,
         debug_mode_q' = debug_mode_q
  PROVE  /\ HartIr' \in Instrs /\ HartPc' = pc_if
         /\ ~HartStepped' /\ ~(do_single_step_d /\ ~debug_mode_q)
         /\ HartPc' \in Triggers => debug_mode_q'
<1>1. /\ HartIr' = instr' /\ HartPc' = pc_id' /\ ~HartStepped'
  BY DEF HartIr, HartPc, HartStepped
<1>2. instr' \in Instrs /\ pc_id' = pc_if
  BY DEF CoreClock, IfIdClock
<1>. QED  BY <1>1, <1>2, Enters

\* Between instructions either one is fetched or nothing happens, as long as
\* no request is taken.
LEMMA IdleStep ==
  ASSUME VecSupported, HartInv, CoreClock, ~instr_valid_id_q, ~TakesIrq,
         ctrl_fsm_cs \notin {"FLUSH", "DBG_TAKEN_IF", "DBG_TAKEN_ID"}
  PROVE  HartStep
<1>. USE HartFacts
<1>1. nmi_mode_q' = nmi_mode_q /\ debug_mode_q' = debug_mode_q /\ UNCHANGED csrs
  BY Empty, ModesKept
<1>2. pc_set => ctrl_fsm_cs \in {"RESET", "BOOT_SET"} /\ pc_if = Boot /\ ~new_instr
  BY Empty, ModesKept DEF HartInv, NextPc, InputFacts, new_instr
<1>3. ~Pending
  BY DEF Pending
<1>4. do_single_step_q' = do_single_step_q
  BY DEF CoreClock, ControllerClock, do_single_step_d
<1>5. ctrl_fsm_cs' \notin {"FLUSH", "DBG_TAKEN_ID"}
  BY Empty DEF CoreClock, ControllerClock, ctrl_fsm_ns, RequestState, States
<1>6. CASE new_instr
  <2>1. instr_valid_id_q' /\ Pending'
    BY <1>2, <1>5, <1>6 DEF CoreClock, IfIdClock, instr_valid_id_d, Pending
  <2>2. ~HartStepped /\ HartPc' = HartPc
    BY <1>1, <1>2, <1>3, <1>6, <2>1, Begins DEF HartStepped, HartPc, do_single_step_d
  <2>3. Sequential!Fetch
    <3>1. HartIr = NoInstr /\ HartIr' \in Instrs /\ HartIr' # NoInstr
      BY <1>1, <1>2, <1>3, <1>6, <2>1, Begins, InstrIsSome DEF HartIr
    <3>2. /\ ~HartStepped'
          /\ HartPc' \in Triggers => debug_mode_q'
      BY <1>1, <1>2, <1>6, <2>1, Begins
    <3>. QED  BY <1>1, <2>2, <3>1, <3>2
              DEF Sequential!Fetch, Sequential!Begin, Sequential!csrs, Sequential!mode, csrs,
                  HartPc, HartIr, HartStepped
  <2>. QED  BY <2>3 DEF HartStep, Sequential!Next
<1>7. CASE ~new_instr
  <2>1. ~instr_valid_id_q' /\ ~Pending'
    BY <1>5, <1>7 DEF CoreClock, IfIdClock, instr_valid_id_d, Pending
  <2>2. pc_if' = pc_if
    <3>1. pc_set => fetch_addr_n = Boot
      BY <1>2 DEF fetch_addr_n, Exception, Returns
    <3>. QED  BY <1>2, <1>7, <3>1 DEF CoreClock, IfIdClock
  <2>3. HartPc' = HartPc /\ HartIr' = HartIr
    BY <1>3, <2>1, <2>2 DEF HartPc, HartIr
  <2>4. HartStepped' = HartStepped
    BY <1>1, <1>3, <1>4, <2>1 DEF HartStepped
  <2>. QED  BY <1>1, <2>3, <2>4, Stutters
<1>. QED  BY <1>6, <1>7

\* What the controller finds at fault is what the sequential machine faults on.
LEMMA FaultsAre ==
  ASSUME VecSupported, HartInv, instr_valid_id_q, Pending
  PROVE  /\ faulty <=> Sequential!Illegal
         /\ faulty \/ instr_fetch_err <=> Sequential!Faults
<1>. USE HartFacts
<1>1. instr.group => instr.kind = "vec"
  BY InstrFacts
<1>2. faulty <=> Sequential!Illegal
  BY <1>1 DEF faulty, illegal_insn, illegal_dret, illegal_umode, illegal_csr_insn, Insn,
              csr_access, vrf_req, Sequential!Illegal
<1>. QED  BY <1>2 DEF Sequential!Faults, instr_fetch_err

\* Writing a privilege level: the encodings of the code are those of Hart.
LEMMA LevelsAgree ==
  ASSUME NEW old \in Csr!Levels, NEW w \in Encodings, Pending,
         instr.op \in CsrOps, instr.op # "READ"
  PROVE  Csr!WrittenLevel(old, w) = Sequential!ApplyLevel(old, w)
<1>1. CASE instr.op = "WRITE"
  BY <1>1 DEF Csr!WrittenLevel, Csr!WrittenBits, Csr!LevelBits, Csr!Written, Csr!Levels,
      Sequential!ApplyLevel, Sequential!Apply, Sequential!High, Sequential!Low, Encodings
<1>2. CASE instr.op = "SET"
  BY <1>2 DEF Csr!WrittenLevel, Csr!WrittenBits, Csr!LevelBits, Csr!Written, Csr!Levels,
      Sequential!ApplyLevel, Sequential!Apply, Sequential!High, Sequential!Low, Encodings
<1>3. CASE instr.op = "CLEAR"
  <2>1. \A l \in Encodings : /\ 0 \in Csr!LevelBits(l) <=> Sequential!Low(l)
                             /\ 1 \in Csr!LevelBits(l) <=> Sequential!High(l)
    BY DEF Csr!LevelBits, Encodings, Sequential!Low, Sequential!High
  <2>2. \A b \in {0, 1} : b \in Csr!WrittenBits(old, w)
                            <=> b \in Csr!LevelBits(old) /\ b \notin Csr!LevelBits(w)
    BY <1>3 DEF Csr!WrittenBits, Csr!Written
  <2>3. Csr!WrittenBits(old, w) = {} <=> \A b \in {0, 1} : b \notin Csr!WrittenBits(old, w)
    BY DEF Csr!WrittenBits
  <2>4. old \in Encodings
    BY DEF Csr!Levels, Encodings
  <2>5. Csr!WrittenBits(old, w) = {}
          <=> ~(Sequential!High(old) /\ ~Sequential!High(w))
                /\ ~(Sequential!Low(old) /\ ~Sequential!Low(w))
    BY <2>1, <2>2, <2>3, <2>4
  <2>6. /\ Sequential!Apply(Sequential!High(old), Sequential!High(w))
             <=> Sequential!High(old) /\ ~Sequential!High(w)
        /\ Sequential!Apply(Sequential!Low(old), Sequential!Low(w))
             <=> Sequential!Low(old) /\ ~Sequential!Low(w)
    BY <1>3 DEF Sequential!Apply
  <2>. QED  BY <2>5, <2>6 DEF Csr!WrittenLevel, Sequential!ApplyLevel
<1>. QED  BY <1>1, <1>2, <1>3 DEF CsrOps

LEMMA BitsAgree ==
  ASSUME Pending, NEW old, NEW w
  PROVE  Csr!Written(old, w) = Sequential!Apply(old, w)
BY Zenon DEF Csr!Written, Sequential!Apply

LEMMA MultiStall ==
  ASSUME VecSupported, HartInv, CoreClock, ctrl_fsm_cs = "DECODE", ~special_req, stall_id
  PROVE  HartStep
<1>1. /\ Pending /\ Pending' /\ instr' = instr /\ pc_id' = pc_id
      /\ nmi_mode_q' = nmi_mode_q /\ debug_mode_q' = debug_mode_q /\ UNCHANGED csrs
  BY Stalled DEF Pending
<1>2. HartPc' = HartPc /\ HartIr' = HartIr /\ HartStepped' = HartStepped
  BY <1>1 DEF HartPc, HartIr, HartStepped
<1>. QED  BY <1>1, <1>2, Stutters

\* A CSR instruction writes the registers as the sequential machine does.
LEMMA CsrWrites ==
  ASSUME VecSupported, HartInv, CoreClock, ctrl_fsm_cs = "DECODE", csr_op_en,
         instr_valid_id_q, ~faulty
  PROVE  LET set(csr) == instr.csr = csr /\ instr.op # "READ"
         IN /\ mstatus_q' = IF set("mstatus")
                      THEN [mie  |-> Sequential!Apply(mstatus_q.mie, instr.arg.mie),
                            mpie |-> Sequential!Apply(mstatus_q.mpie, instr.arg.mpie),
                            mpp  |-> Sequential!ApplyLevel(mstatus_q.mpp, instr.arg.mpp)]
                      ELSE mstatus_q
            /\ dcsr_q' = IF set("dcsr")
                   THEN [step    |-> Sequential!Apply(dcsr_q.step, instr.arg.step),
                         ebreakm |-> Sequential!Apply(dcsr_q.ebreakm, instr.arg.ebreakm),
                         ebreaku |-> Sequential!Apply(dcsr_q.ebreaku, instr.arg.ebreaku),
                         prv     |-> Sequential!ApplyLevel(dcsr_q.prv, instr.arg.prv)]
                   ELSE dcsr_q
            /\ mepc_q' = IF set("mepc") THEN instr.arg ELSE mepc_q
            /\ depc_q' = IF set("dpc") THEN instr.arg ELSE depc_q
            /\ priv_lvl_q' = priv_lvl_q /\ mstack_q' = mstack_q
<1>. USE HartFacts
<1>. DEFINE set(csr) == instr.csr = csr /\ instr.op # "READ"
<1>0. Pending /\ instr \in Instrs /\ instr.kind = "csr" /\ instr.op \in CsrOps
  BY DEF Pending, HartInv, Occupied, csr_op_en, csr_access
<1>1. ~Csr!trap /\ ~Csr!debug_entry /\ ~Csr!mret /\ ~Csr!dret
       /\ ~(TakesIrq \/ Exception \/ EbreakHalts \/ ctrl_fsm_cs = "DBG_TAKEN_IF")
  BY DEF Csr!trap, Csr!debug_entry, Csr!mret, Csr!dret, TakesIrq, Exception, EbreakHalts, Returns
<1>2. \A csr : Csr!writes(csr) <=> set(csr)
  BY DEF Csr!writes, faulty, illegal_insn
<1>3. Csr!CsrTypeOK
  BY DEF TypeOK
<1>4. mstatus_q' = IF set("mstatus")
                   THEN [mie  |-> Sequential!Apply(mstatus_q.mie, instr.arg.mie),
                         mpie |-> Sequential!Apply(mstatus_q.mpie, instr.arg.mpie),
                         mpp  |-> Sequential!ApplyLevel(mstatus_q.mpp, instr.arg.mpp)]
                   ELSE mstatus_q
  <2>1. CASE set("mstatus")
    <3>1. mstatus_q' = [mie  |-> Csr!Written(mstatus_q.mie, instr.arg.mie),
                        mpie |-> Csr!Written(mstatus_q.mpie, instr.arg.mpie),
                        mpp  |-> Csr!WrittenLevel(mstatus_q.mpp, instr.arg.mpp)]
      BY <1>1, <1>2, <2>1, Zenon DEF CoreClock, Csr!CsrClock, Csr!mstatus_d
    <3>2. mstatus_q.mpp \in Csr!Levels /\ instr.arg.mpp \in Encodings
      BY <1>0, <1>3, <2>1 DEF Csr!CsrTypeOK, Csr!Mstatus
    <3>3. Csr!WrittenLevel(mstatus_q.mpp, instr.arg.mpp)
            = Sequential!ApplyLevel(mstatus_q.mpp, instr.arg.mpp)
      BY <1>0, <2>1, <3>2, LevelsAgree
    <3>. QED  BY <1>0, <2>1, <3>1, <3>3, BitsAgree, Zenon
  <2>2. CASE ~set("mstatus")
    BY <1>1, <1>2, <2>2 DEF CoreClock, Csr!CsrClock, Csr!mstatus_d
  <2>. QED  BY <2>1, <2>2
<1>5. dcsr_q' = IF set("dcsr")
                THEN [step    |-> Sequential!Apply(dcsr_q.step, instr.arg.step),
                      ebreakm |-> Sequential!Apply(dcsr_q.ebreakm, instr.arg.ebreakm),
                      ebreaku |-> Sequential!Apply(dcsr_q.ebreaku, instr.arg.ebreaku),
                      prv     |-> Sequential!ApplyLevel(dcsr_q.prv, instr.arg.prv)]
                ELSE dcsr_q
  <2>1. CASE set("dcsr")
    <3>1. dcsr_q' = [step    |-> Csr!Written(dcsr_q.step, instr.arg.step),
                     ebreakm |-> Csr!Written(dcsr_q.ebreakm, instr.arg.ebreakm),
                     ebreaku |-> Csr!Written(dcsr_q.ebreaku, instr.arg.ebreaku),
                     prv     |-> Csr!WrittenLevel(dcsr_q.prv, instr.arg.prv)]
      BY <1>1, <1>2, <2>1, Zenon DEF CoreClock, Csr!CsrClock, Csr!dcsr_d
    <3>2. dcsr_q.prv \in Csr!Levels /\ instr.arg.prv \in Encodings
      BY <1>0, <1>3, <2>1 DEF Csr!CsrTypeOK, Csr!Dcsr
    <3>3. Csr!WrittenLevel(dcsr_q.prv, instr.arg.prv)
            = Sequential!ApplyLevel(dcsr_q.prv, instr.arg.prv)
      BY <1>0, <2>1, <3>2, LevelsAgree
    <3>. QED  BY <1>0, <2>1, <3>1, <3>3, BitsAgree, Zenon
  <2>2. CASE ~set("dcsr")
    BY <1>1, <1>2, <2>2 DEF CoreClock, Csr!CsrClock, Csr!dcsr_d
  <2>. QED  BY <2>1, <2>2
<1>6. mepc_q' = IF set("mepc") THEN instr.arg ELSE mepc_q
  BY <1>1, <1>2 DEF CoreClock, Csr!CsrClock, Csr!mepc_d
<1>7. depc_q' = IF set("dpc") THEN instr.arg ELSE depc_q
  BY <1>1, <1>2 DEF CoreClock, Csr!CsrClock, Csr!depc_d
<1>8. priv_lvl_q' = priv_lvl_q /\ mstack_q' = mstack_q
  BY <1>1 DEF CoreClock, Csr!CsrClock, Csr!priv_lvl_d, Csr!mstack_d
<1>. QED  BY <1>4, <1>5, <1>6, <1>7, <1>8

\* The instruction in ID ends, and none begins in the same cycle.
LEMMA EndsAt ==
  ASSUME NEW a, Pending, instr \in Instrs, ~Pending', pc_if' = a,
         do_single_step_q' /\ ~debug_mode_q' <=> dcsr_q.step /\ ~debug_mode_q
  PROVE  Sequential!EndAt(a)
<1>1. HartIr # NoInstr /\ HartIr' = NoInstr /\ HartPc' = a
  BY InstrIsSome DEF HartIr, HartPc
<1>2. HartStepped' = (dcsr_q.step /\ ~debug_mode_q)
  BY DEF HartStepped
<1>. QED  BY <1>1, <1>2 DEF Sequential!EndAt, Sequential!Begin, HartIr, HartPc, HartStepped

\* A CSR instruction that flushes the pipeline has had its effect when FLUSH
\* begins; whatever else is kept for FLUSH has had none.
LEMMA RetainStep ==
  ASSUME VecSupported, HartInv, CoreClock, ctrl_fsm_cs = "DECODE", special_req
  PROVE  HartStep
<1>. USE HartFacts
<1>1. /\ instr_valid_id_q /\ instr_valid_id_q' /\ instr' = instr /\ pc_id' = pc_id
      /\ pc_if' = pc_if /\ pc_if = Succ[pc_id] /\ instr \in Instrs
      /\ ctrl_fsm_cs' = "FLUSH"
      /\ nmi_mode_q' = nmi_mode_q /\ debug_mode_q' = debug_mode_q
  BY Retained
<1>2. FlushCause'
  BY FlushCauseStep
<1>3. Pending /\ (Pending' <=> ~(csr_access /\ ~Excepts'))
  BY <1>1 DEF Pending, csr_access
<1>4. Excepts' <=> exc_req_d \/ exc_req_lsu
  BY Zenon DEF CoreClock, ControllerClock, Excepts, exc_req_lsu
<1>5. CASE csr_access /\ ~Excepts'
  <2>1. ~exc_req_d /\ ~faulty /\ ~instr.err
    BY <1>1, <1>4, <1>5 DEF exc_req_d, illegal_insn_d, faulty, instr_fetch_err
  <2>2. csr_op_en
    BY <1>4, <1>5 DEF special_req, special_req_pc_change, special_req_flush_only, Insn,
                      csr_access, csr_pipe_flush
  <2>3. do_single_step_q' /\ ~debug_mode_q' <=> dcsr_q.step /\ ~debug_mode_q
    <3>1. do_single_step_q' <=> ~debug_mode_q /\ dcsr_q.step
      BY <1>1 DEF CoreClock, ControllerClock, do_single_step_d
    <3>. QED  BY <1>1, <3>1
  <2>4. Sequential!EndAt(Succ[pc_id])
    BY <1>1, <1>3, <1>5, <2>3, EndsAt
  <2>5. Sequential!Legal({"csr"})
    BY <1>1, <1>3, <1>5, <2>1, FaultsAre DEF Sequential!Legal, csr_access, instr_fetch_err
  <2>6. Sequential!Csr
    BY <1>1, <1>3, <2>1, <2>2, <2>4, <2>5, CsrWrites DEF Sequential!Csr, Sequential!mode
  <2>. QED  BY <2>6 DEF HartStep, Sequential!Next
<1>6. CASE ~(csr_access /\ ~Excepts')
  <2>1. ~csr_op_en \/ illegal_csr_insn
    <3>1. CASE csr_access
      <4>1. exc_req_d
        <5>1. ~exc_req_lsu
          BY <3>1, VecFacts DEF exc_req_lsu, load_err, store_err, lsu_err, csr_access
        <5>. QED  BY <1>4, <1>6, <3>1, <5>1
      <4>2. instr_fetch_err \/ faulty
        BY <3>1, <4>1 DEF exc_req_d, Insn, illegal_insn_d, faulty, csr_access
      <4>3. instr.kind = "csr" => ~instr.illegal /\ ~instr.group
        BY InstrFacts DEF Illegals
      <4>. QED  BY <3>1, <4>2, <4>3
                DEF csr_access, csr_op_en, instr_done, instr_executing, instr_fetch_err, faulty,
                    illegal_insn, illegal_dret, illegal_umode, Insn, vrf_req
    <3>2. CASE ~csr_access
      BY <3>2 DEF csr_op_en
    <3>. QED  BY <3>1, <3>2
  <2>2. UNCHANGED csrs
    BY <2>1, ModesKept DEF TakesIrq
  <2>3. HartPc' = HartPc /\ HartIr' = HartIr /\ HartStepped' = HartStepped
    BY <1>1, <1>3, <1>6 DEF HartPc, HartIr, HartStepped
  <2>. QED  BY <1>1, <2>2, <2>3, Stutters
<1>. QED  BY <1>5, <1>6

\* An instruction that ends in ID has its whole effect in that cycle, and the
\* next one may begin in it.
LEMMA DoneStep ==
  ASSUME VecSupported, HartInv, CoreClock, ctrl_fsm_cs = "DECODE", ~special_req, ~stall_id,
         instr_valid_id_q
  PROVE  HartStep
<1>. USE HartFacts
<1>. DEFINE a == IF instr.kind = "jump" \/ (instr.kind = "branch" /\ instr.taken)
                 THEN instr.arg ELSE Succ[pc_id]
<1>1. /\ instr \in Instrs /\ ~instr.err /\ ~faulty /\ instr_done /\ instr_valid_clear
      /\ instr.kind \in {"op", "muldiv", "load", "store", "vec", "branch", "jump", "csr"}
      /\ ~instr.fails
  BY Done
<1>2. Pending /\ HartPc = pc_id /\ HartIr = instr
  BY DEF Pending, HartPc, HartIr
<1>3. nmi_mode_q' = nmi_mode_q /\ debug_mode_q' = debug_mode_q
  BY ModesKept DEF TakesIrq
<1>4. ctrl_fsm_cs' = "DECODE"
  BY DEF CoreClock, ControllerClock, ctrl_fsm_ns, TakesRequest
<1>5. Pending' <=> new_instr /\ ~pc_set
  BY <1>1, <1>4 DEF Pending, CoreClock, IfIdClock, instr_valid_id_d
<1>6. pc_set => fetch_addr_n = a
  BY DonePc
<1>7. ~pc_set => pc_if = a
  BY DonePc
<1>8. HartPc' = a
  <2>1. CASE new_instr /\ ~pc_set
    BY <1>3, <1>5, <1>7, <2>1, Begins
  <2>2. CASE ~(new_instr /\ ~pc_set)
    BY <1>5, <1>6, <1>7, <2>2 DEF HartPc, CoreClock, IfIdClock
  <2>. QED  BY <2>1, <2>2
<1>9. do_single_step_q' <=> ~debug_mode_q /\ dcsr_q.step
  BY DEF CoreClock, ControllerClock, do_single_step_d
<1>10. Sequential!EndAt(a)
  <2>1. HartStepped' = (dcsr_q.step /\ ~debug_mode_q)
    <3>1. CASE Pending'
      BY <1>3, <1>5, <3>1, Begins DEF HartStepped, do_single_step_d
    <3>2. CASE ~Pending'
      BY <1>3, <1>9, <3>2 DEF HartStepped
    <3>. QED  BY <3>1, <3>2
  <2>2. HartIr # NoInstr
    BY <1>1, <1>2, InstrIsSome
  <2>3. \/ HartIr' = NoInstr
        \/ HartIr' \in Instrs /\ ~HartStepped' /\ (HartPc' \in Triggers => debug_mode_q')
    <3>1. CASE Pending'
      BY <1>3, <1>5, <3>1, Begins
    <3>2. CASE ~Pending'
      BY <3>2 DEF HartIr
    <3>. QED  BY <3>1, <3>2
  <2>. HIDE DEF a
  <2>. QED  BY <1>8, <2>1, <2>2, <2>3
            DEF Sequential!EndAt, Sequential!Begin, HartIr, HartPc, HartStepped
<1>11. ~Sequential!Faults
  BY <1>1, <1>2, FaultsAre DEF instr_fetch_err
<1>12. CASE instr.kind = "csr"
  <2>1. csr_op_en
    BY <1>1, <1>12 DEF csr_op_en, csr_access
  <2>2. Sequential!Legal({"csr"})
    BY <1>2, <1>11, <1>12 DEF Sequential!Legal, HartIr
  <2>3. a = Succ[pc_id]
    BY <1>12
  <2>. HIDE DEF a
  <2>4. Sequential!EndAt(Succ[pc_id])
    BY <1>10, <2>3
  <2>5. Sequential!Csr
    BY <1>1, <1>2, <1>3, <2>1, <2>2, <2>4, CsrWrites DEF Sequential!Csr, Sequential!mode
  <2>. QED  BY <2>5 DEF HartStep, Sequential!Next
<1>13. CASE instr.kind # "csr"
  <2>1. UNCHANGED csrs
    BY <1>13, ModesKept DEF TakesIrq, csr_op_en, csr_access
  <2>2. Sequential!Legal({"op", "muldiv", "load", "store", "vec", "wfi", "branch", "jump"})
    BY <1>1, <1>2, <1>11, <1>13 DEF Sequential!Legal, HartIr
  <2>3. ~Sequential!Traps
    BY <1>1, <1>2, <1>11 DEF Sequential!Traps, HartIr
  <2>4. a = IF HartIr.kind = "jump" \/ (HartIr.kind = "branch" /\ HartIr.taken)
            THEN HartIr.arg ELSE Succ[HartPc]
    BY <1>2
  <2>. HIDE DEF a
  <2>5. Sequential!Complete
    BY <1>3, <1>10, <2>1, <2>2, <2>3, <2>4
       DEF Sequential!Complete, Sequential!csrs, Sequential!mode, csrs, HartIr, HartPc
  <2>. QED  BY <2>5 DEF HartStep, Sequential!Next
<1>. QED  BY <1>12, <1>13

\* A trap saves the state as the sequential machine does.
LEMMA Saves ==
  ASSUME CoreClock, Csr!trap, HartPc = Csr!exception_pc, TypeOK,
         debug_mode_q' = debug_mode_q
  PROVE  Sequential!SaveState
<1>1. /\ priv_lvl_q' = "M"
      /\ mstatus_q' = [mie |-> FALSE, mpie |-> mstatus_q.mie, mpp |-> priv_lvl_q]
      /\ mepc_q' = HartPc
      /\ mstack_q' = [mpie |-> mstatus_q.mpie, mpp |-> mstatus_q.mpp, epc |-> mepc_q]
  BY DEF CoreClock, Csr!CsrClock, Csr!priv_lvl_d, Csr!mstatus_d, Csr!mepc_d, Csr!mstack_d,
         Csr!trap
<1>2. dcsr_q' = dcsr_q /\ depc_q' = depc_q
  BY DEF CoreClock, Csr!CsrClock, Csr!dcsr_d, Csr!depc_d, Csr!trap, Csr!debug_entry,
         Csr!writes, csr_op_en, instr_done, instr_executing, controller_run, TakesIrq,
         Exception, EbreakHalts
<1>. QED  BY <1>1, <1>2 DEF Sequential!SaveState, HartPc

\* IRQ_TAKEN takes the request if it is still there.
LEMMA IrqStep ==
  ASSUME VecSupported, HartInv, CoreClock, TakesIrq
  PROVE  HartStep
<1>. USE HartFacts
<1>1. /\ ctrl_fsm_cs = "IRQ_TAKEN" /\ handle_irq /\ ~instr_valid_id_q
      /\ ~debug_mode_q /\ ~nmi_mode_q /\ ~do_single_step_q
  <2>1. ctrl_fsm_cs = "IRQ_TAKEN" /\ handle_irq
    BY DEF TakesIrq
  <2>. QED  BY <2>1 DEF handle_irq, HartInv, Occupied, Requested
<1>2. ~Pending /\ ~HartStepped
  BY <1>1 DEF Pending, HartStepped
<1>3. pc_set /\ fetch_addr_n = IF in.nm THEN Entry["NM"] ELSE Entry["IRQ"]
  BY <1>1 DEF pc_set, fetch_addr_n, Exception, Returns
<1>4. ~instr_valid_id_q' /\ pc_if' = IF in.nm THEN Entry["NM"] ELSE Entry["IRQ"]
  BY <1>1, <1>3 DEF CoreClock, IfIdClock, instr_valid_id_d
<1>5. ctrl_fsm_cs' = "DECODE"
  BY <1>1 DEF CoreClock, ControllerClock, ctrl_fsm_ns
<1>6. ~Pending' /\ HartIr' = NoInstr
  BY <1>4, <1>5 DEF Pending, HartIr
<1>7. /\ debug_mode_q' = debug_mode_q
      /\ nmi_mode_q' = IF in.nm THEN TRUE ELSE nmi_mode_q
      /\ do_single_step_q' = do_single_step_q
  BY <1>1 DEF CoreClock, ControllerClock, debug_mode_d, nmi_mode_d, do_single_step_d, TakesNmi,
              TakesIrq, Returns
<1>8. Sequential!SaveState
  <2>1. Csr!trap /\ Csr!exception_pc = pc_if
    BY <1>1 DEF Csr!trap, Csr!exception_pc, EbreakHalts
  <2>. QED  BY <1>2, <1>7, <2>1, Saves DEF HartPc
<1>9. ~HartStepped'
  BY <1>1, <1>7 DEF HartStepped
<1>10. /\ HartIr = NoInstr /\ HartPc' = pc_if'
       /\ HartStepped' = HartStepped
  BY <1>2, <1>6, <1>9 DEF HartIr, HartPc, HartStepped
<1>11. \/ pc_if' = Entry["NM"] /\ nmi_mode_q' = TRUE
       \/ mstatus_q.mie /\ pc_if' = Entry["IRQ"] /\ UNCHANGED nmi_mode_q
  BY <1>1, <1>4, <1>7 DEF handle_irq
<1>12. Sequential!Interrupt
  BY <1>1, <1>2, <1>6, <1>8, <1>10, <1>11
     DEF Sequential!Interrupt, HartIr, HartPc, HartStepped
<1>. QED  BY <1>12 DEF HartStep, Sequential!Next

\* DBG_TAKEN_IF halts before the next instruction.
LEMMA HaltStep ==
  ASSUME VecSupported, HartInv, CoreClock, ctrl_fsm_cs = "DBG_TAKEN_IF"
  PROVE  HartStep
<1>. USE HartFacts
<1>1. ~instr_valid_id_q /\ ~debug_mode_q
  BY DEF HartInv, Occupied, Requested
<1>2. ~Pending
  BY <1>1 DEF Pending
<1>3. pc_set /\ fetch_addr_n = Entry["DBG"]
  BY DEF pc_set, fetch_addr_n, Exception, Returns
<1>4. ~instr_valid_id_q' /\ pc_if' = Entry["DBG"]
  BY <1>1, <1>3 DEF CoreClock, IfIdClock, instr_valid_id_d
<1>5. ctrl_fsm_cs' = "DECODE"
  BY DEF CoreClock, ControllerClock, ctrl_fsm_ns
<1>6. debug_mode_q' = TRUE /\ nmi_mode_q' = nmi_mode_q
  BY DEF CoreClock, ControllerClock, debug_mode_d, nmi_mode_d, TakesNmi, TakesIrq, Returns
<1>7. ~Pending' /\ HartIr' = NoInstr /\ HartPc' = Entry["DBG"] /\ HartStepped' = FALSE
  BY <1>4, <1>5, <1>6 DEF Pending, HartIr, HartPc, HartStepped
<1>8. Csr!debug_entry /\ ~Csr!trap /\ ~Csr!mret /\ ~Csr!dret /\ Csr!exception_pc = pc_if
        /\ \A csr : ~Csr!writes(csr)
  BY DEF Csr!debug_entry, Csr!trap, Csr!mret, Csr!dret, Csr!exception_pc, Csr!writes,
         csr_op_en, instr_done, instr_executing, controller_run
<1>9. /\ priv_lvl_q' = "M" /\ dcsr_q' = [dcsr_q EXCEPT !.prv = priv_lvl_q] /\ depc_q' = pc_if
      /\ UNCHANGED <<mstatus_q, mepc_q, mstack_q>>
  <2>1. priv_lvl_q' = "M" /\ dcsr_q' = [dcsr_q EXCEPT !.prv = priv_lvl_q] /\ depc_q' = pc_if
    BY <1>8 DEF CoreClock, Csr!CsrClock, Csr!priv_lvl_d, Csr!dcsr_d, Csr!depc_d
  <2>2. UNCHANGED <<mstatus_q, mepc_q, mstack_q>>
    BY <1>8 DEF CoreClock, Csr!CsrClock, Csr!mstatus_d, Csr!mepc_d, Csr!mstack_d
  <2>. QED  BY <2>1, <2>2
<1>10. HartIr = NoInstr /\ HartPc = pc_if
  BY <1>2 DEF HartIr, HartPc
<1>11. Sequential!Halt
  BY <1>1, <1>6, <1>7, <1>9, <1>10
     DEF Sequential!Halt, Sequential!EnterDebug, HartIr, HartPc, HartStepped
<1>. QED  BY <1>11 DEF HartStep, Sequential!Next

\* DBG_TAKEN_ID halts at the EBREAK.
LEMMA EbreakStep ==
  ASSUME VecSupported, HartInv, CoreClock, ctrl_fsm_cs = "DBG_TAKEN_ID"
  PROVE  HartStep
<1>. USE HartFacts
<1>1. /\ ~instr_valid_id_q /\ instr \in Instrs /\ instr.kind = "ebreak"
      /\ ~instr.err /\ ~instr.illegal /\ ~instr.group
      /\ debug_mode_q \/ ebreak_into_debug
  BY DEF HartInv, Occupied
<1>2. Pending /\ HartIr = instr /\ HartPc = pc_id
  BY DEF Pending, HartIr, HartPc
<1>3. pc_set /\ fetch_addr_n = Entry["DBG"]
  BY DEF pc_set, fetch_addr_n, Exception, Returns
<1>4. ~instr_valid_id_q' /\ pc_if' = Entry["DBG"]
  BY <1>1, <1>3 DEF CoreClock, IfIdClock, instr_valid_id_d
<1>5. ctrl_fsm_cs' = "DECODE"
  BY DEF CoreClock, ControllerClock, ctrl_fsm_ns
<1>6. debug_mode_q' = TRUE /\ nmi_mode_q' = nmi_mode_q
  BY DEF CoreClock, ControllerClock, debug_mode_d, nmi_mode_d, TakesNmi, TakesIrq, Returns
<1>7. ~Pending' /\ HartIr' = NoInstr /\ HartPc' = Entry["DBG"] /\ HartStepped' = FALSE
  BY <1>4, <1>5, <1>6 DEF Pending, HartIr, HartPc, HartStepped
<1>8. ~Csr!trap /\ ~Csr!mret /\ ~Csr!dret /\ Csr!exception_pc = pc_id
        /\ (Csr!debug_entry <=> ~debug_mode_q)
        /\ \A csr : ~Csr!writes(csr)
  BY <1>1 DEF Csr!debug_entry, Csr!trap, Csr!mret, Csr!dret, Csr!exception_pc, Csr!writes,
         csr_op_en, instr_done, instr_executing, controller_run, EbreakHalts, TakesIrq,
         Exception, Returns
<1>9. UNCHANGED <<mstatus_q, mepc_q, mstack_q>>
  BY <1>8 DEF CoreClock, Csr!CsrClock, Csr!mstatus_d, Csr!mepc_d, Csr!mstack_d
<1>10. IF debug_mode_q THEN UNCHANGED <<debug_mode_q, priv_lvl_q, dcsr_q, depc_q>>
       ELSE /\ debug_mode_q' = TRUE /\ priv_lvl_q' = "M"
            /\ dcsr_q' = [dcsr_q EXCEPT !.prv = priv_lvl_q] /\ depc_q' = pc_id
  <2>1. CASE debug_mode_q
    <3>1. UNCHANGED csrs
      <4>1. ~TakesIrq /\ ~Exception /\ ~EbreakHalts /\ ~Returns("mret") /\ ~Returns("dret")
              /\ ~csr_op_en
        BY <2>1 DEF TakesIrq, Exception, EbreakHalts, Returns, csr_op_en, instr_done,
                    instr_executing, controller_run
      <4>. QED  BY <4>1, CsrsKept
    <3>2. debug_mode_q' = debug_mode_q
      BY <1>6, <2>1
    <3>. QED  BY <2>1, <3>1, <3>2 DEF csrs
  <2>2. CASE ~debug_mode_q
    <3>1. EbreakHalts
      BY <1>1, <2>2 DEF EbreakHalts
    <3>. QED  BY <1>6, <1>8, <2>2, <3>1
              DEF CoreClock, Csr!CsrClock, Csr!priv_lvl_d, Csr!dcsr_d, Csr!depc_d
  <2>. QED  BY <2>1, <2>2
<1>11. Sequential!Legal({"ebreak"})
  BY <1>1, <1>2 DEF Sequential!Legal, Sequential!Faults, Sequential!Illegal, HartIr
<1>12. Sequential!Halts
  BY <1>1 DEF Sequential!Halts, ebreak_into_debug
<1>13. Sequential!Ebreak
  BY <1>2, <1>6, <1>7, <1>9, <1>10, <1>11, <1>12
     DEF Sequential!Ebreak, Sequential!EnterDebug, HartIr, HartPc, HartStepped
<1>. QED  BY <1>13 DEF HartStep, Sequential!Next

\* What FLUSH handles has the cause the sequential machine finds for it.
LEMMA FlushTraps ==
  ASSUME VecSupported, HartInv, CoreClock, ctrl_fsm_cs = "FLUSH", Pending
  PROVE  /\ Excepts /\ ~ToDebugId => Sequential!Traps
         /\ ~Excepts => ~Sequential!Faults
<1>. USE HartFacts, InstrFacts
<1>1. instr_valid_id_q /\ instr \in Instrs /\ FlushCause
  BY Flushes
<1>2. faulty \/ instr_fetch_err <=> Sequential!Faults
  BY <1>1, FaultsAre
<1>3. ~Excepts => ~Sequential!Faults
  BY <1>1, <1>2 DEF FlushCause, Excepts
<1>4. ASSUME Excepts, ~ToDebugId
      PROVE  Sequential!Traps
  <2>1. CASE load_err_q \/ store_err_q
    BY <1>1, <2>1 DEF FlushCause, Sequential!Traps
  <2>2. CASE faulty \/ instr_fetch_err
    BY <1>2, <2>2 DEF Sequential!Traps
  <2>3. CASE Insn("ecall")
    BY <2>3 DEF Insn, Sequential!Traps
  <2>4. CASE Insn("ebreak") /\ ~(faulty \/ instr_fetch_err)
    <3>1. ~(debug_mode_q \/ ebreak_into_debug)
      BY <1>1, <1>4, <2>4 DEF ToDebugId, ebrk_insn_prio, FlushCause
    <3>. QED  BY <2>4, <3>1 DEF Insn, ebreak_into_debug, Sequential!Traps, Sequential!Halts
  <2>. QED  BY <1>1, <1>4, <2>1, <2>2, <2>3, <2>4 DEF FlushCause, Excepts
<1>. QED  BY <1>3, <1>4

LEMMA ExceptionStep ==
  ASSUME VecSupported, HartInv, CoreClock, ctrl_fsm_cs = "FLUSH", Excepts, ~ToDebugId
  PROVE  HartStep
<1>. USE HartFacts
<1>1. /\ instr_valid_id_q /\ instr \in Instrs /\ ~instr_valid_id_q'
      /\ ctrl_fsm_cs' = AfterFlush /\ ~csr_op_en /\ ~TakesIrq /\ ~EbreakHalts
  BY Flushes
<1>2. Pending /\ HartPc = pc_id
  BY <1>1 DEF Pending, HartPc
<1>3. Exception /\ ~Returns("mret") /\ ~Returns("dret") /\ ~Returns("wfi")
  BY DEF Exception, Returns
<1>4. ~Pending'
  BY <1>1 DEF AfterFlush, Pending
<1>5. pc_if' = IF debug_mode_q THEN Entry["DBG_EXC"] ELSE Entry["EXC"]
  BY <1>3 DEF CoreClock, IfIdClock, pc_set, fetch_addr_n, Exception
<1>6. /\ debug_mode_q' = debug_mode_q /\ nmi_mode_q' = nmi_mode_q
      /\ do_single_step_q' <=> ~debug_mode_q /\ dcsr_q.step
  BY <1>1, <1>3 DEF CoreClock, ControllerClock, debug_mode_d, nmi_mode_d, do_single_step_d,
                    TakesNmi
<1>7. Sequential!EndAt(IF debug_mode_q THEN Entry["DBG_EXC"] ELSE Entry["EXC"])
  BY <1>1, <1>2, <1>4, <1>5, <1>6, EndsAt
<1>8. Sequential!Traps /\ HartIr # NoInstr
  BY <1>1, <1>2, FlushTraps, InstrIsSome DEF HartIr
<1>9. CASE ~debug_mode_q
  <2>1. Csr!trap /\ Csr!exception_pc = pc_id
    BY <1>1, <1>3, <1>9 DEF Csr!trap, Csr!exception_pc
  <2>2. Sequential!SaveState
    BY <1>2, <1>6, <2>1, Saves
  <2>3. Sequential!EndAt(Entry["EXC"])
    BY <1>7, <1>9
  <2>4. Sequential!Exception
    BY <1>6, <1>8, <1>9, <2>2, <2>3 DEF Sequential!Exception, HartIr
  <2>. QED  BY <2>4 DEF HartStep, Sequential!Next
<1>10. CASE debug_mode_q
  <2>1. ~Csr!trap /\ ~Csr!debug_entry /\ ~Csr!mret /\ ~Csr!dret /\ \A csr : ~Csr!writes(csr)
    BY <1>1, <1>3, <1>10 DEF Csr!trap, Csr!debug_entry, Csr!mret, Csr!dret, Csr!writes
  <2>2. priv_lvl_q' = "M"
    BY <1>3 DEF CoreClock, Csr!CsrClock, Csr!priv_lvl_d
  <2>3. mstatus_q' = mstatus_q /\ mepc_q' = mepc_q /\ mstack_q' = mstack_q
    BY <2>1 DEF CoreClock, Csr!CsrClock, Csr!mstatus_d, Csr!mepc_d, Csr!mstack_d
  <2>4. dcsr_q' = dcsr_q /\ depc_q' = depc_q
    BY <2>1 DEF CoreClock, Csr!CsrClock, Csr!dcsr_d, Csr!depc_d
  <2>5. Sequential!EndAt(Entry["DBG_EXC"])
    BY <1>7, <1>10
  <2>6. Sequential!DebugException
    BY <1>6, <1>8, <1>10, <2>2, <2>3, <2>4, <2>5
       DEF Sequential!DebugException, Sequential!csrs, HartIr
  <2>. QED  BY <2>6 DEF HartStep, Sequential!Next
<1>. QED  BY <1>9, <1>10

LEMMA ReturnStep ==
  ASSUME VecSupported, HartInv, CoreClock, ctrl_fsm_cs = "FLUSH", ~Excepts, ~csr_access
  PROVE  HartStep
<1>. USE HartFacts
<1>1. /\ instr_valid_id_q /\ instr \in Instrs /\ ~instr_valid_id_q' /\ FlushCause
      /\ ctrl_fsm_cs' = AfterFlush /\ ~csr_op_en /\ ~TakesIrq /\ ~EbreakHalts
      /\ pc_if = Succ[pc_id] /\ (~pc_set => pc_if' = pc_if)
  BY Flushes
<1>2. instr.kind \in {"mret", "dret", "wfi"}
  BY <1>1 DEF FlushCause, csr_access
<1>3. Pending /\ HartPc = pc_id /\ HartIr = instr
  BY <1>1 DEF Pending, HartPc, HartIr
<1>4. ~Pending'
  BY <1>1 DEF AfterFlush, Pending, ToDebugId
<1>5. ~Exception /\ \A kind : Returns(kind) <=> instr.kind = kind
  BY <1>1 DEF Exception, Returns, Insn
<1>6. do_single_step_q' <=> ~debug_mode_q /\ dcsr_q.step
  BY <1>1 DEF CoreClock, ControllerClock, do_single_step_d
<1>7. ~Sequential!Faults
  BY <1>3, FlushTraps
<1>8. ~Csr!trap /\ ~Csr!debug_entry /\ \A csr : ~Csr!writes(csr)
  BY <1>1, <1>5 DEF Csr!trap, Csr!debug_entry, Csr!writes
<1>9. dcsr_q' = dcsr_q /\ depc_q' = depc_q /\ mstack_q' = mstack_q
  BY <1>8 DEF CoreClock, Csr!CsrClock, Csr!dcsr_d, Csr!depc_d, Csr!mstack_d
<1>10. CASE instr.kind = "mret"
  <2>1. Csr!mret /\ ~Csr!dret
    BY <1>1, <1>5, <1>10 DEF Csr!mret, Csr!dret
  <2>2. nmi_mode_q' = FALSE /\ debug_mode_q' = debug_mode_q
    <3>1. Returns("mret") /\ ~Returns("dret") /\ ~TakesNmi
      BY <1>1, <1>5, <1>10 DEF TakesNmi
    <3>. QED  BY <1>1, <3>1 DEF CoreClock, ControllerClock, debug_mode_d, nmi_mode_d
  <2>3. pc_if' = mepc_q
    BY <1>5, <1>10 DEF CoreClock, IfIdClock, pc_set, fetch_addr_n
  <2>4. Sequential!EndAt(mepc_q)
    BY <1>1, <1>3, <1>4, <1>6, <2>2, <2>3, EndsAt
  <2>5. priv_lvl_q' = mstatus_q.mpp
    BY <1>1, <1>5, <2>1 DEF CoreClock, Csr!CsrClock, Csr!priv_lvl_d, Csr!mret
  <2>6. IF nmi_mode_q
        THEN /\ mstatus_q' = [mie |-> mstatus_q.mpie, mpie |-> mstack_q.mpie,
                              mpp |-> mstack_q.mpp]
             /\ mepc_q' = mstack_q.epc
        ELSE /\ mstatus_q' = [mie |-> mstatus_q.mpie, mpie |-> TRUE, mpp |-> "U"]
             /\ UNCHANGED mepc_q
    <3>1. CASE nmi_mode_q
      BY <1>8, <2>1, <3>1, Zenon DEF CoreClock, Csr!CsrClock, Csr!mstatus_d, Csr!mepc_d
    <3>2. CASE ~nmi_mode_q
      BY <1>8, <2>1, <3>2, Zenon DEF CoreClock, Csr!CsrClock, Csr!mstatus_d, Csr!mepc_d
    <3>. QED  BY <3>1, <3>2
  <2>7. Sequential!Legal({"mret"})
    BY <1>3, <1>7, <1>10 DEF Sequential!Legal, HartIr
  <2>8. Sequential!Mret
    BY <1>9, <2>2, <2>4, <2>5, <2>6, <2>7 DEF Sequential!Mret
  <2>. QED  BY <2>8 DEF HartStep, Sequential!Next
<1>11. CASE instr.kind = "dret"
  <2>1. Csr!dret /\ ~Csr!mret
    BY <1>1, <1>5, <1>11 DEF Csr!mret, Csr!dret
  <2>2. nmi_mode_q' = nmi_mode_q /\ debug_mode_q' = FALSE
    <3>1. Returns("dret") /\ ~Returns("mret") /\ ~TakesNmi
      BY <1>1, <1>5, <1>11 DEF TakesNmi
    <3>. QED  BY <1>1, <3>1 DEF CoreClock, ControllerClock, debug_mode_d, nmi_mode_d
  <2>3. pc_if' = depc_q
    BY <1>5, <1>11 DEF CoreClock, IfIdClock, pc_set, fetch_addr_n
  <2>4. debug_mode_q
    BY <1>3, <1>7, <1>11 DEF Sequential!Faults, Sequential!Illegal, HartIr
  <2>5. Sequential!EndAt(depc_q)
    BY <1>1, <1>3, <1>4, <1>6, <2>2, <2>3, <2>4, EndsAt
  <2>6. priv_lvl_q' = dcsr_q.prv
    BY <1>1, <1>5, <2>1 DEF CoreClock, Csr!CsrClock, Csr!priv_lvl_d, Csr!dret
  <2>7. mstatus_q' = mstatus_q /\ mepc_q' = mepc_q
    BY <1>8, <2>1 DEF CoreClock, Csr!CsrClock, Csr!mstatus_d, Csr!mepc_d
  <2>8. Sequential!Legal({"dret"})
    BY <1>3, <1>7, <1>11 DEF Sequential!Legal, HartIr
  <2>9. Sequential!Dret
    BY <1>9, <2>2, <2>5, <2>6, <2>7, <2>8 DEF Sequential!Dret, Sequential!csrs
  <2>. QED  BY <2>9 DEF HartStep, Sequential!Next
<1>12. CASE instr.kind = "wfi"
  <2>1. ~Returns("mret") /\ ~Returns("dret") /\ ~TakesNmi
    BY <1>1, <1>5, <1>12 DEF TakesNmi
  <2>2. UNCHANGED csrs
    BY <1>1, <1>5, <2>1, CsrsKept
  <2>3. nmi_mode_q' = nmi_mode_q /\ debug_mode_q' = debug_mode_q
    BY <2>1 DEF CoreClock, ControllerClock, debug_mode_d, nmi_mode_d
  <2>4. pc_if' = Succ[pc_id]
    BY <1>1, <1>5, <2>1 DEF pc_set
  <2>5. Sequential!EndAt(Succ[pc_id])
    BY <1>1, <1>3, <1>4, <1>6, <2>3, <2>4, EndsAt
  <2>6. /\ Sequential!Legal({"op", "muldiv", "load", "store", "vec", "wfi", "branch", "jump"})
        /\ ~Sequential!Traps
    BY <1>3, <1>7, <1>12 DEF Sequential!Legal, Sequential!Traps, HartIr
  <2>7. Sequential!Complete
    BY <1>3, <1>12, <2>2, <2>3, <2>5, <2>6
       DEF Sequential!Complete, Sequential!csrs, Sequential!mode, csrs, HartIr, HartPc
  <2>. QED  BY <2>7 DEF HartStep, Sequential!Next
<1>. QED  BY <1>2, <1>10, <1>11, <1>12

LEMMA FlushStep ==
  ASSUME VecSupported, HartInv, CoreClock, ctrl_fsm_cs = "FLUSH"
  PROVE  HartStep
<1>. USE HartFacts
<1>1. CASE ToDebugId
  <2>1. /\ ctrl_fsm_cs' = "DBG_TAKEN_ID" /\ UNCHANGED csrs
        /\ debug_mode_q' = debug_mode_q /\ nmi_mode_q' = nmi_mode_q
        /\ instr' = instr /\ pc_id' = pc_id /\ instr_valid_id_q /\ Excepts
    BY <1>1, GoesOn, Flushes DEF ToDebugId
  <2>2. Pending /\ Pending'
    BY <2>1 DEF Pending
  <2>3. HartPc' = HartPc /\ HartIr' = HartIr /\ HartStepped' = HartStepped
    BY <2>1, <2>2 DEF HartPc, HartIr, HartStepped
  <2>. QED  BY <2>1, <2>3, Stutters
<1>2. CASE ~Excepts /\ csr_access
  <2>1. /\ instr_valid_id_q /\ ~instr_valid_id_q' /\ FlushCause
        /\ ctrl_fsm_cs' = AfterFlush /\ ~csr_op_en /\ ~TakesIrq /\ ~EbreakHalts
        /\ (~pc_set => pc_if' = pc_if)
    BY Flushes
  <2>2. ~Exception /\ ~Returns("mret") /\ ~Returns("dret") /\ ~TakesNmi
    BY <1>2, <2>1 DEF Exception, Returns, Insn, csr_access, TakesNmi
  <2>3. UNCHANGED csrs
    BY <2>1, <2>2, CsrsKept
  <2>4. nmi_mode_q' = nmi_mode_q /\ debug_mode_q' = debug_mode_q
    BY <2>2 DEF CoreClock, ControllerClock, debug_mode_d, nmi_mode_d
  <2>5. pc_if' = pc_if
    BY <2>1, <2>2 DEF pc_set
  <2>6. ~Pending /\ ~Pending'
    BY <1>2, <2>1 DEF AfterFlush, Pending, ToDebugId
  <2>7. do_single_step_q' <=> do_single_step_q
    BY <2>1 DEF FlushCause, CoreClock, ControllerClock, do_single_step_d
  <2>8. HartPc' = HartPc /\ HartIr' = HartIr
    BY <2>5, <2>6 DEF HartPc, HartIr
  <2>9. HartStepped' = HartStepped
    BY <2>4, <2>6, <2>7 DEF HartStepped
  <2>. QED  BY <2>3, <2>4, <2>8, <2>9, Stutters
<1>. QED  BY <1>1, <1>2, ExceptionStep, ReturnStep

LEMMA HartStepOfClock ==
  ASSUME VecSupported, HartInv, [Clock]_vars
  PROVE  HartStep
<1>. USE HartFacts
<1>1. CASE CoreClock
  <2>1. CASE ctrl_fsm_cs = "FLUSH"
    BY <1>1, <2>1, FlushStep
  <2>2. CASE ctrl_fsm_cs = "DBG_TAKEN_IF"
    BY <1>1, <2>2, HaltStep
  <2>3. CASE ctrl_fsm_cs = "DBG_TAKEN_ID"
    BY <1>1, <2>3, EbreakStep
  <2>4. CASE TakesIrq
    BY <1>1, <2>4, IrqStep
  <2>5. CASE instr_valid_id_q /\ ctrl_fsm_cs = "DECODE"
    BY <1>1, <2>5, RetainStep, MultiStall, DoneStep
  <2>. QED  BY <1>1, <2>1, <2>2, <2>3, <2>4, <2>5, IdleStep DEF HartInv, Occupied
<1>2. CASE UNCHANGED <<ifid, id, ctrl, csrs, outstanding, saved>>
  <2>1. Pending' <=> Pending
    BY <1>2 DEF Pending, Excepts, csr_access, ifid, ctrl
  <2>2. HartPc' = HartPc /\ HartIr' = HartIr
    BY <1>2, <2>1 DEF HartPc, HartIr, ifid
  <2>3. HartStepped' = HartStepped
    BY <1>2, <2>1 DEF HartStepped, ctrl
  <2>. QED  BY <1>2, <2>2, <2>3, Stutters DEF ctrl
<1>3. [Clock]_vars => CoreClock \/ UNCHANGED <<ifid, id, ctrl, csrs, outstanding, saved>>
  BY DEF Clock, vars, clocked
<1>. QED  BY <1>1, <1>2, <1>3

LEMMA HartStart ==
  ASSUME Init
  PROVE  Sequential!Init
<1>1. ~Pending
  BY DEF Init, Pending
<1>. QED  BY <1>1 DEF Init, Csr!CsrInit, Sequential!Init

\* As long as no vector instruction is illegal or fails, the pipeline
\* implements the sequential machine: whatever is fetched, however long it
\* takes, and whatever interrupts and debug requests come in between, the
\* instructions take effect one after the other, each completely or, when it
\* traps, not at all.
THEOREM Precise ==
  ASSUME VecSupported
  PROVE  Spec => ImplementsHart
<1>1. Init => HartInv /\ Sequential!Init
  BY HartInit, HartStart
<1>2. HartInv /\ [Clock]_vars => HartInv'
  BY HartInvStep
<1>3. HartInv /\ [Clock]_vars => [Sequential!Next]_(Sequential!vars)
  BY HartStepOfClock DEF HartStep
<1>. QED  BY <1>1, <1>2, <1>3, PTL DEF Spec, ImplementsHart, Sequential!Spec
=============================================================================
