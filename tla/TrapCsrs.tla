------------------------------- MODULE TrapCsrs -------------------------------
(***************************************************************************)
(* The control and status registers that traps, returns and debug mode     *)
(* save and restore (rtl/vcve2_cs_registers.sv): the privilege level,      *)
(* mstatus, mepc, the stack mstack for NMIs, dcsr and dpc.  The ports are  *)
(* variables (see FetchFifo).                                              *)
(*                                                                         *)
(* mcause and mtval are left out: they are written where mepc is, and no   *)
(* other register depends on them.  So are mtvec (constant: Entry in       *)
(* Pipeline), mie (the irq input of Pipeline is already masked with it),   *)
(* mstatus.tw (a constant there), mstatus.mprv (see LoadStoreUnit's PMP    *)
(* verdict), and the counters.                                             *)
(***************************************************************************)

CONSTANT Pcs                  \* addresses of instructions

VARIABLES
  csr_we_int, csr_op_i, csr_addr_i, csr_wdata_i,     \* write by an instruction
  csr_save_cause_i, csr_save_if_i, debug_csr_save_i, \* trap or debug entry
  csr_restore_mret_i, csr_restore_dret_i,
  nmi_mode_i, debug_mode_i, pc_if_i, pc_id_i,
  priv_lvl_q, mstatus_q, mepc_q, mstack_q, dcsr_q, depc_q

csrVars == <<priv_lvl_q, mstatus_q, mepc_q, mstack_q, dcsr_q, depc_q>>

Levels  == {"M", "U"}
Mstatus == [mie : BOOLEAN, mpie : BOOLEAN, mpp : Levels]
Mstack  == [mpie : BOOLEAN, mpp : Levels, epc : Pcs]
Dcsr    == [step : BOOLEAN, ebreakm : BOOLEAN, ebreaku : BOOLEAN, prv : Levels]

CsrTypeOK == /\ priv_lvl_q \in Levels
             /\ mstatus_q \in Mstatus
             /\ mepc_q \in Pcs
             /\ mstack_q \in Mstack
             /\ dcsr_q \in Dcsr
             /\ depc_q \in Pcs

\* z stands for the address 0.
CsrInit(z) ==
  /\ priv_lvl_q = "M"
  /\ mstatus_q = [mie |-> FALSE, mpie |-> FALSE, mpp |-> "M"]
  /\ mepc_q = z
  /\ mstack_q = [mpie |-> TRUE, mpp |-> "U", epc |-> z]
  /\ dcsr_q = [step |-> FALSE, ebreakm |-> FALSE, ebreaku |-> FALSE, prv |-> "M"]
  /\ depc_q = z

-----------------------------------------------------------------------------
\* The value a write leaves in a bit, and in a privilege level: of its four
\* encodings two are supported, and the others become M.
Written(old, w) == CASE csr_op_i = "WRITE" -> w
                     [] csr_op_i = "SET"   -> old \/ w
                     [] csr_op_i = "CLEAR" -> old /\ ~w

LevelBits(l) == CASE l = "U" -> {} [] l = "S" -> {0} [] l = "H" -> {1} [] l = "M" -> {0, 1}

WrittenBits(old, w) == { b \in {0, 1} : Written(b \in LevelBits(old), b \in LevelBits(w)) }

WrittenLevel(old, w) == IF WrittenBits(old, w) = {} THEN "U" ELSE "M"

writes(csr) == csr_we_int /\ csr_addr_i = csr

\* The three events that have priority over a write, in their order.
debug_entry == csr_save_cause_i /\ debug_csr_save_i
trap        == csr_save_cause_i /\ ~debug_csr_save_i /\ ~debug_mode_i
dret        == csr_restore_dret_i /\ ~csr_save_cause_i
mret        == csr_restore_mret_i /\ ~csr_restore_dret_i /\ ~csr_save_cause_i

exception_pc == IF csr_save_if_i THEN pc_if_i ELSE pc_id_i

priv_lvl_d == IF csr_save_cause_i THEN "M"
              ELSE IF dret THEN dcsr_q.prv
              ELSE IF mret THEN mstatus_q.mpp
              ELSE priv_lvl_q

\* mutant: MRET from an NMI takes the level as from any other trap
OnePlevel == IF trap
  THEN [mie |-> FALSE, mpie |-> mstatus_q.mie, mpp |-> priv_lvl_q]
  ELSE IF mret
  THEN [mie  |-> mstatus_q.mpie,
        mpie |-> IF nmi_mode_i THEN mstack_q.mpie ELSE TRUE, mpp |-> "U"]
  ELSE mstatus_q
mstatus_d ==
  IF trap
  THEN [mie |-> FALSE, mpie |-> mstatus_q.mie, mpp |-> priv_lvl_q]
  ELSE IF mret
  THEN [mie  |-> mstatus_q.mpie,
        mpie |-> IF nmi_mode_i THEN mstack_q.mpie ELSE TRUE,
        mpp  |-> IF nmi_mode_i THEN mstack_q.mpp ELSE "U"]
  ELSE IF writes("mstatus")
  THEN [mie  |-> Written(mstatus_q.mie, csr_wdata_i.mie),
        mpie |-> Written(mstatus_q.mpie, csr_wdata_i.mpie),
        mpp  |-> WrittenLevel(mstatus_q.mpp, csr_wdata_i.mpp)]
  ELSE mstatus_q

mepc_d == IF trap THEN exception_pc
          ELSE IF mret THEN IF nmi_mode_i THEN mstack_q.epc ELSE mepc_q
          ELSE IF writes("mepc") THEN csr_wdata_i
          ELSE mepc_q

mstack_d == IF trap
            THEN [mpie |-> mstatus_q.mpie, mpp |-> mstatus_q.mpp, epc |-> mepc_q]
            ELSE mstack_q

dcsr_d ==
  IF debug_entry
  THEN [dcsr_q EXCEPT !.prv = priv_lvl_q]
  ELSE IF writes("dcsr")
  THEN [step    |-> Written(dcsr_q.step, csr_wdata_i.step),
        ebreakm |-> Written(dcsr_q.ebreakm, csr_wdata_i.ebreakm),
        ebreaku |-> Written(dcsr_q.ebreaku, csr_wdata_i.ebreaku),
        prv     |-> WrittenLevel(dcsr_q.prv, csr_wdata_i.prv)]
  ELSE dcsr_q

depc_d == IF debug_entry THEN exception_pc
          ELSE IF writes("dpc") THEN csr_wdata_i
          ELSE depc_q

CsrClock == /\ priv_lvl_q' = priv_lvl_d
            /\ mstatus_q'  = mstatus_d
            /\ mepc_q'     = mepc_d
            /\ mstack_q'   = mstack_d
            /\ dcsr_q'     = dcsr_d
            /\ depc_q'     = depc_d
=============================================================================
