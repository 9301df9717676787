---------------------------- MODULE LoadStoreUnit ----------------------------
(***************************************************************************)
(* The load/store unit (rtl/vcve2_load_store_unit.sv).  It makes one or,   *)
(* for an access that crosses a word boundary, two word requests on the    *)
(* data bus, and reports one response to the ID stage.  Port addr_i is the *)
(* address of the access; when addr_incr_req_o asks for the second word    *)
(* the ID stage puts addr_last_q + 4 on the address port instead, which is *)
(* included here (data_addr).  So is the PMP: pmp_blocked_i is the set of  *)
(* words it refuses to this access.                                        *)
(*                                                                         *)
(* The ports are variables (see FetchFifo).  An address is a word and a    *)
(* byte lane in it, a data word a function from lanes to bytes, a byte     *)
(* enable a set of lanes.  A byte is what the instantiating module makes   *)
(* of it; its field sign says that it is the sign of that byte, replicated.*)
(***************************************************************************)
EXTENDS Integers

CONSTANTS NWords, Byte, ZeroByte

VARIABLES
  lsu_req_i, lsu_we_i, lsu_type_i, lsu_sign_ext_i, lsu_wdata_i,
  addr_i, vec_be_i,
  data_gnt_i, data_rvalid_i, data_err_i, pmp_blocked_i, data_rdata_i,
  ls_fsm_cs, handle_misaligned_q, pmp_err_q, lsu_err_q,
  rdata_q, rdata_offset_q, data_type_q, data_sign_ext_q, data_we_q, addr_last_q

lsuVars == <<ls_fsm_cs, handle_misaligned_q, pmp_err_q, lsu_err_q, rdata_q,
             rdata_offset_q, data_type_q, data_sign_ext_q, data_we_q, addr_last_q>>

Lanes  == 0 .. 3
Words  == 0 .. NWords - 1
Addrs  == [word : Words, lane : Lanes]

NextWord(w) == IF w = NWords - 1 THEN 0 ELSE w + 1
Aligned(a)  == [word |-> a.word, lane |-> 0]
PlusFour(a) == [word |-> NextWord(a.word), lane |-> a.lane]

AlwaysIncrInWaitGnt ==                       \* mutant: handle_misaligned_q ignored
  ls_fsm_cs \in {"WAIT_RVALID_MIS", "WAIT_RVALID_MIS_GNTS_DONE", "WAIT_GNT"}
addr_incr_req_o ==
  \/ ls_fsm_cs \in {"WAIT_RVALID_MIS", "WAIT_RVALID_MIS_GNTS_DONE"}
  \/ ls_fsm_cs = "WAIT_GNT" /\ handle_misaligned_q

data_addr   == IF addr_incr_req_o THEN PlusFour(addr_last_q) ELSE addr_i
data_offset == data_addr.lane

data_pmp_err_i == data_addr.word \in pmp_blocked_i

LsuInit ==
  /\ ls_fsm_cs = "IDLE" /\ handle_misaligned_q = FALSE
  /\ pmp_err_q = FALSE /\ lsu_err_q = FALSE
  /\ rdata_q = [l \in Lanes |-> ZeroByte]
  /\ rdata_offset_q = 0 /\ data_type_q = "word"
  /\ data_sign_ext_q = FALSE /\ data_we_q = FALSE
  /\ addr_last_q = [word |-> 0, lane |-> 0]

-----------------------------------------------------------------------------
(* Byte enables and alignment.                                             *)

\* How many bytes of a word access are enabled: vec_be_i has the low lanes set
\* in the last iteration of a vector access, any other pattern means all four.
VecBytes == CASE vec_be_i = {}        -> 0
              [] vec_be_i = {0}       -> 1
              [] vec_be_i = {0, 1}    -> 2
              [] vec_be_i = {0, 1, 2} -> 3
              [] OTHER                -> 4

\* The bytes of an access to the first word are those that still fit, those of
\* the second request the rest.
Split(n) == IF ~handle_misaligned_q
            THEN { data_offset + k : k \in 0 .. n - 1 } \cap Lanes
            ELSE { data_offset + k - 4 : k \in 0 .. n - 1 } \cap Lanes

data_be ==
  IF lsu_type_i = "word"
  THEN IF data_offset = 0
       THEN IF handle_misaligned_q THEN {} ELSE vec_be_i
       ELSE Split(VecBytes)
  ELSE IF lsu_type_i = "half"
       THEN IF handle_misaligned_q THEN {0} ELSE Split(2)
       ELSE {data_offset}

NotRotated == lsu_wdata_i                    \* mutant: no alignment
data_wdata == [l \in Lanes |-> lsu_wdata_i[(l - data_offset) % 4]]

\* Lane l of the loaded word: from the word kept of the first part, or from
\* the word on the bus.
rdata_w_ext == [l \in Lanes |-> IF rdata_offset_q + l < 4 /\ rdata_offset_q # 0
                                THEN rdata_q[rdata_offset_q + l]
                                ELSE data_rdata_i[(rdata_offset_q + l) % 4]]

HalfFromBus == data_rdata_i[rdata_offset_q]  \* mutant: the kept byte is forgotten
half_lo == IF rdata_offset_q = 3 THEN rdata_q[3] ELSE data_rdata_i[rdata_offset_q]
half_hi == data_rdata_i[(rdata_offset_q + 1) % 4]

Extend(b) == IF data_sign_ext_q THEN [b EXCEPT !.sign = TRUE] ELSE ZeroByte

rdata_h_ext == [l \in Lanes |-> CASE l = 0 -> half_lo
                                  [] l = 1 -> half_hi
                                  [] OTHER -> Extend(half_hi)]

rdata_b_ext == [l \in Lanes |-> IF l = 0 THEN data_rdata_i[rdata_offset_q]
                                ELSE Extend(data_rdata_i[rdata_offset_q])]

lsu_rdata_o == CASE data_type_q = "word" -> rdata_w_ext
                 [] data_type_q = "half" -> rdata_h_ext
                 [] data_type_q = "byte" -> rdata_b_ext

-----------------------------------------------------------------------------
(* The FSM.                                                                *)

split_misaligned_access == \/ lsu_type_i = "word" /\ data_offset # 0
                           \/ lsu_type_i = "half" /\ data_offset = 3

data_req_o == \/ ls_fsm_cs = "IDLE" /\ lsu_req_i
              \/ ls_fsm_cs \in {"WAIT_GNT_MIS", "WAIT_RVALID_MIS", "WAIT_GNT"}

UnalignedLast == data_addr                   \* mutant: second part not aligned
addr_last_d == IF addr_incr_req_o THEN Aligned(data_addr) ELSE data_addr

AddrUpdate(c) == addr_last_q' = IF c THEN addr_last_d ELSE addr_last_q

CtrlUpdate(c) ==
  /\ rdata_offset_q'  = IF c THEN data_offset ELSE rdata_offset_q
  /\ data_type_q'     = IF c THEN lsu_type_i ELSE data_type_q
  /\ data_sign_ext_q' = IF c THEN lsu_sign_ext_i ELSE data_sign_ext_q
  /\ data_we_q'       = IF c THEN lsu_we_i ELSE data_we_q

\* Lane 0 is not kept (data_rdata_i[31:8]).
RdataUpdate(c) ==
  rdata_q' = IF c THEN [data_rdata_i EXCEPT ![0] = ZeroByte] ELSE rdata_q

Idle ==
  /\ ls_fsm_cs = "IDLE"
  /\ pmp_err_q' = (lsu_req_i /\ data_pmp_err_i)
  /\ lsu_err_q' = (lsu_err_q /\ ~lsu_req_i)
  /\ handle_misaligned_q' = IF lsu_req_i /\ data_gnt_i THEN split_misaligned_access
                            ELSE handle_misaligned_q
  /\ ls_fsm_cs' = CASE ~lsu_req_i -> "IDLE"
                    [] lsu_req_i /\ data_gnt_i ->
                         IF split_misaligned_access THEN "WAIT_RVALID_MIS" ELSE "IDLE"
                    [] lsu_req_i /\ ~data_gnt_i ->
                         IF split_misaligned_access THEN "WAIT_GNT_MIS" ELSE "WAIT_GNT"
  /\ AddrUpdate(lsu_req_i /\ data_gnt_i)
  /\ CtrlUpdate(lsu_req_i /\ data_gnt_i)
  /\ RdataUpdate(FALSE)

WaitGntMis ==
  /\ ls_fsm_cs = "WAIT_GNT_MIS"
  /\ LET go == data_gnt_i \/ pmp_err_q
     IN /\ AddrUpdate(go) /\ CtrlUpdate(go)
        /\ handle_misaligned_q' = (go \/ handle_misaligned_q)
        /\ ls_fsm_cs' = IF go THEN "WAIT_RVALID_MIS" ELSE "WAIT_GNT_MIS"
  /\ RdataUpdate(FALSE)
  /\ UNCHANGED <<pmp_err_q, lsu_err_q>>

\* The first part is answered (or was refused by the PMP) while the second is
\* being requested.
WaitRvalidMisFirst ==
  /\ ls_fsm_cs = "WAIT_RVALID_MIS"
  /\ data_rvalid_i \/ pmp_err_q
  /\ pmp_err_q' = data_pmp_err_i
  /\ lsu_err_q' = (data_err_i \/ pmp_err_q)
  /\ RdataUpdate(~data_we_q)
  /\ ls_fsm_cs' = IF data_gnt_i THEN "IDLE" ELSE "WAIT_GNT"
  /\ AddrUpdate(data_gnt_i /\ ~(data_err_i \/ pmp_err_q))
  /\ handle_misaligned_q' = ~data_gnt_i
  /\ CtrlUpdate(FALSE)

WaitRvalidMisSecond ==
  /\ ls_fsm_cs = "WAIT_RVALID_MIS"
  /\ ~(data_rvalid_i \/ pmp_err_q)
  /\ ls_fsm_cs' = IF data_gnt_i THEN "WAIT_RVALID_MIS_GNTS_DONE" ELSE "WAIT_RVALID_MIS"
  /\ handle_misaligned_q' = (handle_misaligned_q /\ ~data_gnt_i)
  /\ AddrUpdate(FALSE) /\ CtrlUpdate(FALSE) /\ RdataUpdate(FALSE)
  /\ UNCHANGED <<pmp_err_q, lsu_err_q>>

WaitGnt ==
  /\ ls_fsm_cs = "WAIT_GNT"
  /\ LET go == data_gnt_i \/ pmp_err_q
     IN /\ CtrlUpdate(go)
        /\ AddrUpdate(go /\ ~lsu_err_q)
        /\ ls_fsm_cs' = IF go THEN "IDLE" ELSE "WAIT_GNT"
        /\ handle_misaligned_q' = (handle_misaligned_q /\ ~go)
  /\ RdataUpdate(FALSE)
  /\ UNCHANGED <<pmp_err_q, lsu_err_q>>

WaitRvalidMisGntsDone ==
  /\ ls_fsm_cs = "WAIT_RVALID_MIS_GNTS_DONE"
  /\ pmp_err_q' = IF data_rvalid_i THEN data_pmp_err_i ELSE pmp_err_q
  /\ lsu_err_q' = IF data_rvalid_i THEN data_err_i ELSE lsu_err_q
  /\ AddrUpdate(data_rvalid_i /\ ~data_err_i)
  /\ RdataUpdate(data_rvalid_i /\ ~data_we_q)
  /\ ls_fsm_cs' = IF data_rvalid_i THEN "IDLE" ELSE "WAIT_RVALID_MIS_GNTS_DONE"
  /\ CtrlUpdate(FALSE)
  /\ UNCHANGED handle_misaligned_q

LsuClock == \/ Idle \/ WaitGntMis \/ WaitRvalidMisFirst \/ WaitRvalidMisSecond
            \/ WaitGnt \/ WaitRvalidMisGntsDone

-----------------------------------------------------------------------------
(* Outputs.                                                                *)

SecondPartOnly == data_err_i \/ pmp_err_q    \* mutant: the first part's error is lost
data_or_pmp_err   == lsu_err_q \/ data_err_i \/ pmp_err_q
AnyResponse == data_rvalid_i \/ pmp_err_q    \* mutant: the first of two counts

NoPmpResponse == data_rvalid_i /\ ls_fsm_cs = "IDLE"   \* mutant
lsu_resp_valid_o  == (data_rvalid_i \/ pmp_err_q) /\ ls_fsm_cs = "IDLE"
lsu_rdata_valid_o == ls_fsm_cs = "IDLE" /\ data_rvalid_i /\ ~data_or_pmp_err /\ ~data_we_q
data_addr_o       == Aligned(data_addr)
load_err_o        == data_or_pmp_err /\ ~data_we_q /\ lsu_resp_valid_o
store_err_o       == data_or_pmp_err /\ data_we_q /\ lsu_resp_valid_o
busy_o            == ls_fsm_cs # "IDLE"
=============================================================================
