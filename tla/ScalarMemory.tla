----------------------------- MODULE ScalarMemory -----------------------------
(***************************************************************************)
(* The scalar loads and stores of the core: the ID stage's FSM             *)
(* (rtl/vcve2_id_stage.sv), the part of the controller that handles their  *)
(* exceptions (rtl/vcve2_controller.sv), the load/store unit, and the      *)
(* wiring of the three (rtl/vcve2_core.sv), on a data bus with physical    *)
(* memory protection.  A step is one clock cycle (see PrefetchBuffer).     *)
(*                                                                         *)
(* No vector instruction is in ID: vrf_req is low throughout, so           *)
(* lsu_interface passes the scalar address, data and request on and        *)
(* dmem_switch connects the load/store unit to the bus (VectorUnit has     *)
(* the other case).                                                        *)
(*                                                                         *)
(* External: the data memory grants requests in any cycle they are raised  *)
(* and answers them in order, each at least one cycle later, any of them   *)
(* with an error.                                                          *)
(***************************************************************************)
EXTENDS Integers, Sequences

CONSTANTS NWords,
          Instrs        \* the instructions the IF stage may deliver

VARIABLES
  in,                   \* inputs: fetch_valid, gnt, rvalid, err
  instr_valid_id_q, instr,                        \* IF-ID register, decoded
  id_fsm_q,                                       \* ID stage
  ctrl_fsm_cs, load_err_q, store_err_q,           \* controller
  ls_fsm_cs, handle_misaligned_q, pmp_err_q, lsu_err_q,
  rdata_q, rdata_offset_q, data_type_q, data_sign_ext_q, data_we_q, addr_last_q,
  inflight,             \* the memory's queue of granted requests
  written, failed       \* history of the instruction in ID: the bytes stored so
                        \* far and the words whose response was an error

core == <<instr_valid_id_q, instr, id_fsm_q, ctrl_fsm_cs, load_err_q, store_err_q>>
lsu  == <<ls_fsm_cs, handle_misaligned_q, pmp_err_q, lsu_err_q, rdata_q,
          rdata_offset_q, data_type_q, data_sign_ext_q, data_we_q, addr_last_q>>
clocked == <<core, lsu, inflight, written, failed>>
vars == <<in, clocked>>

ASSUME NWordsAssumption == NWords \in Nat /\ NWords >= 2

-----------------------------------------------------------------------------
(* Data: a byte is named by the place in memory it is read from, or, when  *)
(* it is stored, by its lane in the register (word = -1).                  *)

Byte     == [word : -1 .. NWords - 1, lane : 0 .. 3, sign : BOOLEAN]
Stored(l)     == [word |-> -1, lane |-> l, sign |-> FALSE]
Loaded(w, l)  == [word |-> w, lane |-> l, sign |-> FALSE]
ZeroByte == [word |-> -1, lane |-> 0, sign |-> TRUE]

-----------------------------------------------------------------------------
(* The ID stage decodes what it holds: mem says that it is a load or a     *)
(* store.  blocked is the set of words the PMP refuses to this access.     *)

InstrType == [mem : BOOLEAN, we : BOOLEAN, type : {"word", "half", "byte"},
              sext : BOOLEAN, addr : [word : 0 .. NWords - 1, lane : 0 .. 3],
              blocked : SUBSET (0 .. NWords - 1)]

ASSUME InstrsAssumption == Instrs \subseteq InstrType /\ \E i \in Instrs : ~i.mem

controller_run    == ctrl_fsm_cs = "DECODE"
instr_executing   == instr_valid_id_q /\ controller_run
instr_first_cycle == instr_valid_id_q /\ id_fsm_q = "FIRST_CYCLE"
lsu_req_dec       == instr.mem
lsu_req           == instr_executing /\ instr_first_cycle /\ lsu_req_dec

Lsu == INSTANCE LoadStoreUnit WITH
         lsu_req_i         <- lsu_req,
         lsu_we_i          <- instr.we,
         lsu_type_i        <- instr.type,
         lsu_sign_ext_i    <- instr.sext,
         lsu_wdata_i       <- [l \in 0 .. 3 |-> Stored(l)],
         addr_i            <- instr.addr,
         vec_be_i          <- 0 .. 3,
         data_gnt_i        <- in.gnt,
         data_rvalid_i     <- in.rvalid,
         data_err_i        <- in.err,
         pmp_blocked_i     <- instr.blocked,
         data_rdata_i      <- [l \in 0 .. 3 |->
                                IF in.rvalid THEN Loaded(Head(inflight).word, l)
                                             ELSE ZeroByte]

\* The PMP blocks the request of the load/store unit.
data_req_o == Lsu!data_req_o /\ ~Lsu!data_pmp_err_i

stall_mem == /\ instr_valid_id_q /\ lsu_req_dec
             /\ ~Lsu!lsu_resp_valid_o \/ instr_first_cycle

instr_done == ~stall_mem /\ instr_executing

IdClock ==
  id_fsm_q' = IF ~instr_executing THEN id_fsm_q
              ELSE CASE id_fsm_q = "FIRST_CYCLE" ->
                          IF lsu_req_dec THEN "MULTI_CYCLE" ELSE "FIRST_CYCLE"
                     [] id_fsm_q = "MULTI_CYCLE" ->
                          IF Lsu!lsu_resp_valid_o THEN "FIRST_CYCLE"
                                                  ELSE "MULTI_CYCLE"

-----------------------------------------------------------------------------
(* The controller, and the IF-ID register it controls.  The other reasons  *)
(* to leave DECODE are in Pipeline.                                        *)

exc_req_lsu == Lsu!load_err_o \/ Lsu!store_err_o
retain_id   == ctrl_fsm_cs = "DECODE" /\ exc_req_lsu
halt_if     == ctrl_fsm_cs = "FLUSH"
flush_id    == ctrl_fsm_cs = "FLUSH"
pc_set      == ctrl_fsm_cs = "FLUSH" /\ (store_err_q \/ load_err_q)
csr_mtval_o == addr_last_q

id_in_ready       == ~stall_mem /\ ~halt_if /\ ~retain_id
instr_valid_clear == ~(stall_mem \/ retain_id) \/ flush_id

new_instr         == in.fetch_valid /\ id_in_ready

ControllerClock ==
  /\ ctrl_fsm_cs' = IF retain_id THEN "FLUSH" ELSE "DECODE"
  /\ load_err_q'  = Lsu!load_err_o
  /\ store_err_q' = Lsu!store_err_o

IfIdClock ==
  /\ instr_valid_id_q' = \/ in.fetch_valid /\ id_in_ready /\ ~pc_set
                         \/ instr_valid_id_q /\ ~instr_valid_clear
  /\ IF new_instr THEN instr' \in Instrs ELSE UNCHANGED instr

-----------------------------------------------------------------------------
(* The memory.                                                             *)

Requests == [word : 0 .. NWords - 1]

Bytes(w, lanes) == { [word |-> w, lane |-> l, val |-> Lsu!data_wdata[l]] : l \in lanes }

granted == IF in.gnt THEN Append(inflight, [word |-> Lsu!data_addr_o.word])
                     ELSE inflight

Memory ==
  /\ inflight' = IF in.rvalid THEN Tail(granted) ELSE granted
  /\ written' = IF new_instr THEN {}
                ELSE IF in.gnt /\ instr.we
                THEN written \cup Bytes(Lsu!data_addr_o.word, Lsu!data_be)
                ELSE written
  /\ failed' = IF new_instr THEN {}
               ELSE IF in.rvalid /\ in.err
               THEN failed \cup {Head(inflight).word}
               ELSE failed

BusRules == /\ in.gnt => data_req_o
            /\ in.rvalid => inflight # <<>>
            /\ in.err => in.rvalid

Inputs == [fetch_valid : BOOLEAN, gnt : BOOLEAN, rvalid : BOOLEAN, err : BOOLEAN]

Drive == \E i \in Inputs : in' = i

Init ==
  /\ instr_valid_id_q = FALSE
  /\ instr \in { i \in Instrs : ~i.mem }         \* instr_rdata_id_o <= '0
  /\ id_fsm_q = "FIRST_CYCLE"
  /\ ctrl_fsm_cs = "DECODE" /\ load_err_q = FALSE /\ store_err_q = FALSE
  /\ Lsu!LsuInit
  /\ inflight = <<>> /\ written = {} /\ failed = {}
  /\ in \in Inputs /\ BusRules

Clock == /\ IdClock
         /\ ControllerClock
         /\ IfIdClock
         /\ Lsu!LsuClock
         /\ Memory
         /\ Drive
         /\ BusRules'

Spec == Init /\ [][Clock]_vars
-----------------------------------------------------------------------------
(* What the ISA promises.                                                  *)

Size(i) == CASE i.type = "word" -> 4 [] i.type = "half" -> 2 [] i.type = "byte" -> 1

\* The place of byte k of an access.
Place(i, k) ==
  IF i.addr.lane + k < 4
  THEN [word |-> i.addr.word, lane |-> i.addr.lane + k]
  ELSE [word |-> Lsu!NextWord(i.addr.word), lane |-> i.addr.lane + k - 4]

Crosses(i) == i.addr.lane + Size(i) > 4

ExpectedLoad(i) ==
  LET byte(k) == Loaded(Place(i, k).word, Place(i, k).lane)
      last    == byte(Size(i) - 1)
  IN [l \in 0 .. 3 |-> IF l < Size(i) THEN byte(l)
                       ELSE IF i.sext THEN [last EXCEPT !.sign = TRUE]
                       ELSE ZeroByte]

ExpectedStore(i) ==
  { [word |-> Place(i, k).word, lane |-> Place(i, k).lane, val |-> Stored(k)] :
      k \in 0 .. Size(i) - 1 }

\* The words of an access the PMP refused or the bus answered with an error.
Fails(w) == w \in instr.blocked \cup failed

FirstFails  == Fails(instr.addr.word)
SecondFails == Crosses(instr) /\ Fails(Lsu!NextWord(instr.addr.word))

-----------------------------------------------------------------------------
(* Properties.                                                             *)

\* NoMemResponseWithoutPendingAccess, and its converse at the other end: a
\* response on the data bus always finds the load or store it belongs to
\* still executing in ID, whatever the memory's delays and errors are, and
\* no instruction enters ID (or traps) while an access is under way.
NoOrphanResponse ==
  /\ in.rvalid => instr_executing /\ lsu_req_dec
  /\ ~(instr_valid_id_q /\ id_fsm_q = "MULTI_CYCLE") =>
       /\ inflight = <<>> /\ ls_fsm_cs = "IDLE" /\ ~pmp_err_q

\* A load writes the register file exactly with the bytes at its address, in
\* order, zero- or sign-extended from its last byte, whether they come from
\* one word or two, and only when no part of the access failed.
LoadCorrect ==
  Lsu!lsu_rdata_valid_o =>
    /\ instr_executing /\ lsu_req_dec /\ ~instr.we
    /\ Lsu!lsu_rdata_o = ExpectedLoad(instr)

\* A store never touches a byte outside its own, and when it completes
\* without an error every one of its bytes has been written.
StoreCorrect ==
  /\ written \subseteq ExpectedStore(instr)
  /\ Lsu!lsu_resp_valid_o /\ instr.we /\ ~exc_req_lsu => written = ExpectedStore(instr)

\* An access traps exactly when some part of it failed: a blocked half, a bus
\* error on the first half while the second is under way, or on the second.
ErrorReported ==
  Lsu!lsu_resp_valid_o =>
    (exc_req_lsu <=> FirstFails \/ SecondFails \/ in.err)

\* mtval is the first failing address: the address of the access when its
\* first word fails, and the word-aligned address of the second word when
\* only that one does (comment on addr_last_d).
FaultAddress ==
  load_err_q \/ store_err_q =>
    csr_mtval_o = IF FirstFails THEN instr.addr
                  ELSE [word |-> Lsu!NextWord(instr.addr.word), lane |-> 0]

\* OBI: a request on the data bus stays, with its address, byte enables and
\* write data, until it is granted.
RequestStable ==
  [][data_req_o /\ ~in.gnt
       => data_req_o' /\ <<Lsu!data_addr_o, Lsu!data_be, instr.we, Lsu!data_wdata>>'
                       = <<Lsu!data_addr_o, Lsu!data_be, instr.we, Lsu!data_wdata>>]_vars

-----------------------------------------------------------------------------
(* Liveness, under the assumptions of PrefetchBuffer on clock and memory.  *)

FairSpec == /\ Spec /\ WF_clocked(Clock)
            /\ []<>(data_req_o => in.gnt)
            /\ []<>(inflight # <<>> => in.rvalid)

\* Every load and store leaves ID: it completes or traps.
AccessEnds == []<>(~(instr_valid_id_q /\ lsu_req_dec) \/ instr_done \/ pc_set)
=============================================================================
