--------------------------- MODULE VectorUnitProofs ---------------------------
(***************************************************************************)
(* Proofs about the vector unit and the load/store unit on their common    *)
(* data bus, for any programs, memory and ALU, any delays of grants and    *)
(* any delays of the answers to the load/store unit.  That a request stays *)
(* until its grant bounds the delays of some grants.  The results of the   *)
(* instructions that compute vectors come last.                            *)
(***************************************************************************)
EXTENDS VectorUnit, SequenceTheorems, TLAPS

\* The classes of instructions.
Classes == {"load", "store", "arith", "scalar"}

\* Under which conditions: ID always has an instruction, and the VRF's answers
\* come in the cycle after the grant.  Without the first, an instruction that
\* has left ID starts again; without the second, the VRF does not wait for
\* the answer to its last write (see the README).
Tolerated == ~Bubbles /\ \A k \in Classes : <<k, "VRF">> \notin LateAnswer

-----------------------------------------------------------------------------
(* The inductive invariant.                                                *)

\* Whose requests the memory still has to answer.
OneOf(u) == inflight = <<Head(inflight)>> /\ Head(inflight).unit = u
TwoOfLsu == /\ inflight = <<inflight[1], inflight[2]>>
            /\ inflight[1].unit = "LSU" /\ inflight[2].unit = "LSU"

\* The load/store unit is in the middle of an access, which it has requested
\* already.
Accessing ==
  \/ ls_fsm_cs \in {"WAIT_GNT", "WAIT_GNT_MIS"} /\ inflight = <<>>
  \/ ls_fsm_cs \in {"IDLE", "WAIT_RVALID_MIS"} /\ OneOf("LSU")
  \/ ls_fsm_cs = "WAIT_RVALID_MIS_GNTS_DONE" /\ TwoOfLsu

LsuRest == ls_fsm_cs = "IDLE" /\ (inflight = <<>> \/ OneOf("VRF"))

\* The states in which the VRF waits for the load/store unit.
LsuTurn == \/ vrf_state = "LOAD" /\ ~last_iteration_q
           \/ vrf_state = "STORE_WAITLSU" /\ ~first_iteration_q

AtRest == /\ vrf_state = "IDLE" /\ curr_state_delay = "none"
          /\ ls_fsm_cs = "IDLE" /\ inflight = <<>>

ControlTypeOK ==
  /\ in \in Inputs /\ BusRules
  /\ instr_valid_id_q \in BOOLEAN /\ id_fsm_q \in {"FIRST_CYCLE", "MULTI_CYCLE"}
  /\ first_iteration_q \in BOOLEAN /\ last_iteration_q \in BOOLEAN /\ ~pmp_err_q
  /\ curr_state_delay \in {"none", "write", "read"}

\* An instruction starts at rest.  From then on the LSU has an access under way
\* exactly while the VRF waits for it, or a scalar instruction does, and
\* dmem_switch has remembered it; otherwise what is outstanding is the VRF's.
PhaseInv ==
  IF id_fsm_q = "FIRST_CYCLE"
  THEN AtRest /\ prev_op_q = "VRF" /\ (instr_valid_id_q \/ instr.kind = "other")
  ELSE /\ instr_valid_id_q
       /\ IF vrf_req
          THEN IF LsuTurn THEN prev_op_q = "LSU" /\ Accessing
                          ELSE prev_op_q = "VRF" /\ LsuRest
          ELSE /\ lsu_req_dec /\ Accessing
               /\ vrf_state = "IDLE" /\ curr_state_delay = "none"

IInv == /\ ControlTypeOK /\ PhaseInv
        /\ vrf_state = "START" => ~last_iteration_q

-----------------------------------------------------------------------------
(* The VRF's FSM.                                                          *)

Types == /\ first_iteration_q \in BOOLEAN /\ last_iteration_q \in BOOLEAN
         /\ (vrf_state = "START" => ~last_iteration_q)

\* What the VRF does in a cycle is what its state says.
LEMMA ByState ==
  ASSUME Vrf!VrfFsm
  PROVE  \/ vrf_state = "IDLE" /\ Vrf!Idle
         \/ vrf_state = "START" /\ Vrf!Start
         \/ vrf_state = "INT_READ1" /\ Vrf!IntRead1
         \/ vrf_state = "INT_READ2" /\ Vrf!IntRead2
         \/ vrf_state = "INT_READ3" /\ Vrf!IntRead3
         \/ vrf_state = "INT_WRITE" /\ Vrf!IntWrite
         \/ vrf_state = "LOAD_SLIDE" /\ Vrf!LoadSlide
         \/ vrf_state = "READ" /\ Vrf!Read
         \/ vrf_state = "WRITE" /\ Vrf!Write
         \/ vrf_state = "LOAD" /\ Vrf!Load
         \/ vrf_state = "LOAD_WAITGNT" /\ Vrf!LoadWaitGnt
         \/ vrf_state = "LOAD_WRITE" /\ Vrf!LoadWrite
         \/ vrf_state = "STORE_READ" /\ Vrf!StoreRead
         \/ vrf_state = "STORE_WAITLSU" /\ Vrf!StoreWaitLsu
         \/ vrf_state = "STORE_WAITGNT" /\ Vrf!StoreWaitGnt
<1>1. /\ Vrf!Idle => vrf_state = "IDLE"
      /\ Vrf!Start => vrf_state = "START"
      /\ Vrf!IntRead1 => vrf_state = "INT_READ1"
      /\ Vrf!IntRead2 => vrf_state = "INT_READ2"
      /\ Vrf!IntRead3 => vrf_state = "INT_READ3"
      /\ Vrf!IntWrite => vrf_state = "INT_WRITE"
      /\ Vrf!LoadSlide => vrf_state = "LOAD_SLIDE"
      /\ Vrf!Read => vrf_state = "READ"
      /\ Vrf!Write => vrf_state = "WRITE"
      /\ Vrf!Load => vrf_state = "LOAD"
      /\ Vrf!LoadWaitGnt => vrf_state = "LOAD_WAITGNT"
      /\ Vrf!LoadWrite => vrf_state = "LOAD_WRITE"
      /\ Vrf!StoreRead => vrf_state = "STORE_READ"
      /\ Vrf!StoreWaitLsu => vrf_state = "STORE_WAITLSU"
      /\ Vrf!StoreWaitGnt => vrf_state = "STORE_WAITGNT"
  BY DEF Vrf!State, Vrf!Idle, Vrf!Start, Vrf!IntRead1, Vrf!IntRead2, Vrf!IntRead3,
     Vrf!IntWrite, Vrf!LoadSlide, Vrf!Read, Vrf!Write, Vrf!Load, Vrf!LoadWaitGnt,
     Vrf!LoadWrite, Vrf!StoreRead, Vrf!StoreWaitLsu, Vrf!StoreWaitGnt
<1>. QED  BY <1>1, Zenon DEF Vrf!VrfFsm

\* While it waits for the LSU, the VRF requests nothing, and goes on with the
\* LSU's response.
LEMMA VrfTurn ==
  ASSUME Types, LsuTurn, Vrf!VrfFsm
  PROVE  /\ vrf_state # "IDLE" /\ ~Vrf!lsu_req_o
         /\ LsuTurn' <=> ~lsu_resp_valid
         /\ ~lsu_resp_valid => ~Vrf!data_req_o
<1>1. CASE vrf_state = "LOAD"
  <2>1. Vrf!Load /\ ~last_iteration_q
    BY <1>1, ByState DEF LsuTurn
  <2>2. LsuTurn' <=> ~lsu_resp_valid
    BY <1>1, <2>1 DEF Types, LsuTurn, Vrf!Load, Vrf!GoTo, Vrf!KeepIter
  <2>3. ~Vrf!lsu_req_o
    BY <1>1 DEF Vrf!lsu_req_o, Vrf!State
  <2>4. ~lsu_resp_valid => ~Vrf!data_req_o
    BY <1>1 DEF LsuTurn, Vrf!data_req_o, Vrf!agu_get_rs1_o, Vrf!agu_get_rs2_o,
       Vrf!agu_get_rd_o, Vrf!ReadsRd, Vrf!data_we_o, Vrf!State
  <2>. QED  BY <1>1, <2>2, <2>3, <2>4
<1>2. CASE vrf_state = "STORE_WAITLSU"
  <2>1. /\ ~first_iteration_q' /\ Vrf!StoreWaitLsu
    BY <1>2, ByState DEF Vrf!StoreWaitLsu
  <2>2. LsuTurn' <=> ~lsu_resp_valid
    BY <1>2, <2>1 DEF LsuTurn, Vrf!StoreWaitLsu, Vrf!GoTo, Vrf!Finish
  <2>3. ~Vrf!lsu_req_o
    BY <1>2 DEF Vrf!lsu_req_o, Vrf!State
  <2>4. ~lsu_resp_valid => ~Vrf!data_req_o
    BY <1>2 DEF LsuTurn, Vrf!data_req_o, Vrf!agu_get_rs1_o, Vrf!agu_get_rs2_o,
       Vrf!agu_get_rd_o, Vrf!ReadsRd, Vrf!data_we_o, Vrf!State
  <2>. QED  BY <1>2, <2>2, <2>3, <2>4
<1>. QED  BY <1>1, <1>2 DEF LsuTurn

\* Otherwise it begins to wait for the LSU exactly when it requests something of
\* it.
LEMMA VrfOther ==
  ASSUME Types, ~LsuTurn, Vrf!VrfFsm
  PROVE  LsuTurn' <=> Vrf!lsu_req_o
<1>1. CASE vrf_state = "START" /\ Vrf!Start
  BY <1>1 DEF Types, LsuTurn, Vrf!lsu_req_o, Vrf!State, Vrf!Start, Vrf!GoTo, Vrf!Granted,
     Vrf!KeepIter
<1>2. CASE vrf_state = "LOAD" /\ Vrf!Load
  BY <1>2 DEF Types, LsuTurn, Vrf!lsu_req_o, Vrf!State, Vrf!Load, Vrf!GoTo, Vrf!KeepIter
<1>3. CASE vrf_state = "LOAD_WRITE" /\ Vrf!LoadWrite
  BY <1>3 DEF Types, LsuTurn, Vrf!lsu_req_o, Vrf!State, Vrf!LoadWrite, Vrf!GoTo,
     Vrf!Finish, Vrf!Iterate
<1>4. CASE vrf_state = "STORE_READ" /\ Vrf!StoreRead
  BY <1>4 DEF Types, LsuTurn, Vrf!lsu_req_o, Vrf!State, Vrf!StoreRead, Vrf!GoTo,
     Vrf!KeepFirst
<1>5. CASE vrf_state = "STORE_WAITLSU" /\ Vrf!StoreWaitLsu
  BY <1>5 DEF Types, LsuTurn, Vrf!lsu_req_o, Vrf!State, Vrf!StoreWaitLsu, Vrf!GoTo,
     Vrf!Finish
<1>6. CASE vrf_state \notin {"START", "LOAD", "LOAD_WRITE", "STORE_READ", "STORE_WAITLSU"}
  <2>1. ~Vrf!lsu_req_o
    BY <1>6 DEF Vrf!lsu_req_o, Vrf!State
  <2>2. vrf_state' \notin {"LOAD", "STORE_WAITLSU"}
    BY <1>6, ByState DEF Vrf!Idle, Vrf!IntRead1, Vrf!IntRead2, Vrf!IntRead3, Vrf!IntWrite,
       Vrf!LoadSlide, Vrf!Read, Vrf!Write, Vrf!LoadWaitGnt, Vrf!StoreWaitGnt,
       Vrf!GoTo, Vrf!Granted, Vrf!Finish
  <2>. QED  BY <2>1, <2>2 DEF LsuTurn
<1>. QED  BY <1>1, <1>2, <1>3, <1>4, <1>5, <1>6, ByState

\* The flags of the iterations stay flags, and the FSM starts with last_iteration_q
\* clear.
LEMMA TypesStep ==
  ASSUME Types, Vrf!VrfFsm
  PROVE  Types'
<1>1. last_iteration_q' \in BOOLEAN /\ first_iteration_q' \in BOOLEAN
  BY ByState DEF Types, Vrf!Idle, Vrf!Start, Vrf!IntRead1, Vrf!IntRead2, Vrf!IntRead3,
     Vrf!IntWrite, Vrf!LoadSlide, Vrf!Read, Vrf!Write, Vrf!Load, Vrf!LoadWaitGnt,
     Vrf!LoadWrite, Vrf!StoreRead, Vrf!StoreWaitLsu, Vrf!StoreWaitGnt, Vrf!KeepFirst,
     Vrf!KeepIter, Vrf!Finish, Vrf!Iterate
<1>2. vrf_state' = "START" => ~last_iteration_q'
  BY ByState DEF Types, Vrf!Idle, Vrf!Start, Vrf!IntRead1, Vrf!IntRead2, Vrf!IntRead3,
     Vrf!IntWrite, Vrf!LoadSlide, Vrf!Read, Vrf!Write, Vrf!Load, Vrf!LoadWaitGnt,
     Vrf!LoadWrite, Vrf!StoreRead, Vrf!StoreWaitLsu, Vrf!StoreWaitGnt, Vrf!GoTo,
     Vrf!Granted, Vrf!KeepIter, Vrf!Finish
<1>. QED  BY <1>1, <1>2 DEF Types

\* When it is done, it is idle next, and has nothing to request.
LEMMA VrfDone ==
  ASSUME Types, Vrf!VrfFsm, Vrf!DelayFsm, Vrf!vector_done_o
  PROVE  /\ vrf_state' = "IDLE" /\ ~Vrf!lsu_req_o /\ ~Vrf!data_req_o
         /\ LsuTurn => lsu_resp_valid
         /\ curr_state_delay \in {"none", "write", "read"} => curr_state_delay' = "none"
<1>1. \/ vrf_state = "IDLE" /\ op.bytes = 0
      \/ vrf_state \in {"INT_WRITE", "WRITE", "LOAD_WRITE"} /\ last_iteration_q
      \/ vrf_state = "STORE_WAITLSU" /\ (lsu_resp_valid \/ first_iteration_q) /\ last_iteration_q
  BY DEF Vrf!vector_done_o, Vrf!State
<1>2. vrf_state' = "IDLE"
  BY <1>1, ByState DEF Vrf!Idle, Vrf!IntWrite, Vrf!Write, Vrf!LoadWrite, Vrf!StoreWaitLsu,
     Vrf!GoTo, Vrf!Finish, Vrf!accept
<1>3. ~Vrf!lsu_req_o
  BY <1>1 DEF Vrf!lsu_req_o, Vrf!State
<1>4. ~Vrf!data_req_o
  BY <1>1 DEF Vrf!data_req_o, Vrf!agu_get_rs1_o, Vrf!agu_get_rs2_o, Vrf!agu_get_rd_o,
     Vrf!ReadsRd, Vrf!data_we_o, Vrf!State
<1>5. LsuTurn => lsu_resp_valid
  BY <1>1 DEF LsuTurn, Types
<1>6. ~Vrf!write_delayed /\ ~Vrf!read_delayed
  BY <1>1 DEF Vrf!write_delayed, Vrf!read_delayed, Vrf!State
<1>7. curr_state_delay \in {"none", "write", "read"} => curr_state_delay' = "none"
  BY <1>6 DEF Vrf!DelayFsm
<1>. QED  BY <1>2, <1>3, <1>4, <1>5, <1>7

\* The delay FSM: a VRF that is idle has nothing delayed.
LEMMA DelayStep ==
  ASSUME Vrf!DelayFsm, curr_state_delay \in {"none", "write", "read"}
  PROVE  /\ curr_state_delay' \in {"none", "write", "read"}
         /\ vrf_state = "IDLE" => curr_state_delay' = "none"
<1>1. curr_state_delay' \in {"none", "write", "read"}
  BY DEF Vrf!DelayFsm
<1>2. vrf_state = "IDLE" => ~Vrf!write_delayed /\ ~Vrf!read_delayed
  BY DEF Vrf!write_delayed, Vrf!read_delayed, Vrf!State
<1>. QED  BY <1>1, <1>2 DEF Vrf!DelayFsm

\* At rest it accepts an instruction or stays.
LEMMA VrfIdle ==
  ASSUME Vrf!VrfFsm, vrf_state = "IDLE"
  PROVE  /\ vrf_state' \in {"IDLE", "START"} /\ (~vrf_req => vrf_state' = "IDLE")
         /\ ~Vrf!lsu_req_o /\ ~Vrf!data_req_o
<1>1. vrf_state' \in {"IDLE", "START"} /\ (~vrf_req => vrf_state' = "IDLE")
  BY ByState DEF Vrf!Idle, Vrf!GoTo, Vrf!accept
<1>2. ~Vrf!lsu_req_o
  BY DEF Vrf!lsu_req_o, Vrf!State
<1>3. ~Vrf!data_req_o
  BY DEF Vrf!data_req_o, Vrf!agu_get_rs1_o, Vrf!agu_get_rs2_o, Vrf!agu_get_rd_o,
     Vrf!ReadsRd, Vrf!data_we_o, Vrf!State
<1>. QED  BY <1>1, <1>2, <1>3

-----------------------------------------------------------------------------
(* The bus.                                                                *)

\* The types of the inputs; without bubbles there is always a next instruction.
LEMMA InputTypes ==
  ASSUME Tolerated, in \in Inputs
  PROVE  /\ in.vrf_gnt \in BOOLEAN /\ in.lsu_gnt \in BOOLEAN /\ in.rvalid \in BOOLEAN
         /\ in.fetch_valid /\ ~(in.vrf_gnt /\ in.lsu_gnt)
BY DEF Tolerated, Inputs

\* The rules of the bus: who is granted what, and when an answer comes.
LEMMA Bus ==
  ASSUME Tolerated, ControlTypeOK
  PROVE  /\ in.vrf_gnt => vrf_has_mem /\ Vrf!data_req_o
         /\ in.lsu_gnt => ~vrf_has_mem /\ Lsu!data_req_o
         /\ inflight = <<>> => ~in.rvalid
         /\ in.vrf_gnt => inflight = <<>> \/ in.rvalid
         /\ OneOf("VRF") => in.rvalid
<1>1. Class \in Classes
  BY DEF Class, Classes
<1>2. OneOf("VRF") => in.rvalid
  <2>1. SUFFICES ASSUME OneOf("VRF") PROVE in.rvalid
    OBVIOUS
  <2>2. inflight # <<>> /\ Head(inflight).unit = "VRF"
    BY <2>1 DEF OneOf
  <2>. QED  BY <1>1, <2>2 DEF Tolerated, ControlTypeOK, BusRules
<1>3. (in.vrf_gnt \/ in.lsu_gnt) => bus.req
  BY DEF ControlTypeOK, BusRules, gnt
<1>4. bus.req = IF vrf_has_mem THEN Vrf!data_req_o ELSE Lsu!data_req_o
  BY DEF bus
<1>. QED  BY <1>2, <1>3, <1>4 DEF ControlTypeOK, BusRules

\* The queues with at most two elements.
LEMMA ShortQueues ==
  ASSUME NEW a, NEW b
  PROVE  /\ Append(<<>>, b) = <<b>> /\ Append(<<a>>, b) = <<a, b>>
         /\ Tail(<<a>>) = <<>> /\ Tail(<<a, b>>) = <<b>> /\ Head(<<a, b>>) = a
<1>1. Append(<<>>, b) = <<b>>
  OBVIOUS
<1>2. Append(<<a>>, b) = <<a, b>>
  <2>1. <<a>> \in Seq({a, b}) /\ Len(<<a>>) = 1
    OBVIOUS
  <2>2. /\ Len(Append(<<a>>, b)) = 2 /\ Append(<<a>>, b) \in Seq({a, b})
        /\ Append(<<a>>, b)[1] = a /\ Append(<<a>>, b)[2] = b
    BY <2>1
  <2>3. /\ Len(<<a, b>>) = 2 /\ <<a, b>> \in Seq({a, b})
        /\ <<a, b>>[1] = a /\ <<a, b>>[2] = b
    OBVIOUS
  <2>4. \A i \in 1 .. 2 : Append(<<a>>, b)[i] = <<a, b>>[i]
    BY <2>2, <2>3
  <2>. QED  BY <2>2, <2>3, <2>4, SeqEqual
<1>3. Tail(<<a>>) = <<>>
  OBVIOUS
<1>4. Tail(<<a, b>>) = <<b>>
  OBVIOUS
<1>5. Head(<<a, b>>) = a
  OBVIOUS
<1>. QED  BY <1>1, <1>2, <1>3, <1>4, <1>5

\* What a cycle makes of the queue of requests that the memory still has to
\* answer.
LEMMA Flight ==
  ASSUME Tolerated, in \in Inputs, Memory
  PROVE  /\ \/ inflight = <<>> /\ ~in.rvalid
            \/ inflight = <<Head(inflight)>> /\ in.rvalid
            => /\ in.vrf_gnt => OneOf("VRF")'
               /\ in.lsu_gnt => OneOf("LSU")'
               /\ ~gnt => inflight' = <<>>
         /\ OneOf("LSU") /\ ~in.rvalid =>
              /\ ~gnt => OneOf("LSU")'
              /\ in.lsu_gnt => TwoOfLsu'
         /\ TwoOfLsu /\ ~gnt => IF in.rvalid THEN OneOf("LSU")' ELSE TwoOfLsu'
<1>. DEFINE new == [unit |-> IF in.vrf_gnt THEN "VRF" ELSE "LSU", data |-> memory[bus.word]]
<1>1. /\ gnt => granted = Append(inflight, new)
      /\ ~gnt => granted = inflight
      /\ in.rvalid => inflight' = Tail(granted)
      /\ ~in.rvalid => inflight' = granted
  BY DEF granted, Memory
<1>2. /\ in.vrf_gnt => new.unit = "VRF"
      /\ in.lsu_gnt => new.unit = "LSU"
      /\ gnt <=> in.vrf_gnt \/ in.lsu_gnt
  BY InputTypes DEF gnt
<1>. HIDE DEF new
<1>3. ASSUME NEW q, inflight' = <<q>>
      PROVE  OneOf(q.unit)'
  BY <1>3 DEF OneOf
<1>4. ASSUME \/ inflight = <<>> /\ ~in.rvalid
             \/ inflight = <<Head(inflight)>> /\ in.rvalid
      PROVE  /\ in.vrf_gnt => OneOf("VRF")'
             /\ in.lsu_gnt => OneOf("LSU")'
             /\ ~gnt => inflight' = <<>>
  <2>1. /\ gnt => inflight' = <<new>>
        /\ ~gnt => inflight' = <<>>
    <3>1. CASE inflight = <<>> /\ ~in.rvalid
      BY <1>1, <3>1, ShortQueues
    <3>2. CASE inflight = <<Head(inflight)>> /\ in.rvalid
      <4>1. PICK h : inflight = <<h>>
        BY <3>2
      <4>2. CASE gnt
        <5>1. granted = <<h, new>>
          BY <1>1, <4>1, <4>2, ShortQueues
        <5>. QED  BY <1>1, <3>2, <4>2, <5>1, ShortQueues
      <4>3. CASE ~gnt
        BY <1>1, <3>2, <4>1, <4>3, ShortQueues
      <4>. QED  BY <4>2, <4>3
    <3>. QED  BY <1>4, <3>1, <3>2
  <2>. QED  BY <1>2, <1>3, <2>1
<1>5. ASSUME OneOf("LSU"), ~in.rvalid
      PROVE  /\ ~gnt => OneOf("LSU")'
             /\ in.lsu_gnt => TwoOfLsu'
  <2>1. PICK h : inflight = <<h>> /\ h.unit = "LSU"
    BY <1>5 DEF OneOf
  <2>2. CASE ~gnt
    BY <1>1, <1>2, <1>3, <1>5, <2>1, <2>2
  <2>3. CASE in.lsu_gnt
    <3>1. inflight' = <<h, new>>
      BY <1>1, <1>2, <1>5, <2>1, <2>3, ShortQueues
    <3>. QED  BY <1>2, <2>1, <2>3, <3>1 DEF TwoOfLsu
  <2>. QED  BY <1>2, <2>2, <2>3
<1>6. ASSUME TwoOfLsu, ~gnt
      PROVE  IF in.rvalid THEN OneOf("LSU")' ELSE TwoOfLsu'
  <2>1. PICK h, l : inflight = <<h, l>> /\ h.unit = "LSU" /\ l.unit = "LSU"
    BY <1>6 DEF TwoOfLsu
  <2>2. CASE in.rvalid
    <3>1. inflight' = <<l>>
      BY <1>1, <1>6, <2>1, <2>2, ShortQueues
    <3>. QED  BY <1>3, <2>1, <2>2, <3>1
  <2>3. CASE ~in.rvalid
    BY <1>1, <1>6, <2>1, <2>3 DEF TwoOfLsu
  <2>. QED  BY <2>2, <2>3
<1>. QED  BY <1>4, <1>5, <1>6

-----------------------------------------------------------------------------
(* The load/store unit.                                                    *)

\* What it does in a cycle is what its state says.
LEMMA LsuByState ==
  ASSUME Lsu!LsuClock
  PROVE  \/ ls_fsm_cs = "IDLE" /\ Lsu!Idle
         \/ ls_fsm_cs = "WAIT_GNT_MIS" /\ Lsu!WaitGntMis
         \/ ls_fsm_cs = "WAIT_RVALID_MIS" /\ (Lsu!WaitRvalidMisFirst \/ Lsu!WaitRvalidMisSecond)
         \/ ls_fsm_cs = "WAIT_GNT" /\ Lsu!WaitGnt
         \/ ls_fsm_cs = "WAIT_RVALID_MIS_GNTS_DONE" /\ Lsu!WaitRvalidMisGntsDone
<1>1. /\ Lsu!Idle => ls_fsm_cs = "IDLE"
      /\ Lsu!WaitGntMis => ls_fsm_cs = "WAIT_GNT_MIS"
      /\ Lsu!WaitRvalidMisFirst \/ Lsu!WaitRvalidMisSecond => ls_fsm_cs = "WAIT_RVALID_MIS"
      /\ Lsu!WaitGnt => ls_fsm_cs = "WAIT_GNT"
      /\ Lsu!WaitRvalidMisGntsDone => ls_fsm_cs = "WAIT_RVALID_MIS_GNTS_DONE"
  BY DEF Lsu!Idle, Lsu!WaitGntMis, Lsu!WaitRvalidMisFirst, Lsu!WaitRvalidMisSecond,
     Lsu!WaitGnt, Lsu!WaitRvalidMisGntsDone
<1>. QED  BY <1>1, Zenon DEF Lsu!LsuClock

\* The PMP refuses nothing.
LEMMA NoPmpError ==
  ASSUME ~pmp_err_q, Lsu!LsuClock
  PROVE  ~pmp_err_q'
<1>1. ~Lsu!data_pmp_err_i
  BY DEF Lsu!data_pmp_err_i
<1>. QED  BY <1>1, LsuByState DEF Lsu!Idle, Lsu!WaitGntMis, Lsu!WaitRvalidMisFirst,
            Lsu!WaitRvalidMisSecond, Lsu!WaitGnt, Lsu!WaitRvalidMisGntsDone

\* No grant without a request.
LEMMA GrantsAsked ==
  ASSUME Tolerated, ControlTypeOK, ls_fsm_cs = "IDLE", ~lsu_if_req
  PROVE  ~in.lsu_gnt
<1>1. ~Lsu!data_req_o
  BY DEF Lsu!data_req_o
<1>. QED  BY <1>1, Bus

\* With the bus at rest, or with its answer to the VRF under way, a request
\* starts an access.
LEMMA LsuStarts ==
  ASSUME Tolerated, ControlTypeOK, LsuRest, Lsu!LsuClock, Memory, lsu_if_req, ~vrf_has_mem
  PROVE  Accessing'
<1>1. ~in.vrf_gnt /\ (gnt <=> in.lsu_gnt)
  BY Bus, InputTypes DEF ControlTypeOK, gnt
<1>2. /\ in.lsu_gnt => OneOf("LSU")'
      /\ ~in.lsu_gnt => inflight' = <<>>
  <2>1. \/ inflight = <<>> /\ ~in.rvalid
        \/ inflight = <<Head(inflight)>> /\ in.rvalid
    BY Bus DEF LsuRest, OneOf
  <2>. QED  BY <1>1, <2>1, Flight DEF ControlTypeOK
<1>3. ls_fsm_cs' \in IF in.lsu_gnt THEN {"IDLE", "WAIT_RVALID_MIS"}
                                  ELSE {"WAIT_GNT", "WAIT_GNT_MIS"}
  <2>1. Lsu!Idle
    BY LsuByState DEF LsuRest
  <2>. QED  BY <2>1 DEF Lsu!Idle
<1>. QED  BY <1>2, <1>3 DEF Accessing

\* Without a request it stays at rest.
LEMMA LsuStays ==
  ASSUME Tolerated, ControlTypeOK, LsuRest, Lsu!LsuClock, Memory, ~lsu_if_req
  PROVE  LsuRest' /\ (~in.vrf_gnt => inflight' = <<>>)
<1>1. ~in.lsu_gnt /\ (gnt <=> in.vrf_gnt)
  BY GrantsAsked, InputTypes DEF LsuRest, ControlTypeOK, gnt
<1>2. /\ in.vrf_gnt => OneOf("VRF")'
      /\ ~in.vrf_gnt => inflight' = <<>>
  <2>1. \/ inflight = <<>> /\ ~in.rvalid
        \/ inflight = <<Head(inflight)>> /\ in.rvalid
    BY Bus DEF LsuRest, OneOf
  <2>. QED  BY <1>1, <2>1, Flight DEF ControlTypeOK
<1>3. ls_fsm_cs' = "IDLE"
  BY LsuByState DEF LsuRest, Lsu!Idle
<1>. QED  BY <1>2, <1>3 DEF LsuRest

\* An access is answered, and then the unit is at rest, or it goes on, if the
\* VRF keeps away from the bus.
LEMMA LsuAnswered ==
  ASSUME Tolerated, ControlTypeOK, Accessing, Lsu!LsuClock, Memory, ~lsu_if_req,
         lsu_resp_valid
  PROVE  in.rvalid /\ ls_fsm_cs = "IDLE" /\ LsuRest' /\ (~in.vrf_gnt => inflight' = <<>>)
<1>1. in.rvalid /\ ls_fsm_cs = "IDLE"
  BY DEF lsu_resp_valid, LsuResp!lsu_resp_valid_o, ControlTypeOK, lsu_rvalid
<1>2. OneOf("LSU")
  BY <1>1, Bus DEF Accessing
<1>3. ~in.lsu_gnt /\ (gnt <=> in.vrf_gnt)
  BY <1>1, GrantsAsked, InputTypes DEF ControlTypeOK, gnt
<1>4. /\ in.vrf_gnt => OneOf("VRF")'
      /\ ~in.vrf_gnt => inflight' = <<>>
  BY <1>1, <1>2, <1>3, Flight DEF ControlTypeOK, OneOf
<1>5. ls_fsm_cs' = "IDLE"
  BY <1>1, LsuByState DEF Lsu!Idle
<1>. QED  BY <1>1, <1>4, <1>5 DEF LsuRest

\* Without a response the access goes on.
LEMMA LsuGoesOn ==
  ASSUME Tolerated, ControlTypeOK, Accessing, Lsu!LsuClock, Memory, ~lsu_if_req,
         ~lsu_resp_valid, ~in.vrf_gnt, lsu_rvalid <=> in.rvalid
  PROVE  Accessing'
<1>1. gnt <=> in.lsu_gnt
  BY DEF gnt
<1>2. CASE ls_fsm_cs \in {"WAIT_GNT", "WAIT_GNT_MIS"} /\ inflight = <<>>
  <2>1. /\ in.lsu_gnt => OneOf("LSU")'
        /\ ~in.lsu_gnt => inflight' = <<>>
    BY <1>1, <1>2, Bus, Flight DEF ControlTypeOK
  <2>2. IF in.lsu_gnt THEN ls_fsm_cs' \in {"IDLE", "WAIT_RVALID_MIS"}
                      ELSE ls_fsm_cs' = ls_fsm_cs
    BY <1>2, LsuByState DEF ControlTypeOK, Lsu!WaitGnt, Lsu!WaitGntMis
  <2>. QED  BY <1>2, <2>1, <2>2 DEF Accessing
<1>3. CASE ls_fsm_cs = "IDLE" /\ OneOf("LSU")
  <2>1. ~in.rvalid /\ ~in.lsu_gnt
    BY <1>3, GrantsAsked DEF lsu_resp_valid, LsuResp!lsu_resp_valid_o
  <2>2. OneOf("LSU")'
    BY <1>1, <1>3, <2>1, Flight DEF ControlTypeOK
  <2>3. ls_fsm_cs' = "IDLE"
    BY <1>3, LsuByState DEF Lsu!Idle
  <2>. QED  BY <2>2, <2>3 DEF Accessing
<1>4. CASE ls_fsm_cs = "WAIT_RVALID_MIS" /\ OneOf("LSU")
  <2>1. CASE in.rvalid
    <3>1. /\ in.lsu_gnt => OneOf("LSU")'
          /\ ~in.lsu_gnt => inflight' = <<>>
      BY <1>1, <1>4, <2>1, Flight DEF ControlTypeOK, OneOf
    <3>2. ls_fsm_cs' = IF in.lsu_gnt THEN "IDLE" ELSE "WAIT_GNT"
      BY <1>4, <2>1, LsuByState DEF Lsu!WaitRvalidMisFirst, Lsu!WaitRvalidMisSecond
    <3>. QED  BY <3>1, <3>2 DEF Accessing
  <2>2. CASE ~in.rvalid
    <3>1. /\ in.lsu_gnt => TwoOfLsu'
          /\ ~in.lsu_gnt => OneOf("LSU")'
      BY <1>1, <1>4, <2>2, Flight DEF ControlTypeOK
    <3>2. ls_fsm_cs' = IF in.lsu_gnt THEN "WAIT_RVALID_MIS_GNTS_DONE" ELSE "WAIT_RVALID_MIS"
      BY <1>4, <2>2, LsuByState DEF ControlTypeOK, Lsu!WaitRvalidMisFirst,
         Lsu!WaitRvalidMisSecond
    <3>. QED  BY <3>1, <3>2 DEF Accessing
  <2>. QED  BY <2>1, <2>2
<1>5. CASE ls_fsm_cs = "WAIT_RVALID_MIS_GNTS_DONE" /\ TwoOfLsu
  <2>1. ~in.lsu_gnt
    <3>1. ~Lsu!data_req_o
      BY <1>5 DEF Lsu!data_req_o
    <3>. QED  BY <3>1, Bus
  <2>2. IF in.rvalid THEN OneOf("LSU")' ELSE TwoOfLsu'
    BY <1>1, <1>5, <2>1, Flight DEF ControlTypeOK
  <2>3. ls_fsm_cs' = IF in.rvalid THEN "IDLE" ELSE "WAIT_RVALID_MIS_GNTS_DONE"
    BY <1>5, LsuByState DEF Lsu!WaitRvalidMisGntsDone
  <2>. QED  BY <2>2, <2>3 DEF Accessing
<1>. QED  BY <1>2, <1>3, <1>4, <1>5 DEF Accessing

-----------------------------------------------------------------------------
(* Every cycle preserves the invariant.                                    *)

\* A stalled instruction stays in ID; another one follows in the cycle after.
LEMMA InId ==
  ASSUME Tolerated, in \in Inputs, IfIdClock
  PROVE  /\ stall_id => instr' = instr /\ (instr_valid_id_q' <=> instr_valid_id_q)
         /\ ~stall_id => instr_valid_id_q'
BY InputTypes DEF IfIdClock, new_instr

\* The types stay.
LEMMA ControlTypeStep ==
  ASSUME Tolerated, IInv, Clock
  PROVE  ControlTypeOK'
<1>1. in' \in Inputs /\ BusRules'
  BY DEF Clock, Drive
<1>2. instr_valid_id_q' \in BOOLEAN
  BY DEF IInv, ControlTypeOK, Clock, IfIdClock
<1>3. id_fsm_q' \in {"FIRST_CYCLE", "MULTI_CYCLE"}
  BY DEF IInv, ControlTypeOK, Clock, IdClock
<1>4. first_iteration_q' \in BOOLEAN /\ last_iteration_q' \in BOOLEAN
  BY TypesStep DEF IInv, ControlTypeOK, Clock, Vrf!VrfClock, Types
<1>5. ~pmp_err_q'
  BY NoPmpError DEF IInv, ControlTypeOK, Clock
<1>6. curr_state_delay' \in {"none", "write", "read"}
  BY DelayStep DEF IInv, ControlTypeOK, Clock, Vrf!VrfClock
<1>7. Inputs' = Inputs
  BY DEF Inputs
<1>. QED  BY <1>1, <1>2, <1>3, <1>4, <1>5, <1>6, <1>7 DEF ControlTypeOK

\* The facts of a cycle that the cases below rest on.
Facts ==
  /\ ControlTypeOK /\ PhaseInv /\ Types
  /\ Vrf!VrfFsm /\ Vrf!DelayFsm /\ Lsu!LsuClock /\ Memory
  /\ IdClock /\ IfIdClock /\ SwitchClock

\* An instruction in its first cycle.
LEMMA FirstCycle ==
  ASSUME Tolerated, Facts, id_fsm_q = "FIRST_CYCLE"
  PROVE  PhaseInv'
<1>1. /\ AtRest /\ LsuRest /\ prev_op_q = "VRF"
      /\ instr_valid_id_q \/ instr.kind = "other"
  BY DEF Facts, PhaseInv, AtRest, LsuRest
<1>2. /\ vrf_state' \in {"IDLE", "START"} /\ (~vrf_req => vrf_state' = "IDLE")
      /\ ~Vrf!lsu_req_o /\ ~Vrf!data_req_o /\ curr_state_delay' = "none"
  BY <1>1, VrfIdle, DelayStep DEF Facts, AtRest, ControlTypeOK
<1>3. ~in.vrf_gnt
  BY <1>2, Bus DEF Facts
<1>4. CASE ~vrf_req /\ ~lsu_req_dec
  <2>1. ~lsu_if_req
    BY <1>4 DEF lsu_if_req, lsu_req
  <2>2. ls_fsm_cs' = "IDLE" /\ inflight' = <<>>
    BY <1>1, <1>3, <2>1, LsuStays DEF Facts, LsuRest
  <2>3. id_fsm_q' = "FIRST_CYCLE"
    BY <1>4, id_fsm_q = "FIRST_CYCLE" DEF Facts, IdClock
  <2>4. prev_op_q' = "VRF"
    BY <1>4 DEF Facts, SwitchClock
  <2>5. instr_valid_id_q'
    <3>1. ~stall_id
      BY <1>4 DEF stall_id, stall_vec, stall_mem
    <3>. QED  BY <3>1, InId DEF Facts, ControlTypeOK
  <2>. QED  BY <1>2, <1>4, <2>2, <2>3, <2>4, <2>5 DEF PhaseInv, AtRest
<1>5. CASE ~vrf_req /\ lsu_req_dec
  <2>1. instr_valid_id_q
    BY <1>1, <1>5 DEF lsu_req_dec
  <2>2. lsu_if_req /\ ~vrf_has_mem
    BY <1>5, <2>1, id_fsm_q = "FIRST_CYCLE"
       DEF lsu_if_req, lsu_req, instr_executing, instr_first_cycle, vrf_has_mem
  <2>3. Accessing'
    BY <1>1, <2>2, LsuStarts DEF Facts
  <2>4. id_fsm_q' = "MULTI_CYCLE"
    BY <1>5, <2>1, id_fsm_q = "FIRST_CYCLE" DEF Facts, IdClock, instr_executing
  <2>5. instr' = instr /\ instr_valid_id_q'
    <3>1. stall_id
      BY <1>5, <2>1, id_fsm_q = "FIRST_CYCLE" DEF stall_id, stall_mem, instr_first_cycle
    <3>. QED  BY <2>1, <3>1, InId DEF Facts, ControlTypeOK
  <2>. QED  BY <1>2, <1>5, <2>3, <2>4, <2>5 DEF PhaseInv, vrf_req, lsu_req_dec
<1>6. CASE vrf_req
  <2>1. instr_valid_id_q
    BY <1>1, <1>6 DEF vrf_req, Scalars
  <2>2. ~lsu_if_req
    BY <1>2, <1>6 DEF lsu_if_req
  <2>3. LsuRest'
    BY <1>1, <2>2, LsuStays DEF Facts
  <2>4. id_fsm_q' = "MULTI_CYCLE"
    BY <1>6, <2>1, id_fsm_q = "FIRST_CYCLE" DEF Facts, IdClock, instr_executing
  <2>5. instr' = instr /\ instr_valid_id_q'
    <3>1. stall_id
      BY <1>6, <2>1, id_fsm_q = "FIRST_CYCLE" DEF stall_id, stall_vec, instr_executing
    <3>. QED  BY <2>1, <3>1, InId DEF Facts, ControlTypeOK
  <2>6. prev_op_q' = "VRF"
    BY <1>1, <1>2, <1>6 DEF Facts, SwitchClock, vrf_has_mem, AtRest, Lsu!busy_o
  <2>7. ~LsuTurn'
    BY <1>2 DEF LsuTurn
  <2>. QED  BY <1>6, <2>3, <2>4, <2>5, <2>6, <2>7 DEF PhaseInv, vrf_req
<1>. QED  BY <1>4, <1>5, <1>6

\* A vector instruction while the VRF waits for the LSU.
LEMMA WaitsForLsu ==
  ASSUME Tolerated, Facts, id_fsm_q = "MULTI_CYCLE", vrf_req, LsuTurn
  PROVE  PhaseInv'
<1>1. instr_valid_id_q /\ prev_op_q = "LSU" /\ Accessing
  BY id_fsm_q = "MULTI_CYCLE" DEF Facts, PhaseInv
<1>2. /\ ~Vrf!lsu_req_o
      /\ LsuTurn' <=> ~lsu_resp_valid
      /\ ~lsu_resp_valid => ~Vrf!data_req_o
  BY VrfTurn DEF Facts
<1>3. ~lsu_if_req
  BY <1>2 DEF lsu_if_req
<1>4. CASE lsu_resp_valid
  <2>1. ls_fsm_cs = "IDLE" /\ LsuRest' /\ (~in.vrf_gnt => inflight' = <<>>)
    BY <1>1, <1>3, <1>4, LsuAnswered DEF Facts
  <2>2. prev_op_q' = "VRF"
    BY <1>2, <1>4, <2>1 DEF Facts, SwitchClock, vrf_has_mem, Lsu!busy_o
  <2>3. CASE Vrf!vector_done_o
    <3>1. vrf_state' = "IDLE" /\ curr_state_delay' = "none" /\ ~Vrf!data_req_o
      BY <2>3, VrfDone DEF Facts, ControlTypeOK
    <3>2. inflight' = <<>>
      BY <2>1, <3>1, Bus DEF Facts
    <3>3. id_fsm_q' = "FIRST_CYCLE"
      BY <1>1, <2>3, id_fsm_q = "MULTI_CYCLE"
         DEF Facts, IdClock, instr_executing, multicycle_done
    <3>4. instr_valid_id_q'
      <4>1. ~stall_id
        BY <2>3, id_fsm_q = "MULTI_CYCLE"
           DEF stall_id, stall_vec, stall_mem, vrf_req, lsu_req_dec, Scalars
      <4>. QED  BY <4>1, InId DEF Facts, ControlTypeOK
    <3>. QED  BY <2>1, <2>2, <3>1, <3>2, <3>3, <3>4 DEF PhaseInv, AtRest, LsuRest
  <2>4. CASE ~Vrf!vector_done_o
    <3>1. id_fsm_q' = "MULTI_CYCLE"
      BY <1>1, <2>4, id_fsm_q = "MULTI_CYCLE"
         DEF Facts, IdClock, instr_executing, multicycle_done
    <3>2. instr' = instr /\ instr_valid_id_q'
      <4>1. stall_id
        BY <1>1, <2>4 DEF stall_id, stall_vec, instr_executing
      <4>. QED  BY <1>1, <4>1, InId DEF Facts, ControlTypeOK
    <3>. QED  BY <1>2, <1>4, <2>1, <2>2, <3>1, <3>2 DEF PhaseInv, vrf_req
  <2>. QED  BY <2>3, <2>4
<1>5. CASE ~lsu_resp_valid
  <2>1. Accessing'
    <3>1. lsu_rvalid <=> in.rvalid
      BY <1>1, InputTypes DEF lsu_rvalid, Facts, ControlTypeOK
    <3>2. ~in.vrf_gnt
      BY <1>2, <1>5, Bus DEF Facts
    <3>. QED  BY <1>1, <1>3, <1>5, <3>1, <3>2, LsuGoesOn DEF Facts
  <2>2. prev_op_q' = "LSU"
    BY <1>1, <1>5 DEF Facts, SwitchClock
  <2>3. ~Vrf!vector_done_o
    BY <1>5, VrfDone DEF Facts
  <2>4. id_fsm_q' = "MULTI_CYCLE"
    BY <1>1, <2>3, id_fsm_q = "MULTI_CYCLE"
       DEF Facts, IdClock, instr_executing, multicycle_done
  <2>5. instr' = instr /\ instr_valid_id_q'
    <3>1. stall_id
      BY <1>1, <2>3 DEF stall_id, stall_vec, instr_executing
    <3>. QED  BY <1>1, <3>1, InId DEF Facts, ControlTypeOK
  <2>. QED  BY <1>2, <1>5, <2>1, <2>2, <2>4, <2>5 DEF PhaseInv, vrf_req
<1>. QED  BY <1>4, <1>5

\* A vector instruction while the VRF works by itself.
LEMMA WorksAlone ==
  ASSUME Tolerated, Facts, id_fsm_q = "MULTI_CYCLE", vrf_req, ~LsuTurn
  PROVE  PhaseInv'
<1>1. instr_valid_id_q /\ prev_op_q = "VRF" /\ LsuRest
  BY id_fsm_q = "MULTI_CYCLE" DEF Facts, PhaseInv
<1>2. LsuTurn' <=> Vrf!lsu_req_o
  BY VrfOther DEF Facts
<1>3. vrf_has_mem <=> ~Vrf!lsu_req_o
  BY <1>1 DEF vrf_has_mem, LsuRest, Lsu!busy_o
<1>4. prev_op_q' = IF Vrf!lsu_req_o THEN "LSU" ELSE "VRF"
  BY <1>1, <1>3 DEF Facts, SwitchClock
<1>5. /\ Vrf!lsu_req_o => Accessing'
      /\ ~Vrf!lsu_req_o => LsuRest' /\ (~in.vrf_gnt => inflight' = <<>>)
  BY <1>1, <1>3, LsuStarts, LsuStays DEF Facts, lsu_if_req
<1>6. CASE Vrf!vector_done_o
  <2>1. /\ vrf_state' = "IDLE" /\ curr_state_delay' = "none"
        /\ ~Vrf!lsu_req_o /\ ~Vrf!data_req_o
    BY <1>6, VrfDone DEF Facts, ControlTypeOK
  <2>2. ls_fsm_cs' = "IDLE" /\ inflight' = <<>>
    BY <1>5, <2>1, Bus DEF Facts, LsuRest
  <2>3. id_fsm_q' = "FIRST_CYCLE"
    BY <1>1, <1>6, id_fsm_q = "MULTI_CYCLE"
       DEF Facts, IdClock, instr_executing, multicycle_done
  <2>4. instr_valid_id_q'
    <3>1. ~stall_id
      BY <1>6, id_fsm_q = "MULTI_CYCLE"
         DEF stall_id, stall_vec, stall_mem, vrf_req, lsu_req_dec, Scalars
    <3>. QED  BY <3>1, InId DEF Facts, ControlTypeOK
  <2>. QED  BY <1>4, <2>1, <2>2, <2>3, <2>4 DEF PhaseInv, AtRest
<1>7. CASE ~Vrf!vector_done_o
  <2>1. id_fsm_q' = "MULTI_CYCLE"
    BY <1>1, <1>7, id_fsm_q = "MULTI_CYCLE"
       DEF Facts, IdClock, instr_executing, multicycle_done
  <2>2. instr' = instr /\ instr_valid_id_q'
    <3>1. stall_id
      BY <1>1, <1>7 DEF stall_id, stall_vec, instr_executing
    <3>. QED  BY <1>1, <3>1, InId DEF Facts, ControlTypeOK
  <2>. QED  BY <1>2, <1>4, <1>5, <2>1, <2>2 DEF PhaseInv, vrf_req
<1>. QED  BY <1>6, <1>7

\* A scalar load or store.
LEMMA ScalarAccess ==
  ASSUME Tolerated, Facts, id_fsm_q = "MULTI_CYCLE", ~vrf_req
  PROVE  PhaseInv'
<1>1. /\ instr_valid_id_q /\ lsu_req_dec /\ Accessing
      /\ vrf_state = "IDLE" /\ curr_state_delay = "none"
  BY id_fsm_q = "MULTI_CYCLE" DEF Facts, PhaseInv
<1>2. ~lsu_if_req /\ ~vrf_has_mem
  BY id_fsm_q = "MULTI_CYCLE" DEF lsu_if_req, lsu_req, instr_first_cycle, vrf_has_mem
<1>3. ~in.vrf_gnt
  BY <1>2, Bus DEF Facts
<1>4. vrf_state' = "IDLE" /\ curr_state_delay' = "none"
  BY <1>1, VrfIdle, DelayStep DEF Facts
<1>5. prev_op_q' = "VRF"
  BY DEF Facts, SwitchClock
<1>6. id_fsm_q' = IF lsu_resp_valid THEN "FIRST_CYCLE" ELSE "MULTI_CYCLE"
  BY <1>1, id_fsm_q = "MULTI_CYCLE" DEF Facts, IdClock, instr_executing, multicycle_done
<1>7. stall_id <=> ~lsu_resp_valid
  BY <1>1, id_fsm_q = "MULTI_CYCLE"
     DEF stall_id, stall_vec, stall_mem, instr_first_cycle
<1>8. CASE lsu_resp_valid
  <2>1. ls_fsm_cs' = "IDLE" /\ inflight' = <<>>
    BY <1>1, <1>2, <1>3, <1>8, LsuAnswered DEF Facts, LsuRest
  <2>2. instr_valid_id_q'
    BY <1>7, <1>8, InId DEF Facts, ControlTypeOK
  <2>. QED  BY <1>4, <1>5, <1>6, <1>8, <2>1, <2>2 DEF PhaseInv, AtRest
<1>9. CASE ~lsu_resp_valid
  <2>1. Accessing'
    <3>1. lsu_rvalid <=> in.rvalid
      BY InputTypes DEF lsu_rvalid, Facts, ControlTypeOK
    <3>. QED  BY <1>1, <1>2, <1>3, <1>9, <3>1, LsuGoesOn DEF Facts
  <2>2. instr' = instr /\ instr_valid_id_q'
    BY <1>1, <1>7, <1>9, InId DEF Facts, ControlTypeOK
  <2>. QED  BY <1>1, <1>4, <1>6, <1>9, <2>1, <2>2 DEF PhaseInv, vrf_req, lsu_req_dec
<1>. QED  BY <1>8, <1>9

\* Every step preserves IInv.
LEMMA Step ==
  ASSUME Tolerated, IInv, [Clock]_vars
  PROVE  IInv'
<1>1. CASE Clock
  <2>1. Facts
    BY <1>1 DEF Facts, IInv, ControlTypeOK, Types, Clock, Vrf!VrfClock
  <2>2. PhaseInv'
    BY <2>1, FirstCycle, WaitsForLsu, WorksAlone, ScalarAccess DEF Facts, ControlTypeOK
  <2>3. vrf_state' = "START" => ~last_iteration_q'
    BY <2>1, TypesStep DEF Facts, Types
  <2>. QED  BY <1>1, <2>2, <2>3, ControlTypeStep DEF IInv
<1>2. CASE UNCHANGED vars
  <2>1. /\ LsuTurn' = LsuTurn /\ AtRest' = AtRest
        /\ LsuRest' = LsuRest /\ Accessing' = Accessing
        /\ vrf_req' = vrf_req /\ lsu_req_dec' = lsu_req_dec
    BY <1>2 DEF vars, clocked, id, vrf, lsu, LsuTurn, AtRest, LsuRest, Accessing, OneOf,
       TwoOfLsu, vrf_req, lsu_req_dec
  <2>2. PhaseInv'
    BY <1>2, <2>1 DEF vars, clocked, id, vrf, IInv, PhaseInv
  <2>3. BusRules'
    <3>1. /\ op' = op /\ lsu_resp_valid' = lsu_resp_valid /\ vrf_data_rvalid' = vrf_data_rvalid
          /\ Class' = Class /\ gnt' = gnt /\ lsu_req' = lsu_req
      BY <1>2, <2>1 DEF vars, clocked, id, vrf, lsu, op, vrf_sel_operation, vrf_memory_op,
         vrf_slide_op, lsu_resp_valid, LsuResp!lsu_resp_valid_o, lsu_rvalid,
         vrf_data_rvalid, Class, gnt, lsu_req, instr_executing, instr_first_cycle
    <3>2. Vrf!last_next' = Vrf!last_next
      BY <1>2, <3>1 DEF vars, clocked, vrf, Vrf!last_next, Vrf!no_offset, Vrf!SlideDown
    <3>3. Vrf!lsu_req_o' = Vrf!lsu_req_o /\ Vrf!data_req_o' = Vrf!data_req_o
      BY <1>2, <3>1, <3>2 DEF vars, clocked, vrf, Vrf!lsu_req_o, Vrf!data_req_o,
         Vrf!agu_get_rs1_o, Vrf!agu_get_rs2_o, Vrf!agu_get_rd_o, Vrf!ReadsRd, Vrf!data_we_o,
         Vrf!State, Vrf!sel
    <3>4. vrf_has_mem' = vrf_has_mem /\ Lsu!data_req_o' = Lsu!data_req_o
      BY <1>2, <2>1, <3>1, <3>3 DEF vars, clocked, lsu, vrf_has_mem, Lsu!busy_o,
         Lsu!data_req_o, lsu_if_req
    <3>5. bus.req' = bus.req
      BY <3>3, <3>4 DEF bus
    <3>. QED  BY <1>2, <3>1, <3>4, <3>5
              DEF vars, clocked, IInv, ControlTypeOK, BusRules, Requester
  <2>. QED  BY <1>2, <2>2, <2>3 DEF vars, clocked, id, vrf, lsu, IInv, ControlTypeOK, Inputs
<1>. QED  BY <1>1, <1>2

\* IInv holds initially.
LEMMA Initially ==
  ASSUME Tolerated, Init
  PROVE  IInv
<1>1. /\ instr.kind = "other" /\ ~instr_valid_id_q /\ id_fsm_q = "FIRST_CYCLE"
      /\ prev_op_q = "VRF" /\ inflight = <<>> /\ in \in Inputs /\ BusRules
  BY DEF Init, Other
<1>2. /\ vrf_state = "IDLE" /\ curr_state_delay = "none"
      /\ first_iteration_q \in BOOLEAN /\ last_iteration_q \in BOOLEAN
  BY DEF Init, Vrf!VrfInit
<1>3. ls_fsm_cs = "IDLE" /\ ~pmp_err_q
  BY DEF Init, Lsu!LsuInit
<1>. QED  BY <1>1, <1>2, <1>3 DEF Init, IInv, ControlTypeOK, PhaseInv, AtRest

\* IInv holds in every reachable state.
THEOREM Invariance ==
  ASSUME Tolerated
  PROVE  Spec => []IInv
<1>1. Init => IInv
  BY Initially
<1>2. IInv /\ [Clock]_vars => IInv'
  BY Step
<1>. QED  BY <1>1, <1>2, PTL DEF Spec

-----------------------------------------------------------------------------
(* What it implies.                                                        *)

\* dmem_switch's one register of memory, prev_op_q, is enough to hand every
\* answer to the unit that asked, however long grants take and however late
\* the answers to the LSU come.
THEOREM AnswersRouted ==
  ASSUME Tolerated
  PROVE  Spec => []AnswerRouted
<1>1. IInv => AnswerRouted
  <2>1. SUFFICES ASSUME IInv, in.rvalid
                 PROVE  vrf_data_rvalid <=> Head(inflight).unit = "VRF"
    BY DEF AnswerRouted
  <2>2. inflight # <<>>
    BY <2>1, Bus DEF IInv
  <2>3. ASSUME Accessing PROVE Head(inflight).unit = "LSU"
    <3>1. CASE OneOf("LSU")
      BY <3>1 DEF OneOf
    <3>2. CASE TwoOfLsu
      <4>1. PICK h, l : inflight = <<h, l>> /\ h.unit = "LSU"
        BY <3>2 DEF TwoOfLsu
      <4>. QED  BY <4>1, ShortQueues
    <3>. QED  BY <2>2, <2>3, <3>1, <3>2 DEF Accessing
  <2>4. ASSUME LsuRest PROVE Head(inflight).unit = "VRF"
    BY <2>2, <2>4 DEF LsuRest, OneOf
  <2>5. id_fsm_q = "MULTI_CYCLE"
    BY <2>1, <2>2 DEF IInv, ControlTypeOK, PhaseInv, AtRest
  <2>. QED  BY <2>1, <2>3, <2>4, <2>5 DEF IInv, PhaseInv, vrf_data_rvalid
<1>. QED  BY <1>1, Invariance, PTL

\* Every instruction starts with the VRF, the LSU and the bus at rest.
THEOREM CleanStarts ==
  ASSUME Tolerated
  PROVE  Spec => []CleanStart
<1>1. IInv => CleanStart
  BY DEF IInv, PhaseInv, AtRest, CleanStart, instr_first_cycle
<1>. QED  BY <1>1, Invariance, PTL

\* The assertion NoMemResponseWithoutPendingAccess, which a run refutes where ID
\* can be empty, holds where it cannot.
THEOREM ResponsesExpected ==
  ASSUME Tolerated
  PROVE  Spec => []NoMemResponseWithoutInstruction
<1>1. IInv => NoMemResponseWithoutInstruction
  <2>1. SUFFICES ASSUME IInv, in.rvalid
                 PROVE  instr_executing /\ (lsu_req_dec \/ vrf_req)
    BY DEF NoMemResponseWithoutInstruction
  <2>2. inflight # <<>>
    BY <2>1, Bus DEF IInv
  <2>. QED  BY <2>1, <2>2 DEF IInv, PhaseInv, AtRest, instr_executing
<1>. QED  BY <1>1, Invariance, PTL

-----------------------------------------------------------------------------
(* Requests that wait for their grant.                                     *)

\* Which delays of grants a request survives: the VRF keeps the data of a write
\* of a vector load, and those of a vector store, for one cycle only.
InTime == <<"load", "VRF">> \notin LateGrant /\ <<"store", "LSU">> \notin LateGrant

LoadStates  == {"LOAD", "LOAD_WRITE", "LOAD_WAITGNT"}
StoreStates == {"STORE_READ", "STORE_WAITLSU", "STORE_WAITGNT"}
ArithStates == {"INT_READ1", "INT_READ2", "INT_READ3", "INT_WRITE", "LOAD_SLIDE",
                "READ", "WRITE"}
ArithKinds  == {"vv", "vx", "macc_vv", "macc_vx", "mv_v", "mv_x", "slideup", "slidedown"}

\* The states of the VRF belong to the instruction in ID, what it keeps of a
\* delayed request is kept where it still waits, and the load/store unit knows
\* which part of a misaligned access it requests.
KindInv ==
  /\ vrf_state \in LoadStates  => instr.kind = "load"
  /\ vrf_state \in StoreStates => instr.kind = "store"
  /\ vrf_state \in ArithStates => instr.kind \in ArithKinds

DelayInv ==
  /\ curr_state_delay = "write" => vrf_state \in {"INT_READ1", "READ", "LOAD_WAITGNT"}
  /\ curr_state_delay = "read"  => vrf_state = "STORE_WAITLSU"

PartInv ==
  /\ handle_misaligned_q \in BOOLEAN
  /\ ls_fsm_cs \in {"IDLE", "WAIT_GNT_MIS", "WAIT_RVALID_MIS_GNTS_DONE"} => ~handle_misaligned_q
  /\ ls_fsm_cs = "WAIT_RVALID_MIS" => handle_misaligned_q

HeldInv == KindInv /\ DelayInv /\ PartInv

\* A VRF that works has its instruction in ID until it is done.
LEMMA VrfInstr ==
  ASSUME Tolerated, Facts, vrf_state # "IDLE"
  PROVE  /\ vrf_req /\ instr_valid_id_q /\ id_fsm_q = "MULTI_CYCLE"
         /\ ~Vrf!vector_done_o => instr' = instr /\ instr_valid_id_q' /\ id_fsm_q' = "MULTI_CYCLE"
         /\ Vrf!vector_done_o => vrf_state' = "IDLE"
<1>1. id_fsm_q = "MULTI_CYCLE"
  BY DEF Facts, ControlTypeOK, PhaseInv, AtRest
<1>2. vrf_req /\ instr_valid_id_q
  BY <1>1 DEF Facts, PhaseInv
<1>3. ASSUME ~Vrf!vector_done_o
      PROVE  instr' = instr /\ instr_valid_id_q' /\ id_fsm_q' = "MULTI_CYCLE"
  <2>1. stall_id
    BY <1>2, <1>3 DEF stall_id, stall_vec, instr_executing
  <2>2. instr' = instr /\ instr_valid_id_q'
    BY <1>2, <2>1, InId DEF Facts, ControlTypeOK
  <2>3. id_fsm_q' = "MULTI_CYCLE"
    BY <1>1, <1>2, <1>3 DEF Facts, IdClock, instr_executing, multicycle_done
  <2>. QED  BY <2>2, <2>3
<1>4. Vrf!vector_done_o => vrf_state' = "IDLE"
  BY VrfDone DEF Facts
<1>. QED  BY <1>1, <1>2, <1>3, <1>4

\* The selections of the kinds of instructions.
LEMMA Selected ==
  /\ op.mem <=> instr.kind \in {"load", "store"}
  /\ op.mult <=> instr.kind \in {"vv", "macc_vv", "macc_vx"}
  /\ op.slide <=> instr.kind \in {"slideup", "slidedown"}
  /\ Vrf!sel(0) <=> instr.kind \in {"vv", "macc_vv", "mv_v"}
  /\ Vrf!sel(1) <=> instr.kind \in {"vv", "vx", "macc_vv", "macc_vx", "slideup", "slidedown"}
  /\ Vrf!sel(2) <=> instr.kind \in {"macc_vv", "macc_vx", "store"}
  /\ Vrf!sel(3) <=> instr.kind \in {"vv", "vx", "macc_vv", "macc_vx", "mv_v", "mv_x", "slideup",
                                    "slidedown", "load"}
<1>1. op.mem = vrf_memory_op /\ op.mult = (instr.kind \in {"vv", "macc_vv", "macc_vx"})
      /\ op.slide = vrf_slide_op /\ op.sel = vrf_sel_operation
  BY DEF op
<1>2. /\ 0 \in vrf_sel_operation <=> instr.kind \in {"vv", "macc_vv", "mv_v"}
      /\ 1 \in vrf_sel_operation <=> instr.kind \in {"vv", "vx", "macc_vv", "macc_vx", "slideup", "slidedown"}
      /\ 2 \in vrf_sel_operation <=> instr.kind \in {"macc_vv", "macc_vx", "store"}
      /\ 3 \in vrf_sel_operation <=> instr.kind \in {"vv", "vx", "macc_vv", "macc_vx", "mv_v", "mv_x",
                                    "slideup", "slidedown", "load"}
  BY DEF vrf_sel_operation, vrf_slide_op
<1>. QED  BY <1>1, <1>2 DEF Vrf!sel, vrf_memory_op, vrf_slide_op

\* The VRF's states stay with their instruction.
LEMMA KindStep ==
  ASSUME Tolerated, Facts, KindInv
  PROVE  KindInv'
<1>1. CASE vrf_state = "IDLE"
  <2>1. vrf_state' \in {"IDLE", "START"}
    BY <1>1, VrfIdle DEF Facts
  <2>. QED  BY <2>1 DEF KindInv, LoadStates, StoreStates, ArithStates
<1>2. CASE vrf_state # "IDLE" /\ vrf_state' = "IDLE"
  BY <1>2 DEF KindInv, LoadStates, StoreStates, ArithStates
<1>3. CASE vrf_state # "IDLE" /\ vrf_state' # "IDLE"
  <2>1. instr' = instr
    BY <1>3, VrfInstr
  <2>2. CASE vrf_state = "START"
    <3>1. Vrf!Start
      BY <2>2, ByState DEF Facts
    <3>2. CASE instr.kind \in {"load", "store"}
      <4>1. vrf_state' \in (IF instr.kind = "load" THEN {"LOAD"} ELSE {"START", "STORE_READ"})
        BY <1>3, <2>2, <3>1, <3>2, Selected DEF Vrf!Start, Vrf!GoTo, Vrf!Granted
      <4>. QED  BY <2>1, <3>2, <4>1 DEF KindInv, LoadStates, StoreStates, ArithStates
    <3>3. CASE instr.kind \notin {"load", "store"}
      <4>1. instr.kind \in ArithKinds /\ vrf_state' \in {"START", "INT_READ1", "LOAD_SLIDE", "READ", "WRITE"}
        BY <1>3, <2>2, <3>1, <3>3, Selected DEF ArithKinds, Vrf!Start, Vrf!GoTo, Vrf!Granted
      <4>. QED  BY <2>1, <3>3, <4>1 DEF KindInv, LoadStates, StoreStates, ArithStates
    <3>. QED  BY <3>2, <3>3
  <2>3. /\ vrf_state \in LoadStates => vrf_state' \in LoadStates
        /\ vrf_state \in StoreStates => vrf_state' \in StoreStates
        /\ vrf_state \in ArithStates => vrf_state' \in ArithStates
    BY <1>3, ByState DEF Facts, LoadStates, StoreStates, ArithStates, Vrf!IntRead1, Vrf!IntRead2,
       Vrf!IntRead3, Vrf!IntWrite, Vrf!LoadSlide, Vrf!Read, Vrf!Write, Vrf!Load, Vrf!LoadWaitGnt,
       Vrf!LoadWrite, Vrf!StoreRead, Vrf!StoreWaitLsu, Vrf!StoreWaitGnt, Vrf!GoTo, Vrf!Granted,
       Vrf!Finish
  <2>4. vrf_state = "START" \/ vrf_state \in LoadStates \cup StoreStates \cup ArithStates
    BY <1>3, ByState DEF Facts, LoadStates, StoreStates, ArithStates
  <2>. QED  BY <2>1, <2>2, <2>3, <2>4 DEF KindInv, LoadStates, StoreStates, ArithStates
<1>. QED  BY <1>1, <1>2, <1>3

\* A delayed request is still made in the state the VRF is in next.
LEMMA DelayKept ==
  ASSUME Facts, Vrf!DelayFsm
  PROVE  DelayInv'
<1>1. /\ curr_state_delay' = "write" => Vrf!write_delayed
      /\ curr_state_delay' = "read" => Vrf!read_delayed
  BY DEF Facts, ControlTypeOK, Vrf!DelayFsm
<1>2. ASSUME Vrf!write_delayed
      PROVE  vrf_state' \in {"INT_READ1", "READ", "LOAD_WAITGNT"}
  BY <1>2, ByState DEF Facts, Vrf!write_delayed, Vrf!data_we_o, Vrf!State, Vrf!IntRead1, Vrf!Read, Vrf!Load,
     Vrf!GoTo, Vrf!Granted
<1>3. ASSUME Vrf!read_delayed
      PROVE  vrf_state' = "STORE_WAITLSU"
  BY <1>3, ByState DEF Facts, Vrf!read_delayed, Vrf!lsu_req_o, Vrf!State, Vrf!StoreRead, Vrf!GoTo
<1>. QED  BY <1>1, <1>2, <1>3 DEF DelayInv

\* The load/store unit knows its part.
LEMMA PartStep ==
  ASSUME PartInv, Lsu!LsuClock, in.lsu_gnt \in BOOLEAN, lsu_rvalid \in BOOLEAN, ~pmp_err_q
  PROVE  PartInv'
<1>1. CASE ls_fsm_cs = "IDLE" /\ Lsu!Idle
  <2>1. Lsu!split_misaligned_access \in BOOLEAN
    BY DEF Lsu!split_misaligned_access
  <2>. QED  BY <1>1, <2>1 DEF PartInv, Lsu!Idle
<1>2. CASE ls_fsm_cs = "WAIT_GNT_MIS" /\ Lsu!WaitGntMis
  BY <1>2 DEF PartInv, Lsu!WaitGntMis
<1>3. CASE ls_fsm_cs = "WAIT_RVALID_MIS" /\ Lsu!WaitRvalidMisFirst
  BY <1>3 DEF PartInv, Lsu!WaitRvalidMisFirst
<1>4. CASE ls_fsm_cs = "WAIT_RVALID_MIS" /\ Lsu!WaitRvalidMisSecond
  BY <1>4 DEF PartInv, Lsu!WaitRvalidMisSecond
<1>5. CASE ls_fsm_cs = "WAIT_GNT" /\ Lsu!WaitGnt
  BY <1>5 DEF PartInv, Lsu!WaitGnt
<1>6. CASE ls_fsm_cs = "WAIT_RVALID_MIS_GNTS_DONE" /\ Lsu!WaitRvalidMisGntsDone
  BY <1>6 DEF PartInv, Lsu!WaitRvalidMisGntsDone
<1>. QED  BY <1>1, <1>2, <1>3, <1>4, <1>5, <1>6, LsuByState

\* A request of the VRF that is not granted is made again, with the address and
\* the data it had.
LEMMA VrfHeld ==
  ASSUME Facts, KindInv, DelayInv, Vrf!Registers, Vrf!AguClock,
         Vrf!data_req_o, ~in.vrf_gnt, instr.kind # "load", vrf_state # "IDLE",
         instr' = instr
  PROVE  /\ Vrf!data_req_o' /\ ~Vrf!lsu_req_o' /\ ~LsuTurn'
         /\ Vrf!data_we_o' = Vrf!data_we_o /\ Vrf!addr_o' = Vrf!addr_o
         /\ Vrf!data_be_o' = Vrf!data_be_o
         /\ Vrf!data_we_o => Vrf!data_wdata_o' = Vrf!data_wdata_o
<1>1. op' = op /\ vrf_memory_op' = vrf_memory_op
  BY DEF op, vrf_sel_operation, vrf_memory_op, vrf_slide_op
<1>2. vrf_state \notin LoadStates /\ vrf_state # "STORE_READ"
  BY DEF KindInv, LoadStates, Vrf!data_req_o, Vrf!agu_get_rs1_o, Vrf!agu_get_rs2_o,
     Vrf!agu_get_rd_o, Vrf!ReadsRd, Vrf!data_we_o, Vrf!State
<1>3. /\ first_iteration_q \in BOOLEAN /\ last_iteration_q \in BOOLEAN
      /\ vrf_state = "START" => ~last_iteration_q
  BY DEF Facts, Types
\* What the VRF requests in each state.
<1>4. /\ vrf_state \in {"INT_READ1", "READ"} => ~first_iteration_q
      /\ vrf_state = "STORE_WAITLSU" => (lsu_resp_valid \/ first_iteration_q)
      /\ vrf_state \in {"INT_READ3", "INT_WRITE", "WRITE", "STORE_WAITLSU"} => ~last_iteration_q
      /\ vrf_state \in {"WRITE", "STORE_WAITLSU"} /\ (Vrf!sel(0) \/ Vrf!sel(1) \/ vrf_state = "STORE_WAITLSU")
           => ~Vrf!last_next
  BY DEF Vrf!data_req_o, Vrf!agu_get_rs1_o, Vrf!agu_get_rs2_o, Vrf!agu_get_rd_o, Vrf!ReadsRd,
     Vrf!data_we_o, Vrf!State
<1>5. /\ vrf_state' = IF vrf_state = "STORE_WAITLSU" THEN "STORE_WAITGNT" ELSE vrf_state
      /\ last_iteration_q' <=> last_iteration_q
      /\ vrf_state \notin {"START", "STORE_WAITLSU"} =>
           (first_iteration_q' <=> first_iteration_q) /\ (slide_first_write_q' <=> slide_first_write_q)
      /\ vrf_state # "STORE_WAITLSU" => num_iterations_q' = num_iterations_q
      /\ offset_q' = offset_q /\ slide_offset_q' = slide_offset_q
  <2>1. CASE vrf_state = "START" /\ Vrf!Start
    BY <1>1, <1>2, <1>3, <2>1, Selected DEF Vrf!Start, Vrf!GoTo, Vrf!Granted, Vrf!KeepIter, Vrf!KeepSetup,
       Vrf!data_req_o, Vrf!agu_get_rs1_o, Vrf!agu_get_rs2_o, Vrf!agu_get_rd_o, Vrf!ReadsRd,
       Vrf!data_we_o, Vrf!State
  <2>2. CASE vrf_state = "INT_READ1" /\ Vrf!IntRead1
    BY <1>4, <2>2 DEF Vrf!IntRead1, Vrf!Granted, Vrf!KeepIter, Vrf!KeepSetup
  <2>3. CASE vrf_state = "INT_READ2" /\ Vrf!IntRead2
    BY <2>3 DEF Vrf!IntRead2, Vrf!GoTo, Vrf!Granted, Vrf!KeepIter, Vrf!KeepSetup, Vrf!KeepFirst,
       Vrf!data_req_o, Vrf!agu_get_rs1_o, Vrf!agu_get_rs2_o, Vrf!agu_get_rd_o, Vrf!ReadsRd,
       Vrf!data_we_o, Vrf!State
  <2>4. CASE vrf_state = "INT_READ3" /\ Vrf!IntRead3
    BY <2>4 DEF Vrf!IntRead3, Vrf!GoTo, Vrf!Granted, Vrf!KeepIter, Vrf!KeepSetup, Vrf!KeepFirst,
       Vrf!data_req_o, Vrf!agu_get_rs1_o, Vrf!agu_get_rs2_o, Vrf!agu_get_rd_o, Vrf!ReadsRd,
       Vrf!data_we_o, Vrf!State
  <2>5. CASE vrf_state = "INT_WRITE" /\ Vrf!IntWrite
    BY <1>3, <2>5 DEF Vrf!IntWrite, Vrf!GoTo, Vrf!Granted, Vrf!KeepIter, Vrf!KeepSetup, Vrf!KeepFirst,
       Vrf!Iterate, Vrf!data_req_o, Vrf!agu_get_rs1_o, Vrf!agu_get_rs2_o, Vrf!agu_get_rd_o,
       Vrf!ReadsRd, Vrf!data_we_o, Vrf!State
  <2>6. CASE vrf_state = "LOAD_SLIDE" /\ Vrf!LoadSlide
    BY <2>6 DEF Vrf!LoadSlide, Vrf!Granted, Vrf!KeepIter, Vrf!KeepSetup, Vrf!KeepFirst
  <2>7. CASE vrf_state = "READ" /\ Vrf!Read
    BY <1>4, <2>7 DEF Vrf!Read, Vrf!Granted, Vrf!KeepIter, Vrf!KeepSetup
  <2>8. CASE vrf_state = "WRITE" /\ Vrf!Write
    BY <1>3, <1>4, <2>8 DEF Vrf!Write, Vrf!GoTo, Vrf!Granted, Vrf!KeepSetup, Vrf!KeepFirst, Vrf!Iterate
  <2>9. CASE vrf_state = "STORE_WAITLSU" /\ Vrf!StoreWaitLsu
    BY <1>3, <1>4, <2>9 DEF Vrf!StoreWaitLsu, Vrf!GoTo, Vrf!KeepSetup, Vrf!Iterate
  <2>10. CASE vrf_state = "STORE_WAITGNT" /\ Vrf!StoreWaitGnt
    BY <2>10 DEF Vrf!StoreWaitGnt, Vrf!Granted, Vrf!KeepIter, Vrf!KeepSetup, Vrf!KeepFirst
  <2>. QED  BY <1>2, <2>1, <2>2, <2>3, <2>4, <2>5, <2>6, <2>7, <2>8, <2>9, <2>10, ByState
            DEF Facts, LoadStates
\* It requests the same in the next cycle.
<1>6. /\ Vrf!State("START")' <=> vrf_state' = "START"
      /\ vrf_state # "STORE_WAITLSU" => (Vrf!last_next' <=> Vrf!last_next)
      /\ Vrf!no_offset' <=> Vrf!no_offset
      /\ Vrf!offset_be' = Vrf!offset_be
      /\ \A b : Vrf!sel(b)' <=> Vrf!sel(b)
  BY <1>1, <1>5 DEF Vrf!last_next, Vrf!no_offset, Vrf!offset_be, Vrf!SlideDown, Vrf!State, Vrf!sel,
     Vrf!LowLanes
<1>7. /\ Vrf!agu_get_rs1_o' <=> Vrf!agu_get_rs1_o
      /\ Vrf!agu_get_rs2_o' <=> Vrf!agu_get_rs2_o
      /\ Vrf!data_we_o' <=> Vrf!data_we_o
      /\ Vrf!agu_get_rd_o' <=> Vrf!agu_get_rd_o
  <2>1. CASE vrf_state = "STORE_WAITLSU"
    BY <1>5, <2>1 DEF Vrf!agu_get_rs1_o, Vrf!agu_get_rs2_o, Vrf!agu_get_rd_o, Vrf!ReadsRd,
       Vrf!data_req_o, Vrf!data_we_o, Vrf!State
  <2>2. CASE vrf_state = "START"
    BY <1>1, <1>5, <1>6, <2>2 DEF Vrf!agu_get_rs1_o, Vrf!agu_get_rs2_o, Vrf!agu_get_rd_o, Vrf!ReadsRd,
       Vrf!data_we_o, Vrf!State
  <2>3. CASE vrf_state \notin {"START", "STORE_WAITLSU"}
    BY <1>1, <1>2, <1>5, <1>6, <2>3 DEF LoadStates, Vrf!agu_get_rs1_o, Vrf!agu_get_rs2_o,
       Vrf!agu_get_rd_o, Vrf!ReadsRd, Vrf!data_we_o, Vrf!State
  <2>. QED  BY <2>1, <2>2, <2>3
<1>8. Vrf!data_req_o'
  BY <1>7 DEF Vrf!data_req_o
<1>9. ~Vrf!lsu_req_o' /\ ~LsuTurn'
  <2>1. vrf_state' \notin LoadStates \cup {"STORE_READ", "STORE_WAITLSU"}
    BY <1>2, <1>5 DEF LoadStates
  <2>2. vrf_state = "START" => ~(op.mem /\ ~Vrf!sel(2) /\ Vrf!sel(3))
    BY Selected
  <2>. QED  BY <1>1, <1>5, <1>6, <2>1, <2>2 DEF LoadStates, LsuTurn, Vrf!lsu_req_o, Vrf!State
<1>10. Vrf!addr_o' = Vrf!addr_o
  <2>1. ~Vrf!agu_incr_o /\ ~Vrf!agu_load_o
    BY DEF Vrf!agu_incr_o, Vrf!agu_load_o, Vrf!accept, Vrf!State
  <2>2. addr_rs1_q' = addr_rs1_q /\ addr_rs2_q' = addr_rs2_q /\ addr_rd_q' = addr_rd_q
    BY <2>1 DEF Vrf!AguClock
  <2>. QED  BY <1>1, <1>7, <2>2 DEF Vrf!addr_o, Vrf!Group, Vrf!FirstWord
<1>11. Vrf!data_be_o' = Vrf!data_be_o
  <2>1. Vrf!sel_slide_be' <=> Vrf!sel_slide_be
    BY <1>1, <1>5 DEF Vrf!sel_slide_be, Vrf!State
  <2>2. Vrf!slide_offset_be' = Vrf!slide_offset_be
    BY <1>5 DEF Vrf!slide_offset_be
  <2>. QED  BY <1>5, <1>6, <2>1, <2>2 DEF Vrf!data_be_o
<1>12. ASSUME Vrf!data_we_o
       PROVE  Vrf!data_wdata_o' = Vrf!data_wdata_o
  <2>1. vrf_state \in {"START", "INT_READ1", "READ", "WRITE"} /\ ~op.mem
    BY <1>2, <1>12, Selected DEF KindInv, ArithStates, ArithKinds, LoadStates, Vrf!data_we_o, Vrf!State
  <2>2. CASE vrf_state \in {"START", "WRITE"}
    <3>1. instr.kind = "mv_x"
      BY <1>12, <2>2, Selected DEF KindInv, ArithStates, ArithKinds, Vrf!data_we_o, Vrf!State
    <3>2. curr_state_delay = "none" /\ curr_state_delay' = "none"
      BY <2>2 DEF DelayInv, Facts, ControlTypeOK, Vrf!DelayFsm, Vrf!write_delayed, Vrf!read_delayed,
         Vrf!State
    <3>. QED  BY <1>1, <2>1, <3>1, <3>2 DEF Vrf!data_wdata_o, vrf_wdata_id, op
  <2>3. CASE vrf_state \in {"INT_READ1", "READ"}
    <3>1. Vrf!write_delayed /\ ~Vrf!rd_en /\ curr_state_delay \in {"none", "write"}
      BY <1>12, <2>3 DEF Vrf!write_delayed, Vrf!State, Vrf!rd_en, DelayInv, Facts, ControlTypeOK
    <3>2. curr_state_delay' = "write"
      BY <3>1 DEF Facts, Vrf!DelayFsm
    <3>3. Vrf!data_wdata_o' = rd_q'
      BY <1>1, <2>1, <3>2 DEF Vrf!data_wdata_o
    <3>4. Vrf!rd_buf_en <=> curr_state_delay = "none"
      BY <2>1, <3>1 DEF Vrf!rd_buf_en, Vrf!delay_starts
    <3>5. rd_q' = Vrf!data_wdata_o
      BY <2>1, <3>1, <3>4 DEF Vrf!Registers, Vrf!data_wdata_o
    <3>. QED  BY <3>3, <3>5
  <2>. QED  BY <2>1, <2>2, <2>3
<1>13. Vrf!data_we_o' = Vrf!data_we_o
  BY <1>7 DEF Vrf!data_we_o
<1>. QED  BY <1>8, <1>9, <1>10, <1>11, <1>12, <1>13

\* A request of the load/store unit that is not granted is made again.
LEMMA LsuHeld ==
  ASSUME PartInv, Lsu!LsuClock, Lsu!data_req_o, ~in.lsu_gnt, ~pmp_err_q,
         instr' = instr,
         vrf_req => addr_q' = addr_q /\ Vrf!data_be_o' = Vrf!data_be_o
  PROVE  /\ Lsu!data_req_o' /\ Lsu!busy_o'
         /\ Lsu!data_addr_o' = Lsu!data_addr_o /\ Lsu!data_be' = Lsu!data_be
         /\ ~vrf_req => Lsu!data_wdata' = Lsu!data_wdata
<1>1. vrf_req' = vrf_req
  BY DEF vrf_req
<1>2. /\ ls_fsm_cs \in {"IDLE", "WAIT_GNT_MIS", "WAIT_RVALID_MIS", "WAIT_GNT"}
      /\ ls_fsm_cs = "IDLE" => lsu_if_req
  BY DEF Lsu!data_req_o
<1>3. /\ ls_fsm_cs' \in {"WAIT_GNT_MIS", "WAIT_RVALID_MIS", "WAIT_GNT"}
      /\ Lsu!addr_incr_req_o' <=> Lsu!addr_incr_req_o
      /\ handle_misaligned_q' <=> handle_misaligned_q
      /\ Lsu!addr_incr_req_o => addr_last_q' = addr_last_q
  <2>1. CASE ls_fsm_cs = "IDLE" /\ Lsu!Idle
    BY <1>2, <2>1 DEF PartInv, Lsu!Idle, Lsu!addr_incr_req_o
  <2>2. CASE ls_fsm_cs = "WAIT_GNT_MIS" /\ Lsu!WaitGntMis
    BY <2>2 DEF PartInv, Lsu!WaitGntMis, Lsu!addr_incr_req_o
  <2>3. CASE ls_fsm_cs = "WAIT_RVALID_MIS" /\ Lsu!WaitRvalidMisFirst
    BY <2>3 DEF PartInv, Lsu!WaitRvalidMisFirst, Lsu!addr_incr_req_o, Lsu!AddrUpdate
  <2>4. CASE ls_fsm_cs = "WAIT_RVALID_MIS" /\ Lsu!WaitRvalidMisSecond
    BY <2>4 DEF PartInv, Lsu!WaitRvalidMisSecond, Lsu!addr_incr_req_o, Lsu!AddrUpdate
  <2>5. CASE ls_fsm_cs = "WAIT_GNT" /\ Lsu!WaitGnt
    BY <2>5 DEF PartInv, Lsu!WaitGnt, Lsu!addr_incr_req_o, Lsu!AddrUpdate
  <2>. QED  BY <1>2, <2>1, <2>2, <2>3, <2>4, <2>5, LsuByState
<1>4. Lsu!data_addr' = Lsu!data_addr
  BY <1>1, <1>3 DEF Lsu!data_addr
<1>5. Lsu!data_offset' = Lsu!data_offset
  BY <1>4 DEF Lsu!data_offset
<1>6. Lsu!VecBytes' = Lsu!VecBytes
  BY <1>1 DEF Lsu!VecBytes
<1>7. Lsu!data_be' = Lsu!data_be
  <2>1. \A n : Lsu!Split(n)' = Lsu!Split(n)
    BY <1>3, <1>5 DEF Lsu!Split
  <2>. QED  BY <1>1, <1>3, <1>5, <1>6, <2>1 DEF Lsu!data_be
<1>8. ~vrf_req => Lsu!data_wdata' = Lsu!data_wdata
  BY <1>1, <1>5 DEF Lsu!data_wdata
<1>9. Lsu!data_req_o' /\ Lsu!busy_o'
  BY <1>3 DEF Lsu!data_req_o, Lsu!busy_o
<1>. QED  BY <1>4, <1>7, <1>8, <1>9 DEF Lsu!data_addr_o

\* The load/store unit's request comes from an instruction that stays in ID; that
\* of a vector load comes with all byte enables until its last word.
LEMMA LsuRequests ==
  ASSUME Tolerated, Facts, KindInv, LsuInterfaceClock, ~vrf_has_mem, Lsu!data_req_o,
         instr.kind # "store"
  PROVE  /\ instr' = instr
         /\ vrf_req => addr_q' = addr_q /\ Vrf!data_be_o' = Vrf!data_be_o
<1>1. ~pmp_err_q
  BY DEF Facts, ControlTypeOK
<1>2. CASE ~vrf_req
  <2>1. instr_valid_id_q /\ lsu_req_dec /\ (instr_first_cycle \/ ~lsu_resp_valid)
    <3>1. CASE id_fsm_q = "FIRST_CYCLE"
      <4>1. ls_fsm_cs = "IDLE"
        BY <3>1 DEF Facts, PhaseInv, AtRest
      <4>2. lsu_req
        BY <1>2, <4>1 DEF Lsu!data_req_o, lsu_if_req
      <4>. QED  BY <4>2 DEF lsu_req, instr_executing
    <3>2. CASE id_fsm_q = "MULTI_CYCLE"
      <4>1. ~lsu_if_req
        BY <1>2, <3>2 DEF lsu_if_req, lsu_req, instr_first_cycle
      <4>2. ls_fsm_cs # "IDLE"
        BY <4>1 DEF Lsu!data_req_o
      <4>. QED  BY <1>2, <3>2, <4>2 DEF Facts, PhaseInv, lsu_resp_valid, LsuResp!lsu_resp_valid_o
    <3>. QED  BY <3>1, <3>2 DEF Facts, ControlTypeOK
  <2>2. stall_id
    BY <2>1 DEF stall_id, stall_mem
  <2>. QED  BY <1>2, <2>2, InId DEF Facts, ControlTypeOK
<1>3. CASE vrf_req
  <2>1. lsu_if_req <=> Vrf!lsu_req_o
    BY <1>3 DEF lsu_if_req
  <2>2. vrf_state # "IDLE"
    <3>1. CASE id_fsm_q = "FIRST_CYCLE"
      <4>1. ls_fsm_cs = "IDLE" /\ vrf_state = "IDLE"
        BY <3>1 DEF Facts, PhaseInv, AtRest
      <4>. QED  BY <2>1, <4>1, VrfIdle DEF Facts, Lsu!data_req_o
    <3>2. CASE id_fsm_q = "MULTI_CYCLE" /\ ~LsuTurn
      <4>1. ls_fsm_cs = "IDLE"
        BY <1>3, <3>2 DEF Facts, PhaseInv, LsuRest
      <4>. QED  BY <2>1, <4>1, VrfIdle DEF Facts, Lsu!data_req_o
    <3>3. CASE LsuTurn
      BY <3>3 DEF LsuTurn
    <3>. QED  BY <3>1, <3>2, <3>3 DEF Facts, ControlTypeOK
  <2>3. id_fsm_q = "MULTI_CYCLE"
    BY <2>2, VrfInstr
  <2>4. /\ vrf_state \in {"START", "LOAD", "LOAD_WRITE"} /\ ~last_iteration_q
        /\ LsuTurn' /\ ~lsu_resp_valid /\ ~Vrf!vector_done_o
    <3>1. CASE LsuTurn
      <4>1. Accessing /\ ~Vrf!lsu_req_o
        BY <1>3, <2>3, <3>1, VrfTurn DEF Facts, PhaseInv
      <4>2. ls_fsm_cs # "IDLE"
        BY <2>1, <4>1 DEF Lsu!data_req_o
      <4>3. ~lsu_resp_valid
        BY <4>2 DEF lsu_resp_valid, LsuResp!lsu_resp_valid_o
      <4>4. vrf_state = "LOAD" /\ ~last_iteration_q
        BY <3>1 DEF LsuTurn, KindInv, StoreStates
      <4>5. ~Vrf!vector_done_o
        BY <4>4 DEF Vrf!vector_done_o, Vrf!State
      <4>. QED  BY <3>1, <4>3, <4>4, <4>5, VrfTurn DEF Facts
    <3>2. CASE ~LsuTurn
      <4>1. LsuRest /\ prev_op_q = "VRF"
        BY <1>3, <2>3, <3>2 DEF Facts, PhaseInv
      <4>2. Vrf!lsu_req_o
        BY <2>1, <4>1 DEF LsuRest, Lsu!data_req_o
      <4>3. vrf_state \in {"START", "LOAD_WRITE"} /\ ~last_iteration_q
        BY <4>2 DEF Facts, Types, KindInv, StoreStates, Vrf!lsu_req_o, Vrf!State
      <4>4. ~Vrf!vector_done_o
        BY <4>3 DEF Vrf!vector_done_o, Vrf!State
      <4>5. ~lsu_resp_valid
        BY <1>1, <1>3, <4>1 DEF lsu_resp_valid, LsuResp!lsu_resp_valid_o, lsu_rvalid
      <4>. QED  BY <3>2, <4>2, <4>3, <4>4, <4>5, VrfOther DEF Facts
    <3>. QED  BY <3>1, <3>2
  <2>5. instr' = instr
    BY <2>2, <2>4, VrfInstr
  <2>6. addr_q' = addr_q
    BY <2>2, <2>4 DEF LsuInterfaceClock, Vrf!data_load_addr_o, Vrf!accept, Vrf!State
  <2>7. vrf_state' = "LOAD" /\ ~last_iteration_q'
    <3>1. vrf_state' # "STORE_WAITLSU"
      BY <2>4, ByState DEF Facts, Vrf!Start, Vrf!Load, Vrf!LoadWrite, Vrf!GoTo, Vrf!Granted, Vrf!Finish
    <3>. QED  BY <2>4, <3>1 DEF LsuTurn
  <2>8. Vrf!data_be_o' = Vrf!data_be_o
    BY <2>4, <2>7 DEF Vrf!data_be_o, Vrf!sel_slide_be, Vrf!State
  <2>. QED  BY <2>5, <2>6, <2>8
<1>. QED  BY <1>2, <1>3

\* A request that is not granted is made again in the next cycle.
LEMMA BusHeld ==
  ASSUME Tolerated, InTime, IInv, HeldInv, Clock, bus.req, ~gnt
  PROVE  /\ bus'.req /\ bus'.we = bus.we /\ bus'.word = bus.word /\ bus'.be = bus.be
         /\ bus.we => bus'.wdata = bus.wdata
<1>1. Facts /\ Vrf!Registers /\ Vrf!AguClock /\ LsuInterfaceClock /\ Lsu!LsuClock
  BY DEF Facts, IInv, ControlTypeOK, Types, Clock, Vrf!VrfClock
<1>2. ~in.vrf_gnt /\ ~in.lsu_gnt /\ <<Class, Requester>> \in LateGrant
  BY DEF gnt, IInv, ControlTypeOK, BusRules
<1>3. IInv'
  BY Step
<1>4. CASE vrf_has_mem
  <2>1. Vrf!data_req_o /\ vrf_req
    BY <1>4 DEF bus, vrf_has_mem
  <2>2. instr.kind # "load"
    <3>1. Requester = "VRF" /\ (instr.kind = "load" => Class = "load")
      BY <1>4 DEF Class, Scalars, Requester
    <3>. QED  BY <1>2, <3>1 DEF InTime
  <2>3. vrf_state # "IDLE"
    BY <1>1, <2>1, VrfIdle DEF Facts
  <2>4. ~Vrf!vector_done_o
    BY <1>1, <2>1, VrfDone DEF Facts
  <2>5. instr' = instr /\ id_fsm_q' = "MULTI_CYCLE"
    BY <1>1, <2>3, <2>4, VrfInstr
  <2>6. /\ Vrf!data_req_o' /\ ~Vrf!lsu_req_o' /\ ~LsuTurn'
        /\ Vrf!data_we_o' = Vrf!data_we_o /\ Vrf!addr_o' = Vrf!addr_o
        /\ Vrf!data_be_o' = Vrf!data_be_o
        /\ Vrf!data_we_o => Vrf!data_wdata_o' = Vrf!data_wdata_o
    BY <1>1, <1>2, <2>1, <2>2, <2>3, <2>5, VrfHeld DEF HeldInv
  <2>7. vrf_req'
    BY <2>1, <2>5 DEF vrf_req
  <2>8. ls_fsm_cs' = "IDLE"
    BY <1>3, <2>5, <2>6, <2>7 DEF IInv, PhaseInv, LsuRest
  <2>9. vrf_has_mem'
    BY <2>6, <2>7, <2>8 DEF vrf_has_mem, Lsu!busy_o
  <2>10. /\ bus.we = Vrf!data_we_o /\ bus.word = Vrf!addr_o /\ bus.be = Vrf!data_be_o
         /\ bus.wdata = Vrf!data_wdata_o
    BY <1>4 DEF bus
  <2>11. /\ bus'.req = Vrf!data_req_o' /\ bus'.we = Vrf!data_we_o' /\ bus'.word = Vrf!addr_o'
         /\ bus'.be = Vrf!data_be_o' /\ bus'.wdata = Vrf!data_wdata_o'
    BY <2>9 DEF bus
  <2>. QED  BY <2>6, <2>10, <2>11
<1>5. CASE ~vrf_has_mem
  <2>1. Lsu!data_req_o
    BY <1>5 DEF bus
  <2>2. instr.kind # "store"
    <3>1. Requester = "LSU" /\ (instr.kind = "store" => Class = "store")
      BY <1>5 DEF Class, Scalars, Requester
    <3>. QED  BY <1>2, <3>1 DEF InTime
  <2>3. /\ instr' = instr
        /\ vrf_req => addr_q' = addr_q /\ Vrf!data_be_o' = Vrf!data_be_o
    BY <1>1, <1>5, <2>1, <2>2, LsuRequests DEF HeldInv
  <2>4. /\ Lsu!data_req_o' /\ Lsu!busy_o'
        /\ Lsu!data_addr_o' = Lsu!data_addr_o /\ Lsu!data_be' = Lsu!data_be
        /\ ~vrf_req => Lsu!data_wdata' = Lsu!data_wdata
    BY <1>1, <1>2, <2>1, <2>3, LsuHeld DEF HeldInv, IInv, ControlTypeOK
  <2>5. ~vrf_has_mem'
    BY <2>4 DEF vrf_has_mem
  <2>6. lsu_we' = lsu_we /\ (lsu_we => ~vrf_req)
    BY <2>2, <2>3 DEF lsu_we, vrf_req, Scalars
  <2>7. /\ bus.we = lsu_we /\ bus.word = Lsu!data_addr_o.word /\ bus.be = Lsu!data_be
        /\ bus.wdata = Lsu!data_wdata
    BY <1>5 DEF bus
  <2>8. /\ bus'.req = Lsu!data_req_o' /\ bus'.we = lsu_we' /\ bus'.word = Lsu!data_addr_o'.word
        /\ bus'.be = Lsu!data_be' /\ bus'.wdata = Lsu!data_wdata'
    BY <2>5 DEF bus
  <2>. QED  BY <2>3, <2>4, <2>6, <2>7, <2>8
<1>. QED  BY <1>4, <1>5

\* HeldInv holds initially.
LEMMA HeldInitially ==
  ASSUME Init
  PROVE  HeldInv
<1>1. vrf_state = "IDLE" /\ curr_state_delay = "none"
  BY DEF Init, Vrf!VrfInit
<1>2. ls_fsm_cs = "IDLE" /\ handle_misaligned_q = FALSE
  BY DEF Init, Lsu!LsuInit
<1>. QED  BY <1>1, <1>2 DEF HeldInv, KindInv, DelayInv, PartInv, LoadStates, StoreStates, ArithStates

\* Every step preserves it.
LEMMA HeldStep ==
  ASSUME Tolerated, IInv, HeldInv, [Clock]_vars
  PROVE  HeldInv'
<1>1. CASE Clock
  <2>1. Facts /\ Vrf!DelayFsm /\ Lsu!LsuClock
    BY <1>1 DEF Facts, IInv, ControlTypeOK, Types, Clock, Vrf!VrfClock
  <2>2. in.lsu_gnt \in BOOLEAN /\ lsu_rvalid \in BOOLEAN /\ ~pmp_err_q
    BY <2>1, InputTypes DEF Facts, ControlTypeOK, lsu_rvalid
  <2>. QED  BY <2>1, <2>2, KindStep, DelayKept, PartStep DEF HeldInv
<1>2. CASE UNCHANGED vars
  BY <1>2 DEF vars, clocked, id, vrf, lsu, HeldInv, KindInv, DelayInv, PartInv
<1>. QED  BY <1>1, <1>2

\* A request on the data bus keeps its address, byte enables and data until it
\* is granted, whether the VRF, the load/store unit for it or for a scalar
\* instruction makes it.
THEOREM RequestsStay ==
  ASSUME Tolerated, InTime
  PROVE  Spec => RequestStable
<1>1. Init => HeldInv
  BY HeldInitially
<1>2. IInv /\ HeldInv /\ [Clock]_vars => HeldInv'
  BY HeldStep
<1>3. IInv /\ HeldInv /\ [Clock]_vars =>
        [bus.req /\ ~gnt =>
           bus'.req /\ bus'.we = bus.we /\ bus'.word = bus.word /\ bus'.be = bus.be
           /\ (bus.we => bus'.wdata = bus.wdata)]_vars
  BY BusHeld
<1>. QED  BY <1>1, <1>2, <1>3, Invariance, PTL DEF Spec, RequestStable

-----------------------------------------------------------------------------
(* The results.  Until it is done, a vector instruction has written a      *)
(* prefix of its result and nothing else, and what the VRF has counted,    *)
(* addressed, read and kept is what the rest of the result needs.          *)

\* The kinds of instructions that go word by word: through the multiplier, and
\* without; those that move their words to other places, and those that write
\* no memory.
Multiplied == {"vv", "macc_vv", "macc_vx"}
Copied     == {"vx", "mv_v", "slideup", "slidedown"}
WordKinds  == Multiplied \cup Copied
SlideKinds == {"slideup", "slidedown"}
ReadKinds  == {"nosel", "lw", "other"}
\* Two operands are read for a word of the result, or one; the first is the
\* group of rs1 or of rs2.
Binary     == instr.kind \in {"vv", "macc_vv"}
FromRs1    == instr.kind \in {"vv", "macc_vv", "mv_v"}

\* The first word of a register, the whole words of vl bytes, and the words a
\* group of vl bytes takes part in.
Base(r)  == r * WordsPerReg
Whole    == instr.bytes \div 4
Count    == (instr.bytes + 3) \div 4
FirstReg == IF FromRs1 THEN instr.rs1 ELSE instr.rs2

\* A slide reads from word From of its operand, or writes from word To of its
\* result, and a slide down by no multiple of a word reads one word in advance.
From == IF instr.kind = "slidedown" THEN instr.off \div 4 ELSE 0
To   == IF instr.kind = "slideup" THEN instr.off \div 4 ELSE 0
Lead == IF instr.kind = "slidedown" /\ instr.off % 4 # 0 THEN 1 ELSE 0

\* A group lies in one block of the AGU, and is the result's or out of its way:
\* a word is read before it is written.
Fits(r)  == (Base(r) % AguWords) + Count <= AguWords
Clear(r) == Base(instr.rd) + To <= Base(r) + From \/ Base(r) + Count <= Base(instr.rd) + To

\* The instructions whose results are theorems: the iterations do not wrap
\* around, groups are in place, a slide's offset is below vl, and of a slide down
\* the last word does not need one more (no_offset's second case).
Placed == /\ Whole < Vrf!IterationLimit
          /\ Fits(instr.rd) /\ Fits(FirstReg) /\ Clear(FirstReg)
          /\ Binary => Fits(instr.rs2) /\ Clear(instr.rs2)
          /\ instr.kind \in SlideKinds => instr.off < instr.bytes
          /\ instr.kind = "slidedown" => instr.bytes % 4 # 0 \/ instr.off % 4 = 0

\* How often the FSM goes round, but for the word that vl does not fill.
Rounds == Whole - From - To
\* The FSM counts the iterations down to 0, or to 1 if the last word is whole.
Least  == IF Vrf!no_offset THEN 1 ELSE 0
Total  == Rounds - Least + 1
\* How many iterations have begun to compute.
Round  == Rounds - num_iterations_q + (IF last_iteration_q THEN 1 ELSE 0)

\* The counters stand where the iterations are.
Counting == /\ instr.bytes # 0 /\ offset_q = instr.bytes % 4
            /\ instr.kind \in SlideKinds => slide_offset_q = instr.off % 4
            /\ num_iterations_q \in Least .. Rounds
            /\ last_iteration_q => num_iterations_q = Least

\* The result of the last round begun is not written yet.
Late == \/ vrf_state \in {"INT_READ2", "INT_READ3"}
        \/ vrf_state \in {"INT_READ1", "READ"} /\ ~first_iteration_q
\* How many words are written, and how many of the first operand are asked for.
Wrote == IF Late THEN Round - 1 ELSE Round
Asked == CASE vrf_state = "START" -> 0
           [] vrf_state \in {"INT_READ1", "INT_WRITE", "READ", "WRITE"} /\ ~last_iteration_q
              -> Round + 1 + Lead
           [] OTHER -> Round + Lead

\* A counter of the AGU stands at word n of the group of r, if there is one.
At(q, r, n) == n < Count => q = (Base(r) % AguWords) + n

\* The AGU's counter of the first operand.
FirstAddr == IF FromRs1 THEN addr_rs1_q ELSE addr_rs2_q

\* The AGU's counters stand where the iterations are.
Addressing ==
  /\ At(addr_rd_q, instr.rd, To + Wrote)
  /\ At(FirstAddr, FirstReg, From + Asked)
  /\ Binary => At(addr_rs2_q, instr.rs2, Round)

\* Word k of a group, element word k of the result and its lanes that are
\* written, by what the memory was when the instruction entered ID.
Word(r, k) == before[Base(r) + k]
Element(k) == [l \in Lanes |-> Result(before, instr, 4 * k + l)]
Needed(k)  == { l \in Lanes : 4 * k + l \in Written(instr) }

\* The memory with the first n words of the result in it.
Image(n) ==
  [w \in Words |-> [l \in Lanes |->
     LET k == w - Base(instr.rd)
     IN IF k \in To .. To + n - 1 /\ l \in Needed(k) THEN Element(k)[l] ELSE before[w][l]]]
Progress(n) == memory = Image(n)

\* The register of the first operand.
FirstOp == IF Binary THEN rs1_q ELSE rs2_q

\* The operand of round k.
Holds(q, k) == IF instr.kind \in SlideKinds
               THEN \A l \in Needed(To + k) : q[l] = Element(To + k)[l]
               ELSE q = Word(FirstReg, k)
\* Word n of the source is w, if it has one.
Source(n, w) == From + n < Count => w = Word(FirstReg, From + n)
\* The slide buffer keeps the upper bytes of the word before word n of the source.
KeptOf(b, n) ==
  n > 0 => \A l \in 0 .. Vrf!kept - 1 : b[l] = Word(FirstReg, From + n - 1)[4 - Vrf!kept + l]

\* What round k needs of the first operand is coming, or has come.
Comes(k) ==
  /\ inflight # <<>> /\ Source(k + Lead, Head(inflight).data)
  /\ instr.kind \in SlideKinds => KeptOf(slide_buffer_q, k + Lead)
HasCome(k) ==
  /\ Holds(FirstOp, k)
  /\ instr.kind \in SlideKinds /\ From + k + Lead < Count => KeptOf(slide_buffer_q, k + Lead + 1)

\* A value is in its register, or on its way there.
Arrives(q, v) == IF inflight = <<>> THEN q = v ELSE Head(inflight).data = v

\* The states that read the first operand and write the result before.
Reads == vrf_state \in {"INT_READ1", "READ"}

\* In LOAD_SLIDE the first word of the source comes or is kept.
AtSlide == vrf_state = "LOAD_SLIDE" =>
  /\ Round = 0 /\ ~last_iteration_q /\ Lead = 1 /\ first_iteration_q /\ instr.kind = "slidedown"
  /\ IF inflight = <<>> THEN KeptOf(slide_buffer_q, 1) ELSE Source(0, Head(inflight).data)

\* In the first iteration nothing is to be written.
AtFirst == Reads /\ first_iteration_q => ~last_iteration_q /\ Round = 0 /\ Comes(0)

\* The operands of the result that is written, and of the next one.
AtResult == Reads /\ ~first_iteration_q /\ curr_state_delay = "none" =>
  /\ Round > 0
  /\ Holds(FirstOp, Round - 1)
  /\ ~last_iteration_q => Comes(Round)
  /\ Binary => rs2_q = Word(instr.rs2, Round - 1)
  /\ instr.kind \in {"macc_vv", "macc_vx"} => rs3_q = Word(instr.rd, Round - 1)

\* A result whose write was not granted is kept.
AtDelayed == Reads /\ ~first_iteration_q /\ curr_state_delay = "write" =>
  /\ Round > 0
  /\ \A l \in Needed(To + (Round - 1)) : rd_q[l] = Element(To + (Round - 1))[l]
  /\ ~last_iteration_q => inflight = <<>> /\ HasCome(Round)

\* While the next write or read waits, its operand stays.
AtNext == vrf_state \in {"INT_WRITE", "WRITE"} =>
  /\ ~first_iteration_q
  /\ ~last_iteration_q => HasCome(Round)

\* The second and third operands come one after the other.
AtSecond == vrf_state = "INT_READ2" =>
  /\ ~first_iteration_q /\ Round > 0 /\ Holds(FirstOp, Round - 1)
  /\ IF Binary THEN Arrives(rs2_q, Word(instr.rs2, Round - 1))
               ELSE Arrives(rs3_q, Word(instr.rd, Round - 1))

AtThird == vrf_state = "INT_READ3" =>
  /\ ~first_iteration_q /\ Round > 0 /\ Holds(FirstOp, Round - 1)
  /\ instr.kind = "macc_vv" /\ rs2_q = Word(instr.rs2, Round - 1)
  /\ Arrives(rs3_q, Word(instr.rd, Round - 1))

\* All operands are where the FSM will look for them.
Operands == AtSlide /\ AtFirst /\ AtResult /\ AtDelayed /\ AtNext /\ AtSecond /\ AtThird

\* The states of an instruction that goes word by word.
Path == IF instr.kind \in Multiplied
        THEN {"START", "INT_READ1", "INT_WRITE", "INT_READ2", "INT_READ3"}
        ELSE {"START", "LOAD_SLIDE", "READ", "WRITE"}

\* What a vector instruction at work has counted, addressed, written and read.
Working == /\ vrf_state \in Path /\ Counting /\ Addressing /\ Progress(Wrote) /\ Operands
           /\ vrf_state = "START" => ~last_iteration_q /\ num_iterations_q = Rounds
           /\ vrf_state \in {"READ", "WRITE", "LOAD_SLIDE"} => (slide_first_write_q <=> Wrote = 0)

\* A memory is a function from words to words.
Shape(m) == m = [w \in Words |-> [l \in Lanes |-> m[w][l]]]

\* A vector instruction of no elements has no group to place.
InReach == instr.bytes = 0 \/ Placed

\* The inductive invariant of the results.
DataInv ==
  /\ instr \in Instr /\ todo \in Seq(Instr)
  /\ Shape(memory) /\ Shape(before)
  /\ instr_valid_id_q /\ id_fsm_q = "FIRST_CYCLE" => memory = before
  /\ instr_valid_id_q /\ id_fsm_q = "MULTI_CYCLE" =>
       /\ instr.kind \in ReadKinds => memory = before
       /\ instr.kind \in WordKinds /\ InReach =>
            IF vrf_state = "IDLE" THEN memory = before /\ instr.bytes = 0 ELSE Working

\* The words of n bytes.
LEMMA Quarters ==
  ASSUME NEW n \in Nat
  PROVE  /\ n \div 4 \in Nat /\ n % 4 \in 0 .. 3 /\ n = 4 * (n \div 4) + (n % 4)
         /\ (n + 3) \div 4 = (IF n % 4 = 0 THEN n \div 4 ELSE n \div 4 + 1)
<1>1. n \div 4 \in Nat /\ n % 4 \in 0 .. 3 /\ n = 4 * (n \div 4) + (n % 4)
  OBVIOUS
<1>2. (n + 3) \div 4 = (IF n % 4 = 0 THEN n \div 4 ELSE n \div 4 + 1)
  OBVIOUS
<1>. QED BY <1>1, <1>2

\* The byte of a word and a lane.
LEMMA Place ==
  ASSUME NEW k \in Nat, NEW l \in Lanes
  PROVE  (4 * k + l) \div 4 = k /\ (4 * k + l) % 4 = l
BY DEF Lanes

\* The types of an instruction's fields.
LEMMA InstrTypes ==
  ASSUME instr \in Instr
  PROVE  /\ instr.rs1 \in 0 .. NRegs - 1 /\ instr.rs2 \in 0 .. NRegs - 1
         /\ instr.rd \in 0 .. NRegs - 1
         /\ instr.bytes \in Nat /\ instr.off \in Nat
BY DEF Instr

\* The sizes of a vector instruction are natural numbers.
LEMMA Numbers ==
  ASSUME instr \in Instr, instr.kind \in WordKinds, instr.bytes # 0
  PROVE  /\ Whole \in Nat /\ Count \in Nat \ {0} /\ From \in Nat /\ To \in Nat
         /\ Lead \in {0, 1}
         /\ instr.kind \notin SlideKinds => From = 0 /\ To = 0 /\ Lead = 0
         /\ instr.kind = "slideup" => From = 0 /\ To = instr.off \div 4 /\ Lead = 0
         /\ instr.kind = "slidedown" => From = instr.off \div 4 /\ To = 0
<1>1. Whole \in Nat /\ instr.off \div 4 \in Nat
  BY InstrTypes, Quarters DEF Whole
<1>2. Count \in Nat \ {0}
  BY InstrTypes, Quarters DEF Count
<1>. QED  BY <1>1, <1>2 DEF From, To, Lead, SlideKinds

\* The instruction in ID is one whose result is a theorem, and the VRF has
\* noted how many bytes its words leave over.
Sized == /\ instr \in Instr /\ instr.kind \in WordKinds /\ instr.bytes # 0 /\ Placed
         /\ offset_q = instr.bytes % 4
         /\ instr.kind \in SlideKinds => slide_offset_q = instr.off % 4

\* The lanes that the write of round k enables.
Enabled(k) == (IF instr.kind = "slideup" /\ k = 0 THEN slide_offset_q .. 3 ELSE Lanes)
              \cap (IF k = Total - 1 THEN Vrf!offset_be ELSE Lanes)

\* What the decoder tells the VRF of slides.
LEMMA KindOp == (op.slide <=> instr.kind \in SlideKinds) /\ (op.up <=> instr.kind = "slideup")
BY DEF op, vrf_slide_op, SlideKinds

\* The bytes that a kind writes.
LEMMA WrittenBy ==
  ASSUME instr.kind \in WordKinds
  PROVE  Written(instr) = (IF instr.kind = "slideup" THEN instr.off .. instr.bytes - 1
                           ELSE IF instr.kind = "slidedown" THEN 0 .. instr.bytes - instr.off - 1
                           ELSE 0 .. instr.bytes - 1)
BY DEF Written, WordKinds, Multiplied, Copied

\* The iterations write each word of the result once, and the byte enables are
\* the bytes that are written.
LEMMA Turns ==
  ASSUME Sized
  PROVE  /\ Rounds \in Nat /\ Least \in {0, 1} /\ Least <= Rounds /\ Total \in Nat \ {0}
         /\ To + Total <= Count /\ From + Total <= Count
         /\ \A k \in 0 .. Total - 1 : Needed(To + k) = Enabled(k)
         /\ \A k \in Int : \A l \in Lanes : 4 * (To + k) + l \in Written(instr) => k \in 0 .. Total - 1
<1>. DEFINE B == instr.bytes  Q == B \div 4  b == B % 4
            O == instr.off    P == O \div 4  s == O % 4
<1>1. B \in Nat /\ O \in Nat /\ B # 0
  BY InstrTypes DEF Sized
<1>2. Q \in Nat /\ b \in 0 .. 3 /\ B = 4 * Q + b /\ Count = (IF b = 0 THEN Q ELSE Q + 1)
  BY <1>1, Quarters DEF Count
<1>3. P \in Nat /\ s \in 0 .. 3 /\ O = 4 * P + s
  BY <1>1, Quarters
<1>4. Whole = Q /\ offset_q = b /\ (instr.kind \in SlideKinds => slide_offset_q = s /\ O < B)
  BY DEF Whole, Sized, Placed
<1>5. instr.kind \in WordKinds
  BY DEF Sized
<1>. HIDE DEF B, Q, b, O, P, s
<1>6. CASE instr.kind \notin SlideKinds
  <2>1. From = 0 /\ To = 0 /\ Written(instr) = 0 .. B - 1
    BY <1>5, <1>6, WrittenBy DEF From, To, SlideKinds, B
  <2>2. (Vrf!no_offset <=> b = 0) /\ Vrf!offset_be = (IF b = 0 THEN Lanes ELSE 0 .. b - 1)
    <3>1. ~Vrf!SlideDown
      BY <1>6, KindOp DEF Vrf!SlideDown
    <3>2. b % 4 = b
      BY <1>2
    <3>. QED  BY <1>2, <1>4, <3>1, <3>2
                 DEF Vrf!no_offset, Vrf!offset_be, Vrf!LowLanes, Vrf!Lanes, Lanes
  <2>3. Rounds = Q /\ Least = (IF b = 0 THEN 1 ELSE 0) /\ Total = (IF b = 0 THEN Q ELSE Q + 1)
    BY <1>2, <1>4, <2>1, <2>2 DEF Rounds, Least, Total
  <2>4. ASSUME NEW k \in 0 .. Total - 1
        PROVE  Needed(To + k) = Enabled(k)
    BY <1>1, <1>2, <1>6, <2>1, <2>2, <2>3 DEF Needed, Enabled, Lanes, SlideKinds
  <2>5. ASSUME NEW k \in Int, NEW l \in Lanes, 4 * (To + k) + l \in Written(instr)
        PROVE  k \in 0 .. Total - 1
    BY <1>1, <1>2, <2>1, <2>3, <2>5 DEF Lanes
  <2>. QED  BY <1>1, <1>2, <2>1, <2>3, <2>4, <2>5
<1>7. CASE instr.kind = "slideup"
  <2>1. From = 0 /\ To = P /\ Written(instr) = O .. B - 1 /\ O < B /\ slide_offset_q = s
    BY <1>4, <1>5, <1>7, WrittenBy DEF From, To, SlideKinds, B, O, P
  <2>2. (Vrf!no_offset <=> b = 0) /\ Vrf!offset_be = (IF b = 0 THEN Lanes ELSE 0 .. b - 1)
    <3>1. ~Vrf!SlideDown
      BY <1>7, KindOp DEF Vrf!SlideDown
    <3>2. b % 4 = b
      BY <1>2
    <3>. QED  BY <1>2, <1>4, <3>1, <3>2
                 DEF Vrf!no_offset, Vrf!offset_be, Vrf!LowLanes, Vrf!Lanes, Lanes
  <2>3. /\ Rounds = Q - P /\ Least = (IF b = 0 THEN 1 ELSE 0)
        /\ Total = (IF b = 0 THEN Q - P ELSE Q - P + 1)
    BY <1>2, <1>3, <1>4, <2>1, <2>2 DEF Rounds, Least, Total
  <2>4. ASSUME NEW k \in 0 .. Total - 1
        PROVE  Needed(To + k) = Enabled(k)
    BY <1>1, <1>2, <1>3, <1>7, <2>1, <2>2, <2>3 DEF Needed, Enabled, Lanes
  <2>5. ASSUME NEW k \in Int, NEW l \in Lanes, 4 * (To + k) + l \in Written(instr)
        PROVE  k \in 0 .. Total - 1
    BY <1>1, <1>2, <1>3, <2>1, <2>3, <2>5 DEF Lanes
  <2>. QED  BY <1>1, <1>2, <1>3, <2>1, <2>3, <2>4, <2>5
<1>8. CASE instr.kind = "slidedown"
  <2>1. /\ From = P /\ To = 0 /\ Written(instr) = 0 .. B - O - 1 /\ O < B /\ slide_offset_q = s
        /\ (b # 0 \/ s = 0)
    BY <1>4, <1>5, <1>8, WrittenBy DEF From, To, SlideKinds, B, O, P, b, s, Sized, Placed
  <2>2. (Vrf!no_offset <=> b = s \/ (0 < b /\ b < s))
        /\ Vrf!offset_be = (IF b = s THEN Lanes ELSE IF b < s THEN 0 .. b + 3 - s ELSE 0 .. b - s - 1)
    <3>1. Vrf!SlideDown
      BY <1>8, KindOp DEF Vrf!SlideDown, SlideKinds
    <3>2. (b - s) % 4 = (IF b < s THEN b + 4 - s ELSE b - s)
      BY <1>2, <1>3
    <3>3. Vrf!no_offset <=> b = s \/ (0 < b /\ b < s)
      BY <1>2, <1>3, <1>4, <2>1, <3>1 DEF Vrf!no_offset
    <3>4. Vrf!offset_be = Vrf!LowLanes(b - s)
      BY <1>4, <2>1, <3>1 DEF Vrf!offset_be
    <3>5. Vrf!LowLanes(b - s) = (IF b = s THEN Lanes ELSE IF b < s THEN 0 .. b + 3 - s ELSE 0 .. b - s - 1)
      BY <1>2, <1>3, <3>2 DEF Vrf!LowLanes, Vrf!Lanes, Lanes
    <3>. QED  BY <3>3, <3>4, <3>5
  <2>3. /\ Rounds = Q - P /\ Least = (IF b <= s THEN 1 ELSE 0)
        /\ Total = (IF b <= s THEN Q - P ELSE Q - P + 1)
    BY <1>2, <1>3, <1>4, <2>1, <2>2 DEF Rounds, Least, Total
  <2>4. ASSUME NEW k \in 0 .. Total - 1
        PROVE  Needed(To + k) = Enabled(k)
    <3>1. Needed(To + k) = { l \in Lanes : 4 * k + l \in 0 .. B - O - 1 }
      BY <2>1 DEF Needed
    <3>2. Enabled(k) = Lanes \cap (IF k = Total - 1 THEN Vrf!offset_be ELSE Lanes)
      BY <1>8 DEF Enabled
    <3>3. CASE b = s
      BY <1>2, <1>3, <2>1, <2>2, <2>3, <3>1, <3>2, <3>3 DEF Lanes
    <3>4. CASE b < s
      <4>1. Enabled(k) = (IF k = Total - 1 THEN 0 .. b + 3 - s ELSE Lanes)
        BY <1>2, <1>3, <2>2, <3>2, <3>4 DEF Lanes
      <4>2. \A l \in Lanes : 4 * k + l \in 0 .. B - O - 1 <=> (k = Total - 1 => l \in 0 .. b + 3 - s)
        BY <1>2, <1>3, <2>1, <2>3, <3>4 DEF Lanes
      <4>3. 0 .. b + 3 - s \subseteq Lanes
        BY <1>2, <1>3, <3>4 DEF Lanes
      <4>4. CASE k = Total - 1
        BY <3>1, <4>1, <4>2, <4>3, <4>4
      <4>5. CASE k # Total - 1
        BY <3>1, <4>1, <4>2, <4>5
      <4>. QED  BY <4>4, <4>5
    <3>5. CASE s < b
      <4>1. Enabled(k) = (IF k = Total - 1 THEN 0 .. b - s - 1 ELSE Lanes)
        BY <1>2, <1>3, <2>2, <3>2, <3>5 DEF Lanes
      <4>2. \A l \in Lanes : 4 * k + l \in 0 .. B - O - 1 <=> (k = Total - 1 => l \in 0 .. b - s - 1)
        BY <1>2, <1>3, <2>1, <2>3, <3>5 DEF Lanes
      <4>3. 0 .. b - s - 1 \subseteq Lanes
        BY <1>2, <1>3, <3>5 DEF Lanes
      <4>4. CASE k = Total - 1
        BY <3>1, <4>1, <4>2, <4>3, <4>4
      <4>5. CASE k # Total - 1
        BY <3>1, <4>1, <4>2, <4>5
      <4>. QED  BY <4>4, <4>5
    <3>. QED  BY <1>2, <1>3, <3>3, <3>4, <3>5
  <2>5. ASSUME NEW k \in Int, NEW l \in Lanes, 4 * (To + k) + l \in Written(instr)
        PROVE  k \in 0 .. Total - 1
    BY <1>1, <1>2, <1>3, <2>1, <2>3, <2>5 DEF Lanes
  <2>. QED  BY <1>1, <1>2, <1>3, <2>1, <2>3, <2>4, <2>5
<1>. QED  BY <1>6, <1>7, <1>8 DEF SlideKinds

\* Division with a remainder.
LEMMA Divided ==
  ASSUME NEW a \in Nat, NEW d \in Nat \ {0}
  PROVE  /\ a \div d \in Nat /\ a % d \in 0 .. d - 1 /\ a = d * (a \div d) + (a % d)
OBVIOUS

\* The quotient and the remainder are unique.
LEMMA Quotient ==
  ASSUME NEW q \in Nat, NEW d \in Nat \ {0}, NEW m \in 0 .. d - 1
  PROVE  (d * q + m) \div d = q /\ (d * q + m) % d = m
OBVIOUS

\* The remainder of a number below d, also of a negative one.
LEMMA Remainder ==
  ASSUME NEW d \in Nat \ {0}, NEW x \in 1 - d .. d - 1
  PROVE  x % d = IF x < 0 THEN x + d ELSE x
OBVIOUS

\* A greater factor gives a product that is greater by a whole d.
LEMMA Monotone ==
  ASSUME NEW a \in Nat, NEW b \in Nat, a < b, NEW d \in Nat
  PROVE  d * a + d <= d * b /\ d * a \in Nat /\ d * b \in Nat
<1>1. PICK c \in Nat : b = a + 1 + c
  <2>1. b - a - 1 \in Nat /\ b = a + 1 + (b - a - 1)
    OBVIOUS
  <2>. QED  BY <2>1
<1>2. d * b = d * a + d + d * c
  BY <1>1
<1>3. d * c \in Nat /\ d * a \in Nat
  BY <1>1
<1>. QED  BY <1>2, <1>3

\* A group that fits lies in the registers, in one block of the AGU.
LEMMA Registers ==
  ASSUME NEW r \in 0 .. NRegs - 1, instr.bytes \in Nat, Fits(r)
  PROVE  /\ Base(r) \in Nat /\ Base(r) % AguWords \in 0 .. AguWords - 1
         /\ Base(r) = AguWords * (Base(r) \div AguWords) + (Base(r) % AguWords)
         /\ Base(r) \div AguWords \in Nat
         /\ \A n \in Nat : n < Count =>
              /\ Base(r) + n \in Words /\ Base(r) + n < VrfWords
              /\ (Base(r) % AguWords) + n < AguWords
              /\ (Base(r) + n) \div AguWords = Base(r) \div AguWords
              /\ Base(r) + n = Base(r) - (Base(r) % AguWords) + ((Base(r) % AguWords) + n)
<1>. DEFINE b == Base(r)  A == AguWords  q == b \div A  m == b % A  V == VrfWords  v == V \div A
<1>1. A \in Nat \ {0} /\ V \in Nat /\ V % A = 0 /\ NWords \in Nat /\ V < NWords
      /\ b \in Nat /\ b < V
  <2>1. NRegs \in Nat \ {0} /\ WordsPerReg \in Nat \ {0}
    BY SizesAssumption
  <2>2. /\ WordsPerReg * r + WordsPerReg <= WordsPerReg * NRegs /\ WordsPerReg * r \in Nat
        /\ WordsPerReg * NRegs \in Nat
    BY <2>1, Monotone
  <2>3. b = WordsPerReg * r /\ V = WordsPerReg * NRegs
    BY <2>1 DEF Base, VrfWords
  <2>. QED  BY <2>1, <2>2, <2>3, SizesAssumption
<1>. HIDE DEF b, A, V
<1>2. q \in Nat /\ m \in 0 .. A - 1 /\ b = A * q + m
  BY <1>1, Divided
<1>3. v \in Nat /\ V = A * v
  <2>1. v \in Nat /\ V = A * v + (V % A)
    BY <1>1, Divided
  <2>. HIDE DEF v
  <2>2. A * v \in Int
    BY <1>1, <2>1
  <2>. QED  BY <1>1, <2>1, <2>2
<1>. HIDE DEF q, m, v
<1>4. q < v
  <2>1. SUFFICES ASSUME v <= q PROVE FALSE
    BY <1>2, <1>3
  <2>2. A * v <= A * q /\ A * q \in Nat /\ A * v \in Nat
    <3>1. CASE v = q
      BY <1>1, <1>2, <3>1
    <3>2. CASE v < q
      BY <1>1, <1>2, <1>3, <3>2, Monotone
    <3>. QED  BY <1>2, <1>3, <2>1, <3>1, <3>2
  <2>. QED  BY <1>1, <1>2, <1>3, <2>2
<1>5. A * q + A <= V /\ A * q \in Nat
  BY <1>1, <1>2, <1>3, <1>4, Monotone
<1>6. m + Count <= A /\ Count \in Nat
  <2>1. m + Count <= A
    BY DEF Fits, m, b, A
  <2>. QED  BY <2>1, Quarters DEF Count
<1>7. ASSUME NEW n \in Nat, n < Count
      PROVE  /\ b + n \in Words /\ b + n < V /\ m + n < A /\ (b + n) \div A = q
             /\ b + n = b - m + (m + n)
  <2>1. m + n \in 0 .. A - 1 /\ b + n = A * q + (m + n)
    BY <1>1, <1>2, <1>5, <1>6, <1>7
  <2>2. (b + n) \div A = q
    BY <1>1, <1>2, <2>1, Quotient
  <2>. QED  BY <1>1, <1>2, <1>5, <2>1, <2>2 DEF Words
<1>. QED  BY <1>1, <1>2, <1>7 DEF b, A, q, m, V

\* The words that a result goes to, as Expected counts them and as the FSM does.
LEMMA Targets ==
  ASSUME Sized, NEW w \in Words, NEW l \in Lanes
  PROVE  LET k == w - Base(instr.rd)
         IN /\ (InGroup(instr.rd, w) /\ RegIndex(instr.rd, w, l) \in Written(instr))
               <=> (k \in To .. To + Total - 1 /\ 4 * k + l \in Written(instr))
            /\ k \in To .. To + Total - 1 => RegIndex(instr.rd, w, l) = 4 * k + l
<1>. DEFINE D == Base(instr.rd)  k == w - D  A == AguWords  q == D \div A  m == D % A
<1>1. /\ instr.rd \in 0 .. NRegs - 1 /\ instr.bytes \in Nat /\ Fits(instr.rd)
      /\ instr.kind \in WordKinds
  BY InstrTypes DEF Sized, Placed
<1>2. /\ D \in Nat /\ m \in 0 .. A - 1 /\ q \in Nat /\ D = A * q + m
      /\ \A n \in Nat : n < Count => D + n < VrfWords /\ m + n < A /\ (D + n) \div A = q
  BY <1>1, Registers
<1>3. Total \in Nat \ {0} /\ To + Total <= Count /\ To \in Nat /\ Count \in Nat
  BY <1>1, Turns, Numbers DEF Sized
<1>4. A \in Nat \ {0} /\ w \in Nat /\ VrfWords \in Nat /\ NWords \in Nat
  BY SizesAssumption DEF Words, VrfWords
<1>5. InGroup(instr.rd, w) <=> w < VrfWords /\ w \div A = q
  BY DEF InGroup, Base
<1>6. RegIndex(instr.rd, w, l) = (k % A) * 4 + l
  BY DEF RegIndex, Base
<1>. HIDE DEF D, A, m, q
<1>7. ASSUME k \in To .. To + Total - 1
      PROVE  InGroup(instr.rd, w) /\ RegIndex(instr.rd, w, l) = 4 * k + l
  <2>1. k \in Nat /\ k < Count /\ w = D + k
    BY <1>2, <1>3, <1>4, <1>7
  <2>2. k < A
    BY <1>2, <1>4, <2>1
  <2>3. k % A = k
    BY <1>4, <2>1, <2>2, Remainder
  <2>. QED  BY <1>2, <1>5, <1>6, <2>1, <2>3 DEF Lanes
<1>8. ASSUME InGroup(instr.rd, w), RegIndex(instr.rd, w, l) \in Written(instr)
      PROVE  k \in To .. To + Total - 1
  <2>. DEFINE n == w % A  j == k % A
  <2>1. w = A * q + n /\ n \in 0 .. A - 1
    BY <1>4, <1>5, <1>8, Divided
  <2>. HIDE DEF n
  <2>2. A * q \in Int /\ k = n - m
    BY <1>2, <1>4, <2>1
  <2>3. j = IF k < 0 THEN k + A ELSE k
    <3>1. n - m \in 1 - A .. A - 1
      BY <1>2, <1>4, <2>1
    <3>. QED  BY <1>4, <2>2, <3>1, Remainder
  <2>4. j \in Int
    BY <1>2, <1>4, <2>1, <2>2, <2>3
  <2>. HIDE DEF j
  <2>5. j - To \in Int /\ 4 * (To + (j - To)) + l \in Written(instr)
    BY <1>3, <1>6, <1>8, <2>4 DEF j, Lanes
  <2>6. j - To \in 0 .. Total - 1
    BY <2>5, Turns
  <2>7. j < Count
    BY <1>3, <2>4, <2>6
  <2>8. m + Count <= A
    BY <1>1 DEF Sized, Fits, m, D, A
  <2>9. k >= 0
    BY <1>2, <1>3, <1>4, <2>1, <2>2, <2>3, <2>7, <2>8
  <2>10. j = k
    BY <1>2, <1>4, <2>1, <2>2, <2>3, <2>4, <2>9
  <2>. QED  BY <1>3, <2>4, <2>6, <2>10
<1>9. InGroup(instr.rd, w) /\ RegIndex(instr.rd, w, l) \in Written(instr)
      <=> k \in To .. To + Total - 1 /\ 4 * k + l \in Written(instr)
  BY <1>7, <1>8
<1>. QED  BY <1>7, <1>9 DEF D

\* All rounds written is the result expected.
LEMMA Finished ==
  ASSUME Sized, Progress(Total)
  PROVE  memory = Expected(before, instr)
<1>1. Expected(before, instr) = [w \in Words |-> [l \in Lanes |->
         IF InGroup(instr.rd, w) /\ RegIndex(instr.rd, w, l) \in Written(instr)
         THEN Result(before, instr, RegIndex(instr.rd, w, l)) ELSE before[w][l]]]
  BY DEF Expected, Sized, WordKinds, Multiplied, Copied
<1>2. ASSUME NEW w \in Words, NEW l \in Lanes
      PROVE  LET k == w - Base(instr.rd)
             IN (IF k \in To .. To + Total - 1 /\ l \in Needed(k) THEN Element(k)[l] ELSE before[w][l])
                = (IF InGroup(instr.rd, w) /\ RegIndex(instr.rd, w, l) \in Written(instr)
                   THEN Result(before, instr, RegIndex(instr.rd, w, l)) ELSE before[w][l])
  <2>. DEFINE k == w - Base(instr.rd)
  <2>1. /\ Element(k)[l] = Result(before, instr, 4 * k + l)
        /\ (l \in Needed(k) <=> 4 * k + l \in Written(instr))
    BY DEF Element, Needed
  <2>. QED  BY <2>1, Targets
<1>. QED  BY <1>1, <1>2 DEF Progress, Image

\* A write of the next word, with its lanes enabled, extends what is written.
LEMMA WriteStep ==
  ASSUME Sized, NEW n \in 0 .. Total - 1, NEW data,
         \A l \in Needed(To + n) : data[l] = Element(To + n)[l]
  PROVE  [Image(n) EXCEPT ![Base(instr.rd) + To + n] = Merge(@, data, Enabled(n))] = Image(n + 1)
<1>. DEFINE D == Base(instr.rd)  a == D + To + n  M == [Image(n) EXCEPT ![a] = Merge(@, data, Enabled(n))]
<1>1. /\ instr.rd \in 0 .. NRegs - 1 /\ instr.bytes \in Nat /\ Fits(instr.rd)
  BY InstrTypes DEF Sized, Placed
<1>2. Total \in Nat \ {0} /\ To + Total <= Count /\ To \in Nat /\ Count \in Nat
  BY <1>1, Turns, Numbers DEF Sized
<1>3. D \in Nat /\ D + (To + n) \in Words /\ a = D + (To + n)
  <2>1. To + n \in Nat /\ To + n < Count
    BY <1>2
  <2>2. D \in Nat /\ D + (To + n) \in Words
    BY <1>1, <2>1, Registers
  <2>. QED  BY <1>2, <2>2
<1>. HIDE DEF D
<1>4. Needed(To + n) = Enabled(n)
  BY Turns
<1>5. Image(n) = [w \in Words |-> Image(n)[w]]
  BY DEF Image
<1>6. M = [w \in Words |-> IF w = a THEN Merge(Image(n)[w], data, Enabled(n)) ELSE Image(n)[w]]
  BY <1>3, <1>5
<1>7. ASSUME NEW w \in Words
      PROVE  (IF w = a THEN Merge(Image(n)[w], data, Enabled(n)) ELSE Image(n)[w])
             = [l \in Lanes |-> LET k == w - D
                IN IF k \in To .. To + (n + 1) - 1 /\ l \in Needed(k) THEN Element(k)[l] ELSE before[w][l]]
  <2>1. Image(n)[w] = [l \in Lanes |-> LET k == w - D
                IN IF k \in To .. To + n - 1 /\ l \in Needed(k) THEN Element(k)[l] ELSE before[w][l]]
    BY DEF Image, D
  <2>2. w \in Nat
    BY DEF Words
  <2>3. CASE w = a
    <3>1. w - D = To + n /\ w - D \notin To .. To + n - 1 /\ w - D \in To .. To + (n + 1) - 1
      BY <1>2, <1>3, <2>3
    <3>2. Image(n)[w] = [l \in Lanes |-> before[w][l]]
      BY <2>1, <3>1
    <3>3. Merge(Image(n)[w], data, Enabled(n))
          = [l \in Lanes |-> IF l \in Enabled(n) THEN data[l] ELSE before[w][l]]
      BY <3>2 DEF Merge
    <3>4. \A l \in Lanes : (IF l \in Enabled(n) THEN data[l] ELSE before[w][l])
                         = (IF l \in Needed(To + n) THEN Element(To + n)[l] ELSE before[w][l])
      BY <1>4
    <3>. QED  BY <2>3, <3>1, <3>3, <3>4
  <2>4. CASE w # a
    <3>1. w - D \in To .. To + n - 1 <=> w - D \in To .. To + (n + 1) - 1
      BY <1>2, <1>3, <2>2, <2>4
    <3>. QED  BY <2>1, <2>4, <3>1
  <2>. QED  BY <2>3, <2>4
<1>8. Image(n + 1) = [w \in Words |-> [l \in Lanes |-> LET k == w - D
                IN IF k \in To .. To + (n + 1) - 1 /\ l \in Needed(k) THEN Element(k)[l] ELSE before[w][l]]]
  BY DEF Image, D
<1>9. M = Image(n + 1)
  BY <1>6, <1>7, <1>8
<1>. QED  BY <1>9 DEF D

\* Words that are not written yet are those from before.
LEMMA ReadStep ==
  ASSUME Sized, Shape(before), NEW n \in Nat, Progress(n), NEW w \in Words,
         w \notin Base(instr.rd) + To .. Base(instr.rd) + To + n - 1
  PROVE  memory[w] = before[w]
<1>. DEFINE D == Base(instr.rd)
<1>1. D \in Nat /\ To \in Nat
  <2>1. instr.rd \in 0 .. NRegs - 1 /\ instr.bytes \in Nat /\ Fits(instr.rd)
    BY InstrTypes DEF Sized, Placed
  <2>. QED  BY <2>1, Registers, Numbers DEF Sized
<1>. HIDE DEF D
<1>2. w - D \notin To .. To + n - 1
  <2>1. w \notin D + To .. D + To + n - 1
    BY DEF D
  <2>. QED  BY <1>1, <2>1 DEF Words
<1>3. memory[w] = [l \in Lanes |-> LET k == w - D
                IN IF k \in To .. To + n - 1 /\ l \in Needed(k) THEN Element(k)[l] ELSE before[w][l]]
  BY DEF Progress, Image, D
<1>4. memory[w] = [l \in Lanes |-> before[w][l]]
  BY <1>2, <1>3
<1>5. before[w] = [l \in Lanes |-> before[w][l]]
  BY DEF Shape
<1>. QED  BY <1>4, <1>5

\* A word of an operand that is read in time is the one from before.
LEMMA ReadOperand ==
  ASSUME Sized, Shape(before), NEW n \in Nat, Progress(n), NEW r \in 0 .. NRegs - 1,
         Fits(r), Clear(r), NEW p \in Nat, From + p < Count, n <= p
  PROVE  /\ memory[Base(r) + (From + p)] = Word(r, From + p)
         /\ Vrf!Group(r) + ((Base(r) % AguWords) + (From + p)) = Base(r) + (From + p)
<1>1. instr.bytes \in Nat /\ From \in Nat /\ To \in Nat
  BY InstrTypes, Numbers DEF Sized
<1>2. From + p \in Nat
  BY <1>1
<1>3. /\ Base(r) \in Nat /\ Base(r) + (From + p) \in Words
      /\ Base(r) + (From + p) = Base(r) - (Base(r) % AguWords) + ((Base(r) % AguWords) + (From + p))
  BY <1>1, <1>2, Registers
<1>4. Base(instr.rd) \in Nat
  <2>1. instr.rd \in 0 .. NRegs - 1 /\ Fits(instr.rd)
    BY InstrTypes DEF Sized, Placed
  <2>. QED  BY <1>1, <2>1, Registers
<1>5. Base(r) + (From + p) \notin Base(instr.rd) + To .. Base(instr.rd) + To + n - 1
  <2>1. Base(instr.rd) + To <= Base(r) + From \/ Base(r) + Count <= Base(instr.rd) + To
    BY DEF Clear
  <2>2. Count \in Nat
    BY Numbers DEF Sized
  <2>. QED  BY <1>1, <1>3, <1>4, <2>1, <2>2
<1>6. memory[Base(r) + (From + p)] = before[Base(r) + (From + p)]
  BY <1>3, <1>5, ReadStep
<1>. QED  BY <1>3, <1>6 DEF Word, Vrf!Group, Vrf!FirstWord, Base

\* A vector instruction at work in the VRF.
Works == Tolerated /\ Facts /\ KindInv /\ DelayInv /\ vrf_state # "IDLE" /\ instr.kind \in WordKinds

\* It has the data memory for itself.
LEMMA AtWork ==
  ASSUME Works
  PROVE  /\ vrf_req /\ ~vrf_memory_op /\ ~op.mem /\ instr_valid_id_q /\ id_fsm_q = "MULTI_CYCLE"
         /\ vrf_state \in {"START"} \cup ArithStates
         /\ prev_op_q = "VRF" /\ LsuRest /\ vrf_has_mem
<1>1. vrf_req /\ ~vrf_memory_op /\ ~op.mem
  BY DEF Works, WordKinds, Multiplied, Copied, vrf_req, Scalars, vrf_memory_op, op
<1>2. instr_valid_id_q /\ id_fsm_q = "MULTI_CYCLE"
  BY VrfInstr DEF Works
<1>3. vrf_state \in {"START"} \cup ArithStates
  <2>1. vrf_state \notin LoadStates \cup StoreStates
    BY DEF Works, KindInv, WordKinds, Multiplied, Copied
  <2>. QED  BY <2>1, ByState DEF Works, Facts, LoadStates, StoreStates, ArithStates
<1>4. ~LsuTurn
  BY <1>3 DEF LsuTurn, ArithStates
<1>5. prev_op_q = "VRF" /\ LsuRest
  BY <1>1, <1>2, <1>4 DEF Works, Facts, PhaseInv
<1>6. ~Vrf!lsu_req_o
  BY <1>1, <1>3 DEF Vrf!lsu_req_o, Vrf!State, ArithStates
<1>. QED  BY <1>1, <1>2, <1>3, <1>5, <1>6 DEF vrf_has_mem, LsuRest, Lsu!busy_o

\* A cycle of it: what is answered, requested and written.
LEMMA Cycle ==
  ASSUME Works
  PROVE  /\ vrf_data_rvalid <=> inflight # <<>>
         /\ inflight # <<>> => Answer = Head(inflight).data
         /\ in.vrf_gnt \in BOOLEAN /\ (in.vrf_gnt => Vrf!data_req_o)
         /\ in.vrf_gnt => inflight' # <<>> /\ Head(inflight').data = memory[Vrf!addr_o]
         /\ ~in.vrf_gnt => inflight' = <<>>
         /\ in.vrf_gnt /\ Vrf!data_we_o
            => memory' = [memory EXCEPT ![Vrf!addr_o] = Merge(@, Vrf!data_wdata_o, Vrf!data_be_o)]
         /\ ~in.vrf_gnt \/ ~Vrf!data_we_o => memory' = memory
         /\ ~Vrf!vector_done_o => instr' = instr /\ before' = before
<1>1. in \in Inputs /\ Tolerated /\ ControlTypeOK /\ Memory
  BY DEF Works, Facts, ControlTypeOK
<1>2. inflight = <<>> \/ (inflight = <<Head(inflight)>> /\ OneOf("VRF"))
  BY AtWork DEF LsuRest, OneOf
<1>3. in.rvalid <=> inflight # <<>>
  BY <1>1, <1>2, Bus
<1>4. in.vrf_gnt \in BOOLEAN /\ ~in.lsu_gnt /\ (in.vrf_gnt => Vrf!data_req_o)
  BY <1>1, InputTypes, Bus, AtWork
<1>5. gnt <=> in.vrf_gnt
  BY <1>4 DEF gnt
<1>6. /\ bus.we = Vrf!data_we_o /\ bus.be = Vrf!data_be_o /\ bus.word = Vrf!addr_o
      /\ bus.wdata = Vrf!data_wdata_o
  BY AtWork DEF bus
<1>7. vrf_data_rvalid <=> inflight # <<>>
  BY <1>3, AtWork DEF vrf_data_rvalid
<1>8. inflight # <<>> => Answer = Head(inflight).data
  BY <1>3 DEF Answer
<1>9. /\ in.vrf_gnt => inflight' # <<>> /\ Head(inflight').data = memory[Vrf!addr_o]
      /\ ~in.vrf_gnt => inflight' = <<>>
  <2>. DEFINE new == [unit |-> IF in.vrf_gnt THEN "VRF" ELSE "LSU", data |-> memory[bus.word]]
  <2>1. /\ gnt => granted = Append(inflight, new)
        /\ ~gnt => granted = inflight
        /\ in.rvalid => inflight' = Tail(granted)
        /\ ~in.rvalid => inflight' = granted
    BY <1>1 DEF granted, Memory
  <2>2. new.data = memory[Vrf!addr_o]
    BY <1>6
  <2>. HIDE DEF new
  <2>3. in.vrf_gnt => inflight' = <<new>>
    <3>1. CASE inflight = <<>>
      BY <1>3, <1>5, <2>1, <3>1, ShortQueues
    <3>2. CASE inflight = <<Head(inflight)>> /\ OneOf("VRF")
      <4>1. in.rvalid
        BY <1>1, <3>2, Bus
      <4>. QED  BY <1>5, <2>1, <3>2, <4>1, ShortQueues
    <3>. QED  BY <1>2, <3>1, <3>2
  <2>4. ~in.vrf_gnt => inflight' = <<>>
    <3>1. CASE inflight = <<>>
      BY <1>3, <1>5, <2>1, <3>1
    <3>2. CASE inflight = <<Head(inflight)>> /\ OneOf("VRF")
      <4>1. in.rvalid
        BY <1>1, <3>2, Bus
      <4>. QED  BY <1>5, <2>1, <3>2, <4>1, ShortQueues
    <3>. QED  BY <1>2, <3>1, <3>2
  <2>5. <<new>> # <<>> /\ Head(<<new>>) = new
    OBVIOUS
  <2>. QED  BY <2>2, <2>3, <2>4, <2>5
<1>10. /\ in.vrf_gnt /\ Vrf!data_we_o
          => memory' = [memory EXCEPT ![Vrf!addr_o] = Merge(@, Vrf!data_wdata_o, Vrf!data_be_o)]
       /\ ~in.vrf_gnt \/ ~Vrf!data_we_o => memory' = memory
  BY <1>1, <1>5, <1>6 DEF Memory
<1>11. ASSUME ~Vrf!vector_done_o
       PROVE  instr' = instr /\ before' = before
  <2>1. stall_id
    BY <1>11, AtWork DEF stall_id, stall_vec, instr_executing
  <2>2. ~new_instr
    BY <2>1 DEF new_instr
  <2>3. before' = before
    BY <1>1, <2>2 DEF Memory
  <2>. QED  BY <1>11, <2>3, VrfInstr DEF Works
<1>. QED  BY <1>4, <1>7, <1>8, <1>9, <1>10, <1>11

\* What depends on the instruction alone stays with it.
LEMMA Same ==
  ASSUME instr' = instr, before' = before
  PROVE  /\ op' = op /\ From' = From /\ To' = To /\ Lead' = Lead /\ Count' = Count
         /\ Whole' = Whole
         /\ Rounds' = Rounds /\ FirstReg' = FirstReg /\ (Binary' <=> Binary)
         /\ (FromRs1' <=> FromRs1)
         /\ \A r, n : Word(r, n)' = Word(r, n)
         /\ \A k : Element(k)' = Element(k) /\ Needed(k)' = Needed(k)
         /\ \A n : Image(n)' = Image(n)
         /\ \A q, r, n : At(q, r, n)' <=> At(q, r, n)
         /\ \A q, k : Holds(q, k)' <=> Holds(q, k)
         /\ \A n, w : Source(n, w)' <=> Source(n, w)
         /\ \A r : (Fits(r)' <=> Fits(r)) /\ (Clear(r)' <=> Clear(r))
         /\ Placed' <=> Placed
<1>1. op' = op
  BY DEF op, vrf_sel_operation, vrf_memory_op, vrf_slide_op
<1>2. /\ From' = From /\ To' = To /\ Lead' = Lead /\ Count' = Count /\ Whole' = Whole
      /\ FirstReg' = FirstReg /\ (Binary' <=> Binary) /\ (FromRs1' <=> FromRs1)
  BY DEF From, To, Lead, Count, Whole, FirstReg, Binary, FromRs1
<1>3. Rounds' = Rounds
  BY <1>2 DEF Rounds
<1>4. \A r, n : Word(r, n)' = Word(r, n)
  BY DEF Word
<1>5. \A k : Element(k)' = Element(k) /\ Needed(k)' = Needed(k)
  BY DEF Element, Needed
<1>6. \A n : Image(n)' = Image(n)
  BY <1>2, <1>5 DEF Image
<1>7. \A q, r, n : At(q, r, n)' <=> At(q, r, n)
  BY <1>2 DEF At
<1>8. \A q, k : Holds(q, k)' <=> Holds(q, k)
  BY <1>2, <1>4, <1>5 DEF Holds
<1>9. \A n, w : Source(n, w)' <=> Source(n, w)
  BY <1>2, <1>4 DEF Source
<1>10. \A r : (Fits(r)' <=> Fits(r)) /\ (Clear(r)' <=> Clear(r))
  BY <1>2 DEF Fits, Clear
<1>11. Placed' <=> Placed
  BY <1>2, <1>10 DEF Placed
<1>. QED  BY <1>1, <1>2, <1>3, <1>4, <1>5, <1>6, <1>7, <1>8, <1>9, <1>10, <1>11

\* Where FSM does not begin a new instruction the sizes stay.
LEMMA SameSize ==
  ASSUME instr' = instr, before' = before, offset_q' = offset_q,
         slide_offset_q' = slide_offset_q
  PROVE  /\ (Vrf!no_offset' <=> Vrf!no_offset) /\ Least' = Least /\ Total' = Total
         /\ Vrf!kept' = Vrf!kept
         /\ \A b, n : KeptOf(b, n)' <=> KeptOf(b, n)
         /\ Sized' <=> Sized
<1>1. /\ op' = op /\ From' = From /\ Rounds' = Rounds /\ (Placed' <=> Placed)
      /\ (\A r, n : Word(r, n)' = Word(r, n))
  BY Same
<1>2. (Vrf!no_offset' <=> Vrf!no_offset) /\ Vrf!kept' = Vrf!kept
  BY <1>1 DEF Vrf!no_offset, Vrf!SlideDown, Vrf!kept
<1>3. Least' = Least /\ Total' = Total
  BY <1>1, <1>2 DEF Least, Total
<1>6. FirstReg' = FirstReg
  BY Same
<1>4. ASSUME NEW b, NEW n PROVE KeptOf(b, n)' <=> KeptOf(b, n)
  BY <1>1, <1>2, <1>6 DEF KeptOf
<1>5. Sized' <=> Sized
  BY <1>1 DEF Sized
<1>. QED  BY <1>2, <1>3, <1>4, <1>5

\* The counter tells how many rounds have begun.
LEMMA RoundIs ==
  ASSUME Sized, Counting, last_iteration_q \in BOOLEAN
  PROVE  /\ Round \in 0 .. Total
         /\ last_iteration_q => Round = Total
         /\ ~last_iteration_q => Round < Total
         /\ num_iterations_q \in Nat
         /\ Vrf!last_next <=> num_iterations_q = Least
<1>1. /\ Rounds \in Nat /\ Least \in {0, 1} /\ Least <= Rounds /\ Total \in Nat \ {0}
      /\ Total = Rounds - Least + 1
  BY Turns DEF Total
<1>2. num_iterations_q \in Least .. Rounds /\ (last_iteration_q => num_iterations_q = Least)
  BY DEF Counting
<1>3. Round = Rounds - num_iterations_q + (IF last_iteration_q THEN 1 ELSE 0)
  BY DEF Round
<1>. QED  BY <1>1, <1>2, <1>3 DEF Vrf!last_next, Least

\* An iteration that is counted.
LEMMA IterateStep ==
  ASSUME Sized, Counting, ~last_iteration_q, last_iteration_q \in BOOLEAN,
         NEW c \in BOOLEAN, Vrf!Iterate(c),
         instr' = instr, before' = before, offset_q' = offset_q, slide_offset_q' = slide_offset_q
  PROVE  /\ Counting' /\ Round' = Round + (IF c THEN 1 ELSE 0)
         /\ last_iteration_q' <=> c /\ Vrf!last_next
<1>1. /\ Rounds \in Nat /\ Least \in {0, 1} /\ Least <= Rounds /\ Rounds <= Whole
      /\ Whole \in Nat /\ Whole < Vrf!IterationLimit
  <2>1. Rounds \in Nat /\ Least \in {0, 1} /\ Least <= Rounds
    BY Turns
  <2>2. Whole \in Nat /\ From \in Nat /\ To \in Nat /\ Whole < Vrf!IterationLimit
    BY Numbers DEF Sized, Placed
  <2>. QED  BY <2>1, <2>2 DEF Rounds
<1>2. num_iterations_q \in Least .. Rounds
  BY DEF Counting
<1>3. Vrf!last_next <=> num_iterations_q = Least
  BY RoundIs
<1>4. /\ last_iteration_q' <=> c /\ Vrf!last_next
      /\ num_iterations_q' = IF c /\ ~Vrf!last_next THEN (num_iterations_q - 1) % Vrf!IterationLimit ELSE num_iterations_q
  BY DEF Vrf!Iterate, Vrf!Minus
<1>5. c /\ ~Vrf!last_next => num_iterations_q' = num_iterations_q - 1
  <2>1. Vrf!IterationLimit \in Nat
    BY SMT DEF Vrf!IterationLimit
  <2>2. SUFFICES ASSUME c /\ ~Vrf!last_next
        PROVE (num_iterations_q - 1) % Vrf!IterationLimit = num_iterations_q - 1
    BY <1>4
  <2>3. num_iterations_q - 1 \in 0 .. Vrf!IterationLimit - 1
    BY <1>1, <1>2, <1>3, <2>1, <2>2
  <2>. QED  BY <2>1, <2>3, Remainder
<1>6. Rounds' = Rounds /\ Least' = Least
  BY Same, SameSize
<1>7. Round' = Round + (IF c THEN 1 ELSE 0)
  BY <1>1, <1>2, <1>3, <1>4, <1>5, <1>6 DEF Round
<1>8. Counting'
  BY <1>1, <1>2, <1>3, <1>4, <1>5, <1>6 DEF Counting
<1>. QED  BY <1>4, <1>7, <1>8

\* A cycle that counts none.
LEMMA KeepStep ==
  ASSUME Counting, Vrf!KeepIter,
         instr' = instr, before' = before, offset_q' = offset_q, slide_offset_q' = slide_offset_q
  PROVE  Counting' /\ Round' = Round /\ last_iteration_q' = last_iteration_q
<1>1. Rounds' = Rounds /\ Least' = Least
  BY Same, SameSize
<1>. QED  BY <1>1 DEF Counting, Round, Vrf!KeepIter

\* A counter of the AGU goes to the next word.
LEMMA CountUp ==
  ASSUME NEW r \in 0 .. NRegs - 1, instr.bytes \in Nat, Fits(r), NEW n \in Nat, NEW q,
         At(q, r, n)
  PROVE  At(Vrf!Counted(q), r, n + 1)
<1>1. SUFFICES ASSUME n + 1 < Count
               PROVE  (q + 1) % AguWords = (Base(r) % AguWords) + (n + 1)
  BY DEF At, Vrf!Counted
<1>2. Count \in Nat /\ AguWords \in Nat \ {0}
  BY Quarters, SizesAssumption DEF Count
<1>3. q = (Base(r) % AguWords) + n
  BY <1>1, <1>2 DEF At
<1>4. (Base(r) % AguWords) + (n + 1) < AguWords /\ Base(r) % AguWords \in Nat
  <2>1. n + 1 \in Nat
    OBVIOUS
  <2>. QED  BY <1>1, <1>2, <2>1, Registers
<1>5. q + 1 \in 0 .. AguWords - 1 /\ q + 1 = (Base(r) % AguWords) + (n + 1)
  BY <1>2, <1>3, <1>4
<1>6. (q + 1) % AguWords = q + 1
  BY <1>2, <1>5, Remainder
<1>. QED  BY <1>5, <1>6

\* A grant steps the counter of the AGU that was used; a read of rd does not.
Steps == in.vrf_gnt /\ ~(vrf_state \in {"INT_READ2", "INT_WRITE"} /\ Vrf!agu_get_rd_o)

\* The AGU's counters in a cycle.
LEMMA Counters ==
  ASSUME Works, Vrf!AguClock
  PROVE  /\ addr_rs1_q' = (IF Vrf!agu_get_rs1_o /\ Steps THEN Vrf!Counted(addr_rs1_q) ELSE addr_rs1_q)
         /\ addr_rs2_q' = (IF Vrf!agu_get_rs2_o /\ Steps THEN Vrf!Counted(addr_rs2_q) ELSE addr_rs2_q)
         /\ addr_rd_q' = (IF Vrf!agu_get_rd_o /\ Steps THEN Vrf!Counted(addr_rd_q) ELSE addr_rd_q)
<1>1. ~Vrf!agu_load_o
  BY DEF Works, Vrf!agu_load_o, Vrf!accept, Vrf!State
<1>2. Vrf!agu_incr_o <=> Steps
  <2>1. in.vrf_gnt => Vrf!data_req_o
    BY Cycle
  <2>. QED  BY <2>1 DEF Vrf!agu_incr_o, Steps
<1>. QED  BY <1>1, <1>2 DEF Vrf!AguClock

\* The groups of an instruction are in place.
LEMMA RegisterTypes ==
  ASSUME Sized
  PROVE  /\ instr.bytes \in Nat /\ instr.rd \in 0 .. NRegs - 1 /\ FirstReg \in 0 .. NRegs - 1
         /\ Fits(instr.rd) /\ Fits(FirstReg) /\ Clear(FirstReg)
         /\ Binary => instr.rs2 \in 0 .. NRegs - 1 /\ Fits(instr.rs2) /\ Clear(instr.rs2)
         /\ instr.kind \in Multiplied => From = 0 /\ To = 0 /\ Lead = 0
         /\ From \in Nat /\ To \in Nat /\ Lead \in {0, 1} /\ Count \in Nat
         /\ Binary <=> FromRs1 /\ instr.kind # "mv_v"
<1>1. instr.kind \in Multiplied => instr.kind \notin SlideKinds
  BY DEF Multiplied, SlideKinds
<1>. QED  BY <1>1, InstrTypes, Numbers DEF Sized, Placed, FirstReg, Binary, FromRs1

\* A cycle in which a vector instruction is not done.
Idles == Works /\ Sized /\ Shape(before) /\ Vrf!AguClock /\ ~Vrf!vector_done_o

\* A read of the first operand: if granted, the word comes, and the counter goes
\* to the next; otherwise nothing changes.
LEMMA AsksFirst ==
  ASSUME Idles, Vrf!agu_get_rs1_o <=> FromRs1, Vrf!agu_get_rs2_o <=> ~FromRs1,
         ~Vrf!agu_get_rd_o,
         NEW n \in Nat, Progress(n), NEW p \in Nat, n <= p, At(FirstAddr, FirstReg, From + p)
  PROVE  /\ in.vrf_gnt => inflight' # <<>> /\ Source(p, Head(inflight').data)
         /\ ~in.vrf_gnt => inflight' = <<>>
         /\ in.vrf_gnt => At(FirstAddr', FirstReg, From + p + 1)
         /\ ~in.vrf_gnt => FirstAddr' = FirstAddr
         /\ addr_rd_q' = addr_rd_q /\ (Binary => addr_rs2_q' = addr_rs2_q)
         /\ memory' = memory /\ instr' = instr /\ before' = before
<1>1. /\ ~Vrf!data_we_o /\ (Steps <=> in.vrf_gnt) /\ instr' = instr /\ before' = before
      /\ in.vrf_gnt \in BOOLEAN
  BY Cycle DEF Idles, Vrf!agu_get_rd_o, Steps
<1>2. memory' = memory
  BY <1>1, Cycle DEF Idles
<1>3. /\ FirstAddr' = (IF in.vrf_gnt THEN Vrf!Counted(FirstAddr) ELSE FirstAddr)
      /\ addr_rd_q' = addr_rd_q /\ (Binary => addr_rs2_q' = addr_rs2_q)
  <2>1. FromRs1' <=> FromRs1
    BY <1>1 DEF FromRs1
  <2>2. Binary => FromRs1
    BY DEF Binary, FromRs1
  <2>. QED  BY <1>1, <2>1, <2>2, Counters DEF Idles, FirstAddr
<1>4. At(Vrf!Counted(FirstAddr), FirstReg, From + p + 1)
  BY RegisterTypes, CountUp DEF Idles
<1>5. in.vrf_gnt => inflight' # <<>> /\ Source(p, Head(inflight').data)
  <2>1. SUFFICES ASSUME in.vrf_gnt, From + p < Count
                 PROVE  Head(inflight').data = Word(FirstReg, From + p)
    BY Cycle DEF Source, Idles
  <2>2. Head(inflight').data = memory[Vrf!addr_o]
    BY <2>1, Cycle DEF Idles
  <2>3. Vrf!addr_o = Vrf!Group(FirstReg) + FirstAddr
    BY DEF Vrf!addr_o, FirstReg, FirstAddr, op
  <2>4. FirstAddr = (Base(FirstReg) % AguWords) + (From + p)
    BY <2>1 DEF At
  <2>5. /\ memory[Base(FirstReg) + (From + p)] = Word(FirstReg, From + p)
        /\ Vrf!Group(FirstReg) + ((Base(FirstReg) % AguWords) + (From + p)) = Base(FirstReg) + (From + p)
    BY <2>1, RegisterTypes, ReadOperand DEF Idles
  <2>. QED  BY <2>2, <2>3, <2>4, <2>5
<1>6. ~in.vrf_gnt => inflight' = <<>>
  BY Cycle DEF Idles
<1>. QED  BY <1>1, <1>2, <1>3, <1>4, <1>5, <1>6

\* A read of the second operand.
LEMMA AsksSecond ==
  ASSUME Idles, Binary, ~Vrf!agu_get_rs1_o, Vrf!agu_get_rs2_o, ~Vrf!agu_get_rd_o,
         NEW p \in Nat, Progress(p), p < Count, At(addr_rs2_q, instr.rs2, p)
  PROVE  /\ in.vrf_gnt => inflight' # <<>> /\ Head(inflight').data = Word(instr.rs2, p)
         /\ ~in.vrf_gnt => inflight' = <<>>
         /\ in.vrf_gnt => At(addr_rs2_q', instr.rs2, p + 1)
         /\ ~in.vrf_gnt => addr_rs2_q' = addr_rs2_q
         /\ addr_rd_q' = addr_rd_q /\ FirstAddr' = FirstAddr
         /\ memory' = memory /\ instr' = instr /\ before' = before
<1>1. /\ ~Vrf!data_we_o /\ (Steps <=> in.vrf_gnt) /\ instr' = instr /\ before' = before
      /\ in.vrf_gnt \in BOOLEAN
  BY Cycle DEF Idles, Vrf!agu_get_rd_o, Steps
<1>2. memory' = memory
  BY <1>1, Cycle DEF Idles
<1>3. /\ addr_rs2_q' = (IF in.vrf_gnt THEN Vrf!Counted(addr_rs2_q) ELSE addr_rs2_q)
      /\ addr_rd_q' = addr_rd_q /\ FirstAddr' = FirstAddr
  <2>1. FromRs1' /\ FromRs1
    BY <1>1 DEF Binary, FromRs1
  <2>. QED  BY <1>1, <2>1, Counters DEF Idles, FirstAddr
<1>4. From = 0 /\ To = 0
  BY RegisterTypes DEF Idles, Binary, Multiplied
<1>5. At(Vrf!Counted(addr_rs2_q), instr.rs2, p + 1)
  BY RegisterTypes, CountUp DEF Idles
<1>6. in.vrf_gnt => inflight' # <<>> /\ Head(inflight').data = Word(instr.rs2, p)
  <2>1. in.vrf_gnt => inflight' # <<>> /\ Head(inflight').data = memory[Vrf!addr_o]
    BY Cycle DEF Idles
  <2>2. Vrf!addr_o = Vrf!Group(instr.rs2) + addr_rs2_q
    BY DEF Vrf!addr_o, op
  <2>3. addr_rs2_q = (Base(instr.rs2) % AguWords) + p
    BY DEF At
  <2>4. /\ From + p \in Nat /\ From + p < Count /\ p <= p /\ From + p = p
    BY <1>4
  <2>5. /\ memory[Base(instr.rs2) + (From + p)] = Word(instr.rs2, From + p)
        /\ Vrf!Group(instr.rs2) + ((Base(instr.rs2) % AguWords) + (From + p)) = Base(instr.rs2) + (From + p)
    BY <2>4, RegisterTypes, ReadOperand DEF Idles
  <2>. QED  BY <2>1, <2>2, <2>3, <2>4, <2>5
<1>7. ~in.vrf_gnt => inflight' = <<>>
  BY Cycle DEF Idles
<1>. QED  BY <1>1, <1>2, <1>3, <1>5, <1>6, <1>7

\* A read of the word of rd that the result is added to.
LEMMA AsksRd ==
  ASSUME Idles, instr.kind \in Multiplied, vrf_state \in {"INT_READ2", "INT_WRITE"},
         ~Vrf!agu_get_rs1_o, ~Vrf!agu_get_rs2_o, Vrf!ReadsRd, ~Vrf!data_we_o,
         NEW n \in Nat, Progress(n), n < Count, At(addr_rd_q, instr.rd, To + n)
  PROVE  /\ in.vrf_gnt => inflight' # <<>> /\ Head(inflight').data = Word(instr.rd, n)
         /\ ~in.vrf_gnt => inflight' = <<>>
         /\ addr_rd_q' = addr_rd_q /\ FirstAddr' = FirstAddr /\ addr_rs2_q' = addr_rs2_q
         /\ memory' = memory /\ instr' = instr /\ before' = before
<1>1. /\ Vrf!agu_get_rd_o /\ ~Steps /\ instr' = instr /\ before' = before
      /\ in.vrf_gnt \in BOOLEAN
  BY Cycle DEF Idles, Vrf!agu_get_rd_o, Steps
<1>2. memory' = memory
  BY <1>1, Cycle DEF Idles
<1>3. addr_rs2_q' = addr_rs2_q /\ addr_rd_q' = addr_rd_q /\ FirstAddr' = FirstAddr
  <2>1. FromRs1' <=> FromRs1
    BY <1>1 DEF FromRs1
  <2>. QED  BY <1>1, <2>1, Counters DEF Idles, FirstAddr
<1>4. From = 0 /\ To = 0
  BY RegisterTypes DEF Idles
<1>5. in.vrf_gnt => inflight' # <<>> /\ Head(inflight').data = Word(instr.rd, n)
  <2>1. in.vrf_gnt => inflight' # <<>> /\ Head(inflight').data = memory[Vrf!addr_o]
    BY Cycle DEF Idles
  <2>2. Vrf!addr_o = Vrf!Group(instr.rd) + addr_rd_q
    BY DEF Vrf!addr_o, op
  <2>3. addr_rd_q = (Base(instr.rd) % AguWords) + n
    BY <1>4 DEF At
  <2>4. /\ From + n \in Nat /\ From + n < Count /\ n <= n /\ From + n = n
    BY <1>4
  <2>5. Clear(instr.rd)
    BY <1>4, InstrTypes, Registers, RegisterTypes DEF Clear, Idles
  <2>6. /\ memory[Base(instr.rd) + (From + n)] = Word(instr.rd, From + n)
        /\ Vrf!Group(instr.rd) + ((Base(instr.rd) % AguWords) + (From + n)) = Base(instr.rd) + (From + n)
    BY <2>4, <2>5, RegisterTypes, ReadOperand DEF Idles
  <2>. QED  BY <2>1, <2>2, <2>3, <2>4, <2>6
<1>6. ~in.vrf_gnt => inflight' = <<>>
  BY Cycle DEF Idles
<1>. QED  BY <1>1, <1>2, <1>3, <1>5, <1>6

\* A write of the result.
LEMMA AsksWrite ==
  ASSUME Idles, vrf_state \in {"INT_READ1", "READ"},
         ~Vrf!agu_get_rs1_o, ~Vrf!agu_get_rs2_o, Vrf!data_we_o,
         NEW n \in 0 .. Total - 1, Progress(n), At(addr_rd_q, instr.rd, To + n),
         Vrf!data_be_o = Enabled(n), \A l \in Needed(To + n) : Vrf!data_wdata_o[l] = Element(To + n)[l]
  PROVE  /\ in.vrf_gnt => inflight' # <<>> /\ memory' = Image(n + 1) /\ At(addr_rd_q', instr.rd, To + n + 1)
         /\ ~in.vrf_gnt => inflight' = <<>> /\ memory' = memory /\ addr_rd_q' = addr_rd_q
         /\ FirstAddr' = FirstAddr /\ addr_rs2_q' = addr_rs2_q
         /\ instr' = instr /\ before' = before
<1>1. /\ Vrf!agu_get_rd_o /\ (Steps <=> in.vrf_gnt) /\ instr' = instr /\ before' = before
      /\ in.vrf_gnt \in BOOLEAN
  BY Cycle DEF Idles, Vrf!agu_get_rd_o, Steps
<1>2. Total \in Nat \ {0} /\ To + Total <= Count /\ To \in Nat /\ Count \in Nat
  BY Turns, RegisterTypes DEF Idles
<1>3. /\ addr_rs2_q' = addr_rs2_q /\ FirstAddr' = FirstAddr
      /\ addr_rd_q' = (IF in.vrf_gnt THEN Vrf!Counted(addr_rd_q) ELSE addr_rd_q)
  <2>1. FromRs1' <=> FromRs1
    BY <1>1 DEF FromRs1
  <2>. QED  BY <1>1, <2>1, Counters DEF Idles, FirstAddr
<1>4. At(Vrf!Counted(addr_rd_q), instr.rd, To + n + 1)
  BY <1>2, RegisterTypes, CountUp DEF Idles
<1>5. in.vrf_gnt => inflight' # <<>> /\ memory' = Image(n + 1)
  <2>1. in.vrf_gnt => inflight' # <<>>
        /\ memory' = [memory EXCEPT ![Vrf!addr_o] = Merge(@, Vrf!data_wdata_o, Vrf!data_be_o)]
    BY Cycle DEF Idles
  <2>2. Vrf!addr_o = Vrf!Group(instr.rd) + addr_rd_q
    BY DEF Vrf!addr_o, op
  <2>3. addr_rd_q = (Base(instr.rd) % AguWords) + (To + n)
    BY <1>2 DEF At
  <2>4. Base(instr.rd) \in Nat
        /\ Vrf!Group(instr.rd) + ((Base(instr.rd) % AguWords) + (To + n)) = Base(instr.rd) + (To + n)
    <3>1. To + n \in Nat /\ To + n < Count
      BY <1>2
    <3>2. /\ Base(instr.rd) \in Nat
          /\ Base(instr.rd) + (To + n)
             = Base(instr.rd) - (Base(instr.rd) % AguWords) + ((Base(instr.rd) % AguWords) + (To + n))
      BY <3>1, RegisterTypes, Registers DEF Idles
    <3>. QED  BY <3>2 DEF Vrf!Group, Vrf!FirstWord, Base
  <2>5. Vrf!addr_o = Base(instr.rd) + To + n
    BY <1>2, <2>2, <2>3, <2>4
  <2>6. [Image(n) EXCEPT ![Base(instr.rd) + To + n] = Merge(@, Vrf!data_wdata_o, Enabled(n))] = Image(n + 1)
    BY WriteStep DEF Idles
  <2>. QED  BY <2>1, <2>5, <2>6 DEF Progress
<1>6. ~in.vrf_gnt => inflight' = <<>> /\ memory' = memory
  BY Cycle DEF Idles
<1>. QED  BY <1>1, <1>3, <1>4, <1>5, <1>6

\* A cycle without a request.
LEMMA AsksNothing ==
  ASSUME Works, Vrf!AguClock, ~Vrf!data_req_o
  PROVE  /\ ~in.vrf_gnt /\ inflight' = <<>> /\ memory' = memory
         /\ addr_rs1_q' = addr_rs1_q /\ addr_rs2_q' = addr_rs2_q /\ addr_rd_q' = addr_rd_q
         /\ ~Vrf!vector_done_o => instr' = instr /\ before' = before /\ FirstAddr' = FirstAddr
<1>1. /\ ~in.vrf_gnt /\ inflight' = <<>> /\ memory' = memory
      /\ (~Vrf!vector_done_o => instr' = instr /\ before' = before)
  BY Cycle
<1>2. addr_rs1_q' = addr_rs1_q /\ addr_rs2_q' = addr_rs2_q /\ addr_rd_q' = addr_rd_q
  BY <1>1, Counters DEF Steps
<1>3. instr' = instr => FirstAddr' = FirstAddr
  BY <1>2 DEF FirstAddr, FromRs1
<1>. QED  BY <1>1, <1>2, <1>3

\* The bytes of the result, by kind.
LEMMA Elements ==
  ASSUME Sized, NEW k \in Nat, NEW l \in Lanes
  PROVE  /\ instr.kind = "vv" => Element(k)[l] = Alu(Word(instr.rs1, k)[l], Word(instr.rs2, k)[l], ZeroByte)
         /\ instr.kind = "vx" => Element(k)[l] = Alu(Scalar[l], Word(instr.rs2, k)[l], ZeroByte)
         /\ instr.kind = "macc_vv"
            => Element(k)[l] = Alu(Word(instr.rs1, k)[l], Word(instr.rs2, k)[l], Word(instr.rd, k)[l])
         /\ instr.kind = "macc_vx"
            => Element(k)[l] = Alu(Scalar[l], Word(instr.rs2, k)[l], Word(instr.rd, k)[l])
         /\ instr.kind = "mv_v" => Element(k)[l] = Word(instr.rs1, k)[l]
         /\ instr.kind = "slideup" => Element(k)[l] = RegByte(before, instr.rs2, 4 * k + l - instr.off)
         /\ instr.kind = "slidedown" => Element(k)[l] = RegByte(before, instr.rs2, 4 * k + l + instr.off)
<1>1. \A r : RegByte(before, r, 4 * k + l) = Word(r, k)[l]
  BY Place DEF RegByte, Word, Base
<1>2. Scal(4 * k + l) = Scalar[l]
  BY Place DEF Scal
<1>3. Element(k)[l] = Result(before, instr, 4 * k + l)
  BY DEF Element
<1>4. CASE instr.kind = "vv"
  BY <1>1, <1>2, <1>3, <1>4 DEF Result
<1>5. CASE instr.kind = "vx"
  BY <1>1, <1>2, <1>3, <1>5 DEF Result
<1>6. CASE instr.kind = "macc_vv"
  BY <1>1, <1>2, <1>3, <1>6 DEF Result
<1>7. CASE instr.kind = "macc_vx"
  BY <1>1, <1>2, <1>3, <1>7 DEF Result
<1>8. CASE instr.kind = "mv_v"
  BY <1>1, <1>3, <1>8 DEF Result
<1>9. CASE instr.kind = "slideup"
  BY <1>3, <1>9, InstrTypes DEF Result, Sized, Lanes
<1>10. CASE instr.kind = "slidedown"
  BY <1>3, <1>10 DEF Result
<1>. QED  BY <1>4, <1>5, <1>6, <1>7, <1>8, <1>9, <1>10

\* What the ALU returns for the operands of a round is its result.
LEMMA Computes ==
  ASSUME Sized, NEW k \in 0 .. Total - 1, Holds(FirstOp, k), curr_state_delay # "read",
         Binary => rs2_q = Word(instr.rs2, k),
         instr.kind \in {"macc_vv", "macc_vx"} => rs3_q = Word(instr.rd, k)
  PROVE  LET c == IF curr_state_delay = "read" THEN buffer_q ELSE rs3_q
         IN \A l \in Needed(To + k) : vrf_wdata_id(c)[l] = Element(To + k)[l]
<1>. SUFFICES ASSUME NEW l \in Needed(To + k)
              PROVE  vrf_wdata_id(rs3_q)[l] = Element(To + k)[l]
  OBVIOUS
<1>1. l \in Lanes /\ Total \in Nat
  BY Turns DEF Needed
<1>2. CASE instr.kind \in SlideKinds
  <2>1. rs2_q[l] = Element(To + k)[l]
    BY <1>2 DEF Holds, FirstOp, Binary, SlideKinds
  <2>. QED  BY <1>2, <2>1 DEF vrf_wdata_id, SlideKinds
<1>3. CASE instr.kind \notin SlideKinds
  <2>1. k \in Nat /\ To = 0 /\ To + k = k /\ FirstOp = Word(FirstReg, k)
    BY <1>1, <1>3, Numbers DEF Holds, Sized
  <2>2. instr.kind \in {"vv", "vx", "macc_vv", "macc_vx", "mv_v"}
    BY <1>3 DEF Sized, WordKinds, Multiplied, Copied, SlideKinds
  <2>3. \A a, b, c : AluWord(a, b, c)[l] = Alu(a[l], b[l], c[l])
    BY <1>1 DEF AluWord
  <2>4. Zero[l] = ZeroByte
    BY <1>1 DEF Zero
  <2>5. CASE instr.kind = "vv"
    BY <1>1, <2>1, <2>3, <2>4, <2>5, Elements
       DEF vrf_wdata_id, FirstOp, FirstReg, FromRs1, Binary
  <2>6. CASE instr.kind = "vx"
    BY <1>1, <2>1, <2>3, <2>4, <2>6, Elements
       DEF vrf_wdata_id, FirstOp, FirstReg, FromRs1, Binary
  <2>7. CASE instr.kind = "macc_vv"
    BY <1>1, <2>1, <2>3, <2>7, Elements DEF vrf_wdata_id, FirstOp, FirstReg, FromRs1, Binary
  <2>8. CASE instr.kind = "macc_vx"
    BY <1>1, <2>1, <2>3, <2>8, Elements DEF vrf_wdata_id, FirstOp, FirstReg, FromRs1, Binary
  <2>9. CASE instr.kind = "mv_v"
    BY <1>1, <2>1, <2>9, Elements DEF vrf_wdata_id, FirstOp, FirstReg, FromRs1, Binary
  <2>. QED  BY <2>2, <2>5, <2>6, <2>7, <2>8, <2>9
<1>. QED  BY <1>2, <1>3

\* A byte of a word of the source of a slide.
LEMMA SourceByte ==
  ASSUME instr \in Instr, NEW n \in Nat, NEW j \in Lanes
  PROVE  RegByte(before, instr.rs2, 4 * n + j) = Word(instr.rs2, n)[j]
BY Place DEF RegByte, Word, Base

\* The bytes kept and those that come make a word of a slide.
LEMMA Shifted ==
  ASSUME Sized, instr.kind \in SlideKinds, NEW k \in 0 .. Total - 1, NEW l \in Needed(To + k),
         NEW data,
         Source(k + Lead, data), KeptOf(slide_buffer_q, k + Lead)
  PROVE  (IF l < Vrf!kept THEN slide_buffer_q[l] ELSE data[l - Vrf!kept]) = Element(To + k)[l]
<1>. DEFINE s == instr.off % 4  P == instr.off \div 4
<1>1. /\ instr.off \in Nat /\ P \in Nat /\ s \in 0 .. 3 /\ instr.off = 4 * P + s
      /\ instr \in Instr
      /\ slide_offset_q = s /\ instr.bytes \in Nat
  BY InstrTypes, Quarters DEF Sized
<1>2. /\ l \in Lanes /\ k \in Nat /\ k < Total /\ From + Total <= Count /\ Total \in Nat
      /\ From \in Nat /\ To \in Nat
  BY Turns, RegisterTypes DEF Needed
<1>3. Vrf!kept = IF instr.kind = "slideup" \/ s = 0 THEN s ELSE 4 - s
  BY <1>1, KindOp DEF Vrf!kept
<1>4. FirstReg = instr.rs2
  BY DEF FirstReg, FromRs1, SlideKinds
<1>. HIDE DEF s, P
<1>5. CASE instr.kind = "slideup"
  <2>1. From = 0 /\ To = P /\ Lead = 0 /\ Vrf!kept = s
    BY <1>3, <1>5 DEF From, To, Lead, P
  <2>2. Element(To + k)[l] = RegByte(before, instr.rs2, 4 * (To + k) + l - instr.off)
    BY <1>2, <1>5, Elements
  <2>3. 4 * (To + k) + l - instr.off = 4 * k + (l - s)
    BY <1>1, <1>2, <2>1 DEF Lanes
  <2>4. CASE l < s
    <3>1. k > 0
      <4>1. l \in Enabled(k)
        BY Turns
      <4>. QED  BY <1>1, <1>2, <1>5, <2>4, <4>1 DEF Enabled
    <3>2. /\ 4 * k + (l - s) = 4 * (k - 1) + (4 - s + l) /\ k - 1 \in Nat /\ 4 - s + l \in Lanes
          /\ l \in 0 .. s - 1
      BY <1>1, <1>2, <2>4, <3>1 DEF Lanes
    <3>3. slide_buffer_q[l] = Word(FirstReg, From + (k + Lead) - 1)[4 - Vrf!kept + l]
      BY <1>2, <2>1, <3>1, <3>2 DEF KeptOf
    <3>4. From + (k + Lead) - 1 = k - 1
      BY <1>2, <2>1
    <3>. QED  BY <1>1, <1>4, <2>1, <2>2, <2>3, <2>4, <3>2, <3>3, <3>4, SourceByte
  <2>5. CASE ~(l < s)
    <3>1. l - s \in Lanes
      BY <1>1, <1>2, <2>5 DEF Lanes
    <3>2. data = Word(FirstReg, k)
      <4>1. From + (k + Lead) = k /\ k < Count
        BY <1>2, <2>1, RegisterTypes
      <4>. QED  BY <4>1 DEF Source
    <3>. QED  BY <1>1, <1>2, <1>4, <2>1, <2>2, <2>3, <2>5, <3>1, <3>2, SourceByte
  <2>. QED  BY <2>4, <2>5
<1>6. CASE instr.kind = "slidedown"
  <2>1. /\ From = P /\ To = 0 /\ Lead = (IF s = 0 THEN 0 ELSE 1)
        /\ Vrf!kept = (IF s = 0 THEN 0 ELSE 4 - s)
    BY <1>3, <1>6 DEF From, To, Lead, P, s
  <2>2. Element(To + k)[l] = RegByte(before, instr.rs2, 4 * k + l + instr.off)
    BY <1>2, <1>6, <2>1, Elements
  <2>3. 4 * k + l + instr.off = 4 * (From + k) + (l + s)
    BY <1>1, <1>2, <2>1 DEF Lanes
  <2>4. CASE l < Vrf!kept
    <3>1. /\ s # 0 /\ l + s \in Lanes /\ Lead = 1 /\ l \in 0 .. Vrf!kept - 1
          /\ 4 - Vrf!kept + l = l + s
      BY <1>1, <1>2, <2>1, <2>4 DEF Lanes
    <3>2. slide_buffer_q[l] = Word(FirstReg, From + (k + Lead) - 1)[4 - Vrf!kept + l]
      BY <1>2, <3>1 DEF KeptOf
    <3>3. From + (k + Lead) - 1 = From + k /\ From + k \in Nat
      BY <1>2, <3>1
    <3>. QED  BY <1>1, <1>4, <2>2, <2>3, <2>4, <3>1, <3>2, <3>3, SourceByte
  <2>5. CASE s = 0
    <3>1. From + k \in Nat /\ l + s = l /\ ~(l < Vrf!kept) /\ l - Vrf!kept = l
          /\ From + (k + Lead) = From + k /\ From + k < Count
      BY <1>2, <2>1, <2>5, RegisterTypes DEF Lanes
    <3>2. data = Word(FirstReg, From + k)
      BY <3>1 DEF Source
    <3>. QED  BY <3>2, <1>1, <1>2, <1>4, <2>2, <2>3, <3>1, SourceByte
  <2>6. CASE s # 0 /\ ~(l < Vrf!kept)
    <3>1. /\ Lead = 1 /\ l - Vrf!kept \in Lanes
          /\ 4 * (From + k) + (l + s) = 4 * (From + k + 1) + (l - Vrf!kept)
      BY <1>1, <1>2, <2>1, <2>6 DEF Lanes
    <3>2. From + k + 1 < Count
      <4>1. 4 * k + l \in 0 .. instr.bytes - instr.off - 1
        BY <1>6, <2>1, <1>2, WrittenBy DEF Needed, Sized
      <4>2. 4 * (From + k + 1) + (l - Vrf!kept) < instr.bytes
        BY <1>1, <1>2, <2>3, <3>1, <4>1 DEF Lanes
      <4>3. instr.bytes <= 4 * Count
        BY <1>1, Quarters DEF Count
      <4>. QED  BY <1>1, <1>2, <3>1, <4>2, <4>3, RegisterTypes DEF Lanes
    <3>3. data = Word(FirstReg, From + k + 1) /\ From + k + 1 \in Nat
      <4>1. From + (k + Lead) = From + k + 1
        BY <1>2, <3>1
      <4>. QED  BY <1>2, <3>2, <4>1 DEF Source
    <3>. QED  BY <1>1, <1>4, <2>2, <2>3, <2>6, <3>1, <3>3, SourceByte
  <2>. QED  BY <2>4, <2>5, <2>6
<1>. QED  BY <1>5, <1>6 DEF SlideKinds

\* The kinds, told apart.
LEMMA KindsApart ==
  /\ instr.kind \in Multiplied => instr.kind \notin SlideKinds /\ instr.kind \notin Copied
  /\ Binary => instr.kind \in Multiplied
  /\ instr.kind \in Multiplied /\ ~Binary => instr.kind = "macc_vx"
  /\ instr.kind \in WordKinds <=> instr.kind \in Multiplied \/ instr.kind \in Copied
BY DEF Multiplied, Copied, SlideKinds, Binary, WordKinds

\* What the operand registers take from an answer.
LEMMA Capture ==
  ASSUME Works, Sized, Vrf!Registers, Reads, vrf_state \in Path, ~last_iteration_q,
         NEW k \in 0 .. Total - 1, Comes(k), instr' = instr, before' = before,
         slide_offset_q' = slide_offset_q, offset_q' = offset_q
  PROVE  HasCome(k)'
<1>. DEFINE d == Head(inflight).data
<1>1. /\ inflight # <<>> /\ Source(k + Lead, d)
      /\ (instr.kind \in SlideKinds => KeptOf(slide_buffer_q, k + Lead))
  BY DEF Comes
<1>2. vrf_data_rvalid /\ Answer = d
  BY <1>1, Cycle
<1>. HIDE DEF d
<1>3. /\ Vrf!sel(0) <=> instr.kind \in {"vv", "macc_vv", "mv_v"}
      /\ op.slide <=> instr.kind \in SlideKinds
  BY Selected, KindOp
<1>4. /\ k \in Nat /\ k < Total /\ Total \in Nat /\ From + Total <= Count /\ From \in Nat
      /\ Count \in Nat
      /\ Lead \in {0, 1}
  BY Turns, RegisterTypes
<1>5. CASE instr.kind \notin SlideKinds
  <2>1. FirstOp' = d
    <3>1. CASE instr.kind \in Multiplied
      <4>1. vrf_state = "INT_READ1"
        BY <3>1 DEF Reads, Path
      <4>2. CASE Binary
        <5>1. Vrf!rs1_en
          BY <1>2, <1>3, <4>1, <4>2 DEF Vrf!rs1_en, Vrf!State, Binary
        <5>2. rs1_q' = d
          BY <1>2, <5>1 DEF Vrf!Registers
        <5>. QED  BY <4>2, <5>2, Same DEF FirstOp
      <4>3. CASE ~Binary
        <5>1. instr.kind = "macc_vx"
          BY <3>1, <4>3, KindsApart
        <5>2. Vrf!rs2_en
          BY <1>2, <1>3, <4>1, <5>1 DEF Vrf!rs2_en, Vrf!State
        <5>3. rs2_q' = d
          BY <1>2, <1>3, <1>5, <5>2 DEF Vrf!Registers
        <5>. QED  BY <4>3, <5>3, Same DEF FirstOp
      <4>. QED  BY <4>2, <4>3
    <3>2. CASE instr.kind \notin Multiplied
      <4>1. vrf_state = "READ" /\ ~Binary
        BY <3>2, KindsApart DEF Reads, Path
      <4>2. Vrf!rs2_en
        BY <1>2, <4>1 DEF Vrf!rs2_en, Vrf!State
      <4>3. rs2_q' = d
        BY <1>2, <1>3, <1>5, <4>2 DEF Vrf!Registers
      <4>. QED  BY <4>1, <4>3, Same DEF FirstOp
    <3>. QED  BY <3>1, <3>2
  <2>2. d = Word(FirstReg, k)
    <3>1. From = 0 /\ Lead = 0
      BY <1>5, Numbers DEF Sized
    <3>2. From + (k + Lead) = k /\ k < Count
      BY <1>4, <3>1
    <3>. QED  BY <1>1, <3>2 DEF Source
  <2>3. Holds(FirstOp', k)
    BY <1>5, <2>1, <2>2 DEF Holds
  <2>. QED  BY <1>5, <2>3, Same DEF HasCome
<1>6. CASE instr.kind \in SlideKinds
  <2>1. vrf_state = "READ" /\ ~Binary /\ instr.kind \notin Multiplied
    BY <1>6, KindsApart DEF Reads, Path
  <2>2. Vrf!rs2_en /\ Vrf!slide_buffer_en
    BY <1>2, <1>3, <1>6, <2>1 DEF Vrf!rs2_en, Vrf!slide_buffer_en, Vrf!State
  <2>3. rs2_q' = Vrf!slide_rdata /\ slide_buffer_q' = Vrf!slide_buffer_d
    BY <1>3, <1>6, <2>2 DEF Vrf!Registers
  <2>4. ASSUME NEW l \in Needed(To + k)
        PROVE  rs2_q'[l] = Element(To + k)[l]
    <3>1. l \in Lanes
      BY DEF Needed
    <3>2. rs2_q'[l] = IF l < Vrf!kept THEN slide_buffer_q[l] ELSE d[l - Vrf!kept]
      BY <1>2, <2>3, <3>1 DEF Vrf!slide_rdata, Vrf!Lanes, Lanes
    <3>3. Source(k + Lead, d) /\ KeptOf(slide_buffer_q, k + Lead)
      BY <1>1, <1>6
    <3>. QED  BY <1>6, <3>2, <3>3, Shifted
  <2>5. Holds(FirstOp', k)
    <3>1. FirstOp' = rs2_q'
      BY <2>1, Same DEF FirstOp
    <3>. QED  BY <1>6, <2>4, <3>1 DEF Holds
  <2>6. ASSUME From + k + Lead < Count PROVE KeptOf(slide_buffer_q', k + Lead + 1)
    <3>1. d = Word(FirstReg, From + (k + Lead))
      <4>1. From + (k + Lead) < Count
        BY <1>4, <2>6
      <4>. QED  BY <1>1, <4>1 DEF Source
    <3>2. Vrf!kept \in 0 .. 3
      <4>1. slide_offset_q \in 0 .. 3
        BY <1>6, InstrTypes, Quarters DEF Sized
      <4>. QED  BY <4>1 DEF Vrf!kept
    <3>3. ASSUME NEW l \in 0 .. Vrf!kept - 1
          PROVE  slide_buffer_q'[l] = d[4 - Vrf!kept + l]
      <4>1. l \in 0 .. 2 /\ Vrf!kept # 0 /\ l < Vrf!kept
        BY <3>2
      <4>. QED  BY <1>2, <2>3, <4>1 DEF Vrf!slide_buffer_d
    <3>4. From + (k + Lead + 1) - 1 = From + (k + Lead)
      BY <1>4
    <3>. QED  BY <3>1, <3>3, <3>4 DEF KeptOf
  <2>. QED  BY <1>6, <2>5, <2>6, Same, SameSize DEF HasCome
<1>. QED  BY <1>5, <1>6

\* The byte enables of a write.
LEMMA EnablesOf ==
  ASSUME Sized, Counting, last_iteration_q \in BOOLEAN, Reads, vrf_state \in Path,
         ~first_iteration_q, Round > 0,
         vrf_state = "READ" => (slide_first_write_q <=> Round = 1)
  PROVE  Vrf!data_be_o = Enabled(Round - 1) /\ Round - 1 \in 0 .. Total - 1
<1>1. Round \in 0 .. Total /\ Total \in Nat /\ (last_iteration_q <=> Round = Total)
  BY RoundIs, Turns
<1>2. last_iteration_q <=> Round - 1 = Total - 1
  BY <1>1
<1>3. Vrf!sel_slide_be <=> instr.kind = "slideup" /\ Round - 1 = 0
  <2>1. CASE vrf_state = "READ"
    BY <1>1, <2>1, KindOp DEF Vrf!sel_slide_be, Vrf!State, SlideKinds
  <2>2. CASE vrf_state = "INT_READ1"
    <3>1. instr.kind \in Multiplied
      BY <2>2 DEF Path
    <3>. QED  BY <2>2, <3>1 DEF Vrf!sel_slide_be, Vrf!State, Multiplied
  <2>. QED  BY <2>1, <2>2 DEF Reads
<1>4. Vrf!data_be_o = Enabled(Round - 1)
  BY <1>2, <1>3 DEF Vrf!data_be_o, Enabled, Vrf!slide_offset_be, Vrf!Lanes, Lanes
<1>. QED  BY <1>1, <1>4

\* A cycle in which a vector instruction works and is not done, with what it has
\* done so far.
Busy == Idles /\ Vrf!Registers /\ Working

\* What the registers of the operands keep.
LEMMA Untouched ==
  ASSUME Works, Vrf!Registers
  PROVE  /\ vrf_state # "INT_READ1" => rs1_q' = rs1_q
         /\ vrf_state \in {"START", "INT_WRITE", "WRITE", "INT_READ3"}
            => rs2_q' = rs2_q /\ slide_buffer_q' = slide_buffer_q
         /\ vrf_state = "INT_READ2" /\ ~Vrf!sel(0) => rs2_q' = rs2_q
         /\ ~vrf_data_rvalid => /\ rs1_q' = rs1_q /\ rs2_q' = rs2_q /\ rs3_q' = rs3_q
                               /\ slide_buffer_q' = slide_buffer_q
BY DEF Vrf!Registers, Vrf!rs1_en, Vrf!rs2_en, Vrf!rs3_en, Vrf!slide_buffer_en, Vrf!State

\* Only reads of the first operand leave a write delayed.
LEMMA NoDelay ==
  ASSUME Works, vrf_state \notin {"INT_READ1", "READ"}
  PROVE  curr_state_delay' = "none"
<1>1. ~Vrf!write_delayed /\ ~Vrf!read_delayed
  BY AtWork DEF Vrf!write_delayed, Vrf!read_delayed, Vrf!State, ArithStates
<1>. QED  BY <1>1 DEF Works, Facts, ControlTypeOK, Vrf!DelayFsm

\* The invariant of the cycle after, from its parts.
LEMMA WorkingNext ==
  ASSUME instr' = instr, before' = before, offset_q' = offset_q,
         slide_offset_q' = slide_offset_q,
         vrf_state' \in Path, Counting',
         NEW r, NEW n, NEW a, Round' = r, Wrote' = n, Asked' = a,
         At(addr_rd_q', instr.rd, To + n), At(FirstAddr', FirstReg, From + a),
         Binary => At(addr_rs2_q', instr.rs2, r),
         memory' = Image(n), Operands',
         vrf_state' = "START" => ~last_iteration_q' /\ num_iterations_q' = Rounds,
         vrf_state' \in {"READ", "WRITE", "LOAD_SLIDE"} => (slide_first_write_q' <=> n = 0)
  PROVE  Working'
<1>1. Addressing'
  BY Same DEF Addressing
<1>2. Progress(Wrote)'
  BY Same DEF Progress
<1>3. Path' = Path /\ Rounds' = Rounds
  BY Same DEF Path
<1>. QED  BY <1>1, <1>2, <1>3 DEF Working

\* The part of Operands that a state speaks of.
LEMMA OperandsNext ==
  ASSUME curr_state_delay' \in {"none", "write"}, first_iteration_q' \in BOOLEAN
  PROVE  /\ vrf_state' = "START" => Operands'
         /\ vrf_state' = "LOAD_SLIDE" /\ AtSlide' => Operands'
         /\ vrf_state' \in {"INT_READ1", "READ"} /\ AtFirst' /\ AtResult' /\ AtDelayed' => Operands'
         /\ vrf_state' \in {"INT_WRITE", "WRITE"} /\ AtNext' => Operands'
         /\ vrf_state' = "INT_READ2" /\ AtSecond' => Operands'
         /\ vrf_state' = "INT_READ3" /\ AtThird' => Operands'
<1>1. /\ vrf_state' # "LOAD_SLIDE" => AtSlide'
      /\ vrf_state' \notin {"INT_READ1", "READ"} => AtFirst' /\ AtResult' /\ AtDelayed'
      /\ vrf_state' \notin {"INT_WRITE", "WRITE"} => AtNext'
      /\ vrf_state' # "INT_READ2" => AtSecond'
      /\ vrf_state' # "INT_READ3" => AtThird'
  BY DEF AtSlide, AtFirst, AtResult, AtDelayed, AtNext, AtSecond, AtThird, Reads
<1>. QED  BY <1>1 DEF Operands

\* Facts at a cycle's start.
LEMMA BusyFacts ==
  ASSUME Busy
  PROVE  /\ Works /\ Sized /\ Shape(before) /\ Vrf!AguClock /\ ~Vrf!vector_done_o /\ Counting
         /\ Addressing /\ Operands
         /\ Progress(Wrote) /\ vrf_state \in Path
         /\ instr.kind \in WordKinds /\ instr.kind \notin {"load", "store"} /\ ~op.mem
         /\ first_iteration_q \in BOOLEAN /\ last_iteration_q \in BOOLEAN
         /\ instr' = instr /\ before' = before /\ in.vrf_gnt \in BOOLEAN
         /\ Round \in 0 .. Total /\ Total \in Nat /\ Lead \in {0, 1} /\ From \in Nat
         /\ To \in Nat /\ Count \in Nat
         /\ From + Total <= Count /\ To + Total <= Count
         /\ curr_state_delay \in {"none", "write", "read"} /\ curr_state_delay # "read"
<1>1. /\ Works /\ Sized /\ Shape(before) /\ Vrf!AguClock /\ ~Vrf!vector_done_o /\ Counting
      /\ Addressing /\ Operands
      /\ Progress(Wrote) /\ vrf_state \in Path
  BY DEF Busy, Idles, Working
<1>2. /\ first_iteration_q \in BOOLEAN /\ last_iteration_q \in BOOLEAN
      /\ instr.kind \in WordKinds
      /\ curr_state_delay \in {"none", "write", "read"}
  BY <1>1 DEF Works, Facts, ControlTypeOK
<1>3. curr_state_delay # "read"
  BY <1>1, AtWork DEF Works, DelayInv, ArithStates
<1>4. instr' = instr /\ before' = before /\ in.vrf_gnt \in BOOLEAN
  BY <1>1, Cycle
<1>5. Round \in 0 .. Total /\ Total \in Nat /\ From + Total <= Count /\ To + Total <= Count
  BY <1>1, <1>2, Turns, RoundIs
<1>6. Lead \in {0, 1} /\ From \in Nat /\ To \in Nat /\ Count \in Nat
  BY <1>1, RegisterTypes
<1>7. instr.kind \notin {"load", "store"} /\ ~op.mem
  BY <1>1, <1>2, AtWork DEF WordKinds, Multiplied, Copied
<1>. QED  BY <1>1, <1>2, <1>3, <1>4, <1>5, <1>6, <1>7

\* START asks for the first word.
LEMMA AtStart ==
  ASSUME Busy, vrf_state = "START"
  PROVE  Working'
<1>1. /\ Works /\ Sized /\ Counting /\ Progress(Wrote) /\ instr.kind \in WordKinds /\ Addressing
      /\ ~op.mem
      /\ instr' = instr /\ before' = before /\ in.vrf_gnt \in BOOLEAN
      /\ From \in Nat /\ To \in Nat /\ Lead \in {0, 1}
      /\ first_iteration_q \in BOOLEAN /\ Idles
  BY BusyFacts DEF Busy
<1>2. ~last_iteration_q /\ num_iterations_q = Rounds /\ Rounds \in Nat
  BY <1>1, Turns DEF Busy, Working
<1>3. Round = 0 /\ Wrote = 0 /\ Asked = 0
  BY <1>2 DEF Round, Wrote, Asked, Late
<1>4. /\ op.slide <=> instr.kind \in SlideKinds
      /\ op.up <=> instr.kind = "slideup"
      /\ op.mult <=> instr.kind \in Multiplied
      /\ Vrf!sel(0) <=> FromRs1
      /\ instr.kind \notin Multiplied => Vrf!sel(0) \/ Vrf!sel(1)
      /\ op.mult /\ ~Vrf!sel(0) => instr.kind = "macc_vx"
  <2>1. instr.kind \in Multiplied \/ instr.kind \in Copied
    BY <1>1, KindsApart
  <2>. QED  BY <2>1, Selected, KindOp DEF FromRs1, Multiplied, Copied
<1>5. (Vrf!SlideDown /\ ~Vrf!no_offset_first) <=> Lead = 1
  BY <1>1, <1>4 DEF Vrf!SlideDown, Vrf!no_offset_first, Lead, Sized, SlideKinds
<1>6. /\ first_iteration_q' /\ slide_first_write_q'
      /\ vrf_state' = (IF ~in.vrf_gnt THEN "START"
                       ELSE IF instr.kind \in Multiplied THEN "INT_READ1"
                       ELSE IF Lead = 1 THEN "LOAD_SLIDE" ELSE "READ")
      /\ Vrf!KeepIter /\ Vrf!KeepSetup
  <2>1. Vrf!Start
    BY <1>1, ByState DEF Works, Facts
  <2>. QED  BY <1>1, <1>4, <1>5, <2>1 DEF Vrf!Start, Vrf!Granted
<1>7. offset_q' = offset_q /\ slide_offset_q' = slide_offset_q
  BY <1>6 DEF Vrf!KeepSetup
<1>8. Counting' /\ Round' = 0 /\ ~last_iteration_q' /\ num_iterations_q' = Rounds
  BY <1>1, <1>2, <1>3, <1>6, <1>7, KeepStep DEF Vrf!KeepIter
<1>9. /\ Vrf!agu_get_rs1_o <=> FromRs1
      /\ Vrf!agu_get_rs2_o <=> ~FromRs1
      /\ ~Vrf!agu_get_rd_o
  BY <1>1, <1>4
     DEF Vrf!agu_get_rs1_o, Vrf!agu_get_rs2_o, Vrf!agu_get_rd_o, Vrf!ReadsRd, Vrf!data_we_o,
         Vrf!State
<1>10. /\ At(FirstAddr, FirstReg, From + 0) /\ At(addr_rd_q, instr.rd, To + 0)
       /\ (Binary => At(addr_rs2_q, instr.rs2, 0))
  BY <1>1, <1>3 DEF Addressing
<1>11. /\ in.vrf_gnt => inflight' # <<>> /\ Source(0, Head(inflight').data)
       /\ in.vrf_gnt => At(FirstAddr', FirstReg, From + 0 + 1)
       /\ ~in.vrf_gnt => FirstAddr' = FirstAddr
       /\ addr_rd_q' = addr_rd_q /\ (Binary => addr_rs2_q' = addr_rs2_q)
       /\ memory' = memory
  <2>. DEFINE z == 0
  <2>1. z \in Nat /\ z <= z /\ Progress(z) /\ At(FirstAddr, FirstReg, From + z)
    BY <1>1, <1>3, <1>10
  <2>. HIDE DEF z
  <2>2. /\ in.vrf_gnt => inflight' # <<>> /\ Source(z, Head(inflight').data)
        /\ in.vrf_gnt => At(FirstAddr', FirstReg, From + z + 1)
        /\ ~in.vrf_gnt => FirstAddr' = FirstAddr
        /\ addr_rd_q' = addr_rd_q /\ (Binary => addr_rs2_q' = addr_rs2_q)
        /\ memory' = memory
    BY <1>1, <1>9, <2>1, AsksFirst
  <2>. QED  BY <2>2 DEF z
<1>12. curr_state_delay' = "none"
  BY <1>1, NoDelay
<1>13. memory' = Image(0)
  BY <1>1, <1>3, <1>11 DEF Progress
<1>14. vrf_state' \in Path
  BY <1>1, <1>6, KindsApart DEF Path
<1>15. Lead' = Lead /\ From' = From
  BY <1>1, Same
<1>16. Wrote' = 0
  BY <1>6, <1>8 DEF Wrote, Late
<1>17. At(addr_rd_q', instr.rd, To + 0) /\ (Binary => At(addr_rs2_q', instr.rs2, 0))
  BY <1>10, <1>11
<1>18. CASE ~in.vrf_gnt
  <2>1. Asked' = 0 /\ vrf_state' = "START"
    BY <1>6, <1>18 DEF Asked
  <2>2. Operands'
    BY <1>6, <1>12, <2>1, OperandsNext
  <2>3. At(FirstAddr', FirstReg, From + 0)
    BY <1>10, <1>11, <1>18
  <2>. QED  BY <1>1, <1>7, <1>8, <1>13, <1>14, <1>16, <1>17, <2>1, <2>2, <2>3, WorkingNext
<1>19. CASE in.vrf_gnt
  <2>1. From + 0 + 1 = From + 1 /\ vrf_state' \in {"INT_READ1", "LOAD_SLIDE", "READ"}
    BY <1>1, <1>6, <1>19
  <2>2. Asked' = 1
    <3>1. vrf_state' \in {"INT_READ1", "READ"} => Lead = 0
      BY <1>1, <1>6, <1>19, RegisterTypes
    <3>2. vrf_state' = "LOAD_SLIDE" => Lead = 1
      BY <1>6, <1>19
    <3>. QED  BY <1>8, <1>15, <2>1, <3>1, <3>2 DEF Asked
  <2>3. Operands'
    <3>1. CASE vrf_state' = "LOAD_SLIDE"
      <4>1. Lead = 1 /\ instr.kind = "slidedown"
        BY <1>6, <1>19, <3>1 DEF Lead
      <4>2. AtSlide'
        BY <1>1, <1>6, <1>8, <1>11, <1>15, <1>19, <4>1, Same DEF AtSlide
      <4>. QED  BY <1>6, <1>12, <3>1, <4>2, OperandsNext
    <3>2. CASE vrf_state' \in {"INT_READ1", "READ"}
      <4>1. Lead = 0
        BY <1>1, <1>6, <1>19, <3>2, RegisterTypes
      <4>2. Comes(0)'
        <5>1. 0 + Lead = 0 /\ 0 + Lead' = 0
          BY <1>15, <4>1
        <5>2. Source(0 + Lead, Head(inflight).data)'
          BY <1>1, <1>11, <1>19, <5>1, Same
        <5>3. KeptOf(slide_buffer_q, 0 + Lead)'
          BY <5>1 DEF KeptOf
        <5>. QED  BY <1>11, <1>19, <5>2, <5>3 DEF Comes
      <4>3. AtFirst' /\ AtResult' /\ AtDelayed'
        BY <1>6, <1>8, <4>2 DEF AtFirst, AtResult, AtDelayed
      <4>. QED  BY <1>6, <1>12, <3>2, <4>3, OperandsNext
    <3>. QED  BY <2>1, <3>1, <3>2
  <2>4. At(FirstAddr', FirstReg, From + 1)
    BY <1>11, <1>19, <2>1
  <2>. QED  BY <1>1, <1>6, <1>7, <1>8, <1>13, <1>14, <1>16, <1>17, <2>1, <2>2, <2>3, <2>4,
               WorkingNext
<1>. QED  BY <1>1, <1>18, <1>19

\* LOAD_SLIDE takes the word that a slide down reads in advance.
LEMMA AtLoadSlide ==
  ASSUME Busy, vrf_state = "LOAD_SLIDE"
  PROVE  Working'
<1>1. /\ Works /\ Sized /\ Counting /\ Progress(Wrote) /\ Addressing /\ Operands
      /\ instr' = instr /\ before' = before /\ in.vrf_gnt \in BOOLEAN
      /\ From \in Nat /\ To \in Nat /\ Total \in Nat /\ From + Total <= Count /\ Count \in Nat
      /\ Idles /\ Vrf!Registers
  BY BusyFacts DEF Busy
<1>2. /\ Round = 0 /\ ~last_iteration_q /\ Lead = 1 /\ first_iteration_q
      /\ instr.kind = "slidedown"
      /\ IF inflight = <<>> THEN KeptOf(slide_buffer_q, 1) ELSE Source(0, Head(inflight).data)
  BY <1>1 DEF Operands, AtSlide
<1>3. Wrote = 0 /\ Asked = 1
  BY <1>2 DEF Wrote, Asked, Late
<1>4. /\ vrf_state' = (IF in.vrf_gnt THEN "READ" ELSE "LOAD_SLIDE")
      /\ Vrf!KeepIter /\ Vrf!KeepSetup /\ Vrf!KeepFirst
  <2>1. Vrf!LoadSlide
    BY <1>1, ByState DEF Works, Facts
  <2>. QED  BY <2>1 DEF Vrf!LoadSlide, Vrf!Granted
<1>5. /\ offset_q' = offset_q /\ slide_offset_q' = slide_offset_q
      /\ first_iteration_q' = first_iteration_q /\ slide_first_write_q' = slide_first_write_q
  BY <1>4 DEF Vrf!KeepSetup, Vrf!KeepFirst
<1>6. slide_first_write_q
  BY <1>3 DEF Busy, Working
<1>7. Counting' /\ Round' = 0 /\ ~last_iteration_q'
  BY <1>1, <1>2, <1>4, <1>5, KeepStep
<1>8. ~FromRs1 /\ ~Binary /\ instr.kind \in SlideKinds
  BY <1>2 DEF FromRs1, Binary, SlideKinds
<1>9. /\ Vrf!agu_get_rs1_o <=> FromRs1
      /\ Vrf!agu_get_rs2_o <=> ~FromRs1
      /\ ~Vrf!agu_get_rd_o
  BY <1>8
     DEF Vrf!agu_get_rs1_o, Vrf!agu_get_rs2_o, Vrf!agu_get_rd_o, Vrf!ReadsRd, Vrf!data_we_o,
         Vrf!State
<1>10. At(FirstAddr, FirstReg, From + 1) /\ At(addr_rd_q, instr.rd, To + 0)
  BY <1>1, <1>3 DEF Addressing
<1>11. /\ in.vrf_gnt => inflight' # <<>> /\ Source(1, Head(inflight').data)
       /\ ~in.vrf_gnt => inflight' = <<>>
       /\ in.vrf_gnt => At(FirstAddr', FirstReg, From + 1 + 1)
       /\ ~in.vrf_gnt => FirstAddr' = FirstAddr
       /\ addr_rd_q' = addr_rd_q /\ memory' = memory
  <2>1. Progress(0) /\ 0 \in Nat /\ 1 \in Nat /\ 0 <= 1
    BY <1>1, <1>3
  <2>. QED  BY <1>1, <1>9, <1>10, <2>1, AsksFirst
<1>12. curr_state_delay' = "none"
  BY <1>1, NoDelay
<1>13. memory' = Image(0)
  BY <1>1, <1>3, <1>11 DEF Progress
<1>14. vrf_state' \in Path /\ vrf_state \in Path
  <2>1. instr.kind \notin Multiplied
    BY <1>2 DEF Multiplied
  <2>. QED  BY <1>4, <2>1 DEF Path
<1>15. Lead' = Lead /\ From' = From
  BY <1>1, Same
<1>16. Wrote' = 0
  BY <1>2, <1>4, <1>5, <1>7 DEF Wrote, Late
<1>17. KeptOf(slide_buffer_q', 1)
  <2>1. CASE inflight = <<>>
    <3>1. slide_buffer_q' = slide_buffer_q
      BY <1>1, <2>1, Cycle, Untouched
    <3>. QED  BY <1>2, <2>1, <3>1
  <2>2. CASE inflight # <<>>
    <3>. DEFINE d == Head(inflight).data
    <3>1. vrf_data_rvalid /\ Answer = d /\ Source(0, d)
      BY <1>1, <1>2, <2>2, Cycle
    <3>. HIDE DEF d
    <3>2. d = Word(FirstReg, From + 0)
      <4>1. From + 0 < Count
        BY <1>1, Turns
      <4>. QED  BY <3>1, <4>1 DEF Source
    <3>3. Vrf!slide_buffer_en
      BY <3>1 DEF Vrf!slide_buffer_en, Vrf!State
    <3>4. slide_buffer_q' = Vrf!slide_buffer_d
      BY <1>1, <3>3 DEF Vrf!Registers
    <3>5. Vrf!kept \in 0 .. 3
      <4>1. slide_offset_q \in 0 .. 3
        BY <1>1, <1>8, InstrTypes, Quarters DEF Sized
      <4>. QED  BY <4>1 DEF Vrf!kept
    <3>6. ASSUME NEW l \in 0 .. Vrf!kept - 1
          PROVE  slide_buffer_q'[l] = d[4 - Vrf!kept + l]
      <4>1. l \in 0 .. 2 /\ Vrf!kept # 0 /\ l < Vrf!kept
        BY <3>5
      <4>. QED  BY <3>1, <3>4, <4>1 DEF Vrf!slide_buffer_d
    <3>7. From + 1 - 1 = From + 0
      BY <1>1
    <3>. QED  BY <3>2, <3>6, <3>7 DEF KeptOf
  <2>. QED  BY <2>1, <2>2
<1>18. KeptOf(slide_buffer_q, 1)'
  BY <1>1, <1>5, <1>17, SameSize
<1>19. CASE ~in.vrf_gnt
  <2>1. Asked' = 1 /\ vrf_state' = "LOAD_SLIDE"
    BY <1>2, <1>4, <1>7, <1>15, <1>19 DEF Asked
  <2>2. AtSlide'
    BY <1>1, <1>2, <1>5, <1>7, <1>11, <1>15, <1>18, <1>19 DEF AtSlide
  <2>3. Operands'
    BY <1>2, <1>5, <1>12, <2>1, <2>2, OperandsNext
  <2>4. At(FirstAddr', FirstReg, From + 1) /\ At(addr_rd_q', instr.rd, To + 0)
    BY <1>10, <1>11, <1>19
  <2>. QED  BY <1>1, <1>5, <1>6, <1>7, <1>8, <1>13, <1>14, <1>16, <2>1, <2>3, <2>4, WorkingNext
<1>20. CASE in.vrf_gnt
  <2>1. vrf_state' = "READ" /\ From + 1 + 1 = From + 2
    BY <1>1, <1>4, <1>20
  <2>2. Asked' = 2
    BY <1>2, <1>7, <1>15, <2>1 DEF Asked
  <2>3. Comes(0)'
    <3>1. 0 + Lead = 1 /\ 0 + Lead' = 1
      BY <1>2, <1>15
    <3>2. Source(0 + Lead, Head(inflight).data)'
      BY <1>1, <1>11, <1>20, <3>1, Same
    <3>3. KeptOf(slide_buffer_q, 0 + Lead)'
      BY <1>18, <3>1
    <3>. QED  BY <1>11, <1>20, <3>2, <3>3 DEF Comes
  <2>4. AtFirst' /\ AtResult' /\ AtDelayed'
    BY <1>2, <1>5, <1>7, <2>3 DEF AtFirst, AtResult, AtDelayed
  <2>5. Operands'
    BY <1>2, <1>5, <1>12, <2>1, <2>4, OperandsNext
  <2>6. At(FirstAddr', FirstReg, From + 2) /\ At(addr_rd_q', instr.rd, To + 0)
    BY <1>10, <1>11, <1>20, <2>1
  <2>. QED  BY <1>1, <1>5, <1>6, <1>7, <1>8, <1>13, <1>14, <1>16, <2>1, <2>2, <2>5, <2>6,
               WorkingNext
<1>. QED  BY <1>1, <1>19, <1>20

\* The first read, with nothing to write yet.
LEMMA AtFirstRead ==
  ASSUME Busy, Reads, first_iteration_q
  PROVE  Working'
<1>1. /\ Works /\ Sized /\ Counting /\ Progress(Wrote) /\ Addressing /\ Operands
      /\ vrf_state \in Path
      /\ instr' = instr /\ before' = before /\ in.vrf_gnt \in BOOLEAN
      /\ From \in Nat /\ To \in Nat /\ Total \in Nat /\ From + Total <= Count /\ Count \in Nat
      /\ Idles /\ Vrf!Registers /\ Vrf!AguClock /\ ~Vrf!vector_done_o
  BY BusyFacts DEF Busy
<1>2. Round = 0 /\ ~last_iteration_q /\ Comes(0)
  BY <1>1 DEF Operands, AtFirst
<1>3. Wrote = 0 /\ Asked = 0 + 1 + Lead
  BY <1>2 DEF Wrote, Asked, Late, Reads
<1>4. /\ vrf_state' = (IF vrf_state = "READ" THEN "WRITE" ELSE "INT_WRITE")
      /\ Vrf!KeepIter /\ Vrf!KeepSetup /\ ~first_iteration_q'
      /\ slide_first_write_q' <=> slide_first_write_q
  <2>1. (vrf_state = "READ" /\ Vrf!Read) \/ (vrf_state = "INT_READ1" /\ Vrf!IntRead1)
    BY <1>1, ByState DEF Works, Facts, Reads
  <2>2. CASE vrf_state = "READ" /\ Vrf!Read
    <3>1. ~Vrf!data_we_o
      BY <2>2 DEF Vrf!data_we_o, Vrf!State
    <3>. QED  BY <2>2, <3>1 DEF Vrf!Read, Vrf!GoTo
  <2>3. CASE vrf_state = "INT_READ1" /\ Vrf!IntRead1
    BY <2>3 DEF Vrf!IntRead1, Vrf!GoTo
  <2>. QED  BY <2>1, <2>2, <2>3
<1>5. offset_q' = offset_q /\ slide_offset_q' = slide_offset_q
  BY <1>4 DEF Vrf!KeepSetup
<1>6. vrf_state = "READ" => slide_first_write_q
  BY <1>3 DEF Busy, Working
<1>7. Counting' /\ Round' = 0 /\ ~last_iteration_q'
  BY <1>1, <1>2, <1>4, <1>5, KeepStep
<1>8. ~Vrf!data_req_o
  BY DEF Reads, Vrf!data_req_o, Vrf!agu_get_rs1_o, Vrf!agu_get_rs2_o, Vrf!agu_get_rd_o,
     Vrf!ReadsRd, Vrf!data_we_o, Vrf!State
<1>9. /\ memory' = memory /\ addr_rs2_q' = addr_rs2_q /\ addr_rd_q' = addr_rd_q
      /\ FirstAddr' = FirstAddr
  BY <1>1, <1>8, AsksNothing
<1>10. At(FirstAddr', FirstReg, From + (0 + 1 + Lead)) /\ At(addr_rd_q', instr.rd, To + 0)
       /\ (Binary => At(addr_rs2_q', instr.rs2, 0))
  BY <1>1, <1>2, <1>3, <1>9 DEF Addressing
<1>11. Lead' = Lead
  BY <1>1, Same
<1>12. Wrote' = 0 /\ Asked' = 0 + 1 + Lead
  BY <1>4, <1>7, <1>11 DEF Wrote, Asked, Late
<1>13. memory' = Image(0)
  BY <1>1, <1>3, <1>9 DEF Progress
<1>14. vrf_state' \in Path
  BY <1>1, <1>4 DEF Path, Reads
<1>15. HasCome(0)'
  <2>1. 0 \in 0 .. Total - 1
    BY <1>1, Turns
  <2>. QED  BY <1>1, <1>2, <1>5, <2>1, Capture
<1>16. AtNext'
  BY <1>4, <1>7, <1>15 DEF AtNext
<1>17. Operands'
  <2>1. AtSlide' /\ AtFirst' /\ AtResult' /\ AtDelayed' /\ AtSecond' /\ AtThird'
    BY <1>4 DEF AtSlide, AtFirst, AtResult, AtDelayed, AtSecond, AtThird, Reads
  <2>. QED  BY <1>16, <2>1 DEF Operands
<1>. QED  BY <1>1, <1>4, <1>5, <1>6, <1>7, <1>10, <1>12, <1>13, <1>14, <1>17, WorkingNext
             DEF Reads

\* What is written is the result of the iteration before.
LEMMA ResultOut ==
  ASSUME Busy, Reads, ~first_iteration_q
  PROVE  /\ Round > 0 /\ Round - 1 \in 0 .. Total - 1
         /\ Vrf!data_be_o = Enabled(Round - 1)
         /\ \A l \in Needed(To + (Round - 1)) : Vrf!data_wdata_o[l] = Element(To + (Round - 1))[l]
         /\ Vrf!data_we_o
         /\ curr_state_delay = "write" => Vrf!data_wdata_o = rd_q
         /\ ~in.vrf_gnt => /\ curr_state_delay' = "write"
                           /\ rd_q' = Vrf!data_wdata_o
         /\ in.vrf_gnt => curr_state_delay' = "none"
<1>1. /\ Works /\ Sized /\ Counting /\ Operands /\ vrf_state \in Path /\ Vrf!Registers
      /\ last_iteration_q \in BOOLEAN /\ first_iteration_q \in BOOLEAN
      /\ curr_state_delay \in {"none", "write"} /\ ~op.mem /\ ~vrf_memory_op
      /\ in.vrf_gnt \in BOOLEAN
  BY BusyFacts, AtWork DEF Busy
<1>2. Round > 0
  BY <1>1 DEF Operands, AtResult, AtDelayed
<1>3. Wrote = Round - 1
  BY DEF Wrote, Late, Reads
<1>4. Vrf!data_be_o = Enabled(Round - 1) /\ Round - 1 \in 0 .. Total - 1
  <2>1. vrf_state = "READ" => (slide_first_write_q <=> Round = 1)
    <3>1. Round \in Int
      BY <1>1, RoundIs, Turns
    <3>. QED  BY <1>3, <3>1 DEF Busy, Working
  <2>. QED  BY <1>1, <1>2, <2>1, EnablesOf
<1>5. Vrf!data_we_o
  BY DEF Vrf!data_we_o, Reads
<1>6. /\ curr_state_delay = "write" => Vrf!data_wdata_o = rd_q
      /\ curr_state_delay = "none" => Vrf!data_wdata_o = vrf_wdata_id(rs3_q)
  BY <1>1 DEF Vrf!data_wdata_o
<1>7. ASSUME NEW l \in Needed(To + (Round - 1))
      PROVE  Vrf!data_wdata_o[l] = Element(To + (Round - 1))[l]
  <2>1. CASE curr_state_delay = "write"
    BY <1>1, <1>6, <2>1 DEF Operands, AtDelayed
  <2>2. CASE curr_state_delay = "none"
    <3>1. /\ Holds(FirstOp, Round - 1)
          /\ Binary => rs2_q = Word(instr.rs2, Round - 1)
          /\ instr.kind \in {"macc_vv", "macc_vx"} => rs3_q = Word(instr.rd, Round - 1)
      BY <1>1, <2>2 DEF Operands, AtResult
    <3>2. vrf_wdata_id(rs3_q)[l] = Element(To + (Round - 1))[l]
      BY <1>1, <1>4, <2>2, <3>1, Computes
    <3>. QED  BY <1>6, <2>2, <3>2
  <2>. QED  BY <1>1, <2>1, <2>2
<1>8. Vrf!write_delayed <=> ~in.vrf_gnt
  BY <1>5 DEF Vrf!write_delayed, Reads, Vrf!State
<1>9. ~Vrf!read_delayed
  BY DEF Vrf!read_delayed, Vrf!State, Reads
<1>10. curr_state_delay' = (IF ~in.vrf_gnt THEN "write" ELSE "none")
  BY <1>1, <1>8, <1>9 DEF Works, Facts, Vrf!DelayFsm
<1>11. ASSUME ~in.vrf_gnt
       PROVE  rd_q' = Vrf!data_wdata_o
  <2>1. ~Vrf!rd_en
    BY DEF Vrf!rd_en, Vrf!State, Reads
  <2>2. Vrf!rd_buf_en <=> curr_state_delay = "none"
    BY <1>1, <1>8, <1>11 DEF Vrf!rd_buf_en, Vrf!delay_starts
  <2>3. CASE curr_state_delay = "write"
    BY <1>1, <1>6, <2>1, <2>2, <2>3 DEF Vrf!Registers
  <2>4. CASE curr_state_delay = "none"
    BY <1>1, <1>6, <2>1, <2>2, <2>4 DEF Vrf!Registers
  <2>. QED  BY <1>1, <2>3, <2>4
<1>. QED  BY <1>2, <1>4, <1>5, <1>6, <1>7, <1>10, <1>11

\* A write, of this cycle's result or of a delayed one, and what is read after it.
LEMMA AtWrite ==
  ASSUME Busy, Reads, ~first_iteration_q
  PROVE  Working'
<1>1. /\ Works /\ Sized /\ Counting /\ Progress(Wrote) /\ Addressing /\ Operands
      /\ vrf_state \in Path
      /\ instr' = instr /\ before' = before /\ in.vrf_gnt \in BOOLEAN
      /\ From \in Nat /\ To \in Nat /\ Total \in Nat /\ From + Total <= Count /\ Count \in Nat
      /\ Lead \in {0, 1}
      /\ Idles /\ Vrf!Registers /\ Vrf!AguClock /\ ~Vrf!vector_done_o
      /\ last_iteration_q \in BOOLEAN /\ curr_state_delay \in {"none", "write"}
      /\ Round \in 0 .. Total
  BY BusyFacts DEF Busy
<1>. DEFINE n == Round - 1
<1>2. /\ Round > 0 /\ n \in 0 .. Total - 1
      /\ Vrf!data_be_o = Enabled(n)
      /\ \A l \in Needed(To + n) : Vrf!data_wdata_o[l] = Element(To + n)[l]
      /\ Vrf!data_we_o
      /\ ~in.vrf_gnt => curr_state_delay' = "write" /\ rd_q' = Vrf!data_wdata_o
      /\ in.vrf_gnt => curr_state_delay' = "none"
  BY ResultOut
<1>3. Wrote = n /\ Asked = (IF last_iteration_q THEN Round + Lead ELSE Round + 1 + Lead)
  BY <1>1 DEF Wrote, Asked, Late, Reads
<1>4. n + 1 = Round /\ n \in Nat /\ Round \in Nat /\ To + n + 1 = To + Round
  BY <1>1, <1>2
<1>5. /\ vrf_state' = (IF ~in.vrf_gnt THEN vrf_state ELSE IF vrf_state = "READ" THEN "WRITE" ELSE "INT_WRITE")
      /\ Vrf!KeepIter /\ Vrf!KeepSetup /\ ~first_iteration_q' /\ first_iteration_q' \in BOOLEAN
      /\ vrf_state = "READ" => (slide_first_write_q' <=> slide_first_write_q /\ ~in.vrf_gnt)
  <2>1. (vrf_state = "READ" /\ Vrf!Read) \/ (vrf_state = "INT_READ1" /\ Vrf!IntRead1)
    BY <1>1, ByState DEF Works, Facts, Reads
  <2>2. CASE vrf_state = "READ" /\ Vrf!Read
    BY <1>2, <2>2 DEF Vrf!Read, Vrf!Granted
  <2>3. CASE vrf_state = "INT_READ1" /\ Vrf!IntRead1
    BY <2>3 DEF Vrf!IntRead1, Vrf!Granted
  <2>. QED  BY <2>1, <2>2, <2>3
<1>6. offset_q' = offset_q /\ slide_offset_q' = slide_offset_q
  BY <1>5 DEF Vrf!KeepSetup
<1>7. vrf_state = "READ" => (slide_first_write_q <=> n = 0)
  BY <1>3 DEF Busy, Working
<1>8. Counting' /\ Round' = Round /\ last_iteration_q' = last_iteration_q
  BY <1>1, <1>5, <1>6, KeepStep
<1>9. Lead' = Lead /\ To' = To /\ From' = From /\ Count' = Count
  BY <1>1, Same
<1>10. /\ ~Vrf!agu_get_rs1_o /\ ~Vrf!agu_get_rs2_o
  BY DEF Reads, Vrf!agu_get_rs1_o, Vrf!agu_get_rs2_o, Vrf!State
<1>11. /\ At(addr_rd_q, instr.rd, To + n) /\ At(FirstAddr, FirstReg, From + Asked)
       /\ Binary => At(addr_rs2_q, instr.rs2, Round)
  BY <1>1, <1>3 DEF Addressing
<1>. HIDE DEF n
<1>12. /\ in.vrf_gnt => inflight' # <<>> /\ memory' = Image(n + 1) /\ At(addr_rd_q', instr.rd, To + n + 1)
       /\ ~in.vrf_gnt => inflight' = <<>> /\ memory' = memory /\ addr_rd_q' = addr_rd_q
       /\ FirstAddr' = FirstAddr /\ addr_rs2_q' = addr_rs2_q
  BY <1>1, <1>2, <1>3, <1>10, <1>11, AsksWrite DEF Reads
<1>13. Asked' = Asked
  BY <1>3, <1>5, <1>8, <1>9 DEF Asked, Reads
<1>14. vrf_state' \in Path
  BY <1>1, <1>5 DEF Path, Reads
<1>15. ~last_iteration_q => HasCome(Round)'
  <2>1. SUFFICES ASSUME ~last_iteration_q PROVE HasCome(Round)'
    OBVIOUS
  <2>2. Round \in 0 .. Total - 1
    BY <1>1, <2>1, RoundIs
  <2>3. CASE curr_state_delay = "none"
    <3>1. Comes(Round)
      BY <1>1, <2>1, <2>3 DEF Operands, AtResult
    <3>2. PICK j \in 0 .. Total - 1 : j = Round
      BY <2>2
    <3>3. HasCome(j)'
      <4>1. Comes(j)
        BY <3>1, <3>2
      <4>. QED  BY <1>1, <1>6, <2>1, <4>1, Capture
    <3>4. j = Round'
      BY <1>8, <3>2
    <3>. QED  BY <3>3, <3>4 DEF HasCome
  <2>4. CASE curr_state_delay = "write"
    <3>1. inflight = <<>> /\ HasCome(Round)
      BY <1>1, <2>1, <2>4 DEF Operands, AtDelayed
    <3>2. rs1_q' = rs1_q /\ rs2_q' = rs2_q /\ slide_buffer_q' = slide_buffer_q
      BY <1>1, <3>1, Cycle, Untouched
    <3>3. FirstOp' = FirstOp
      BY <1>1, <3>2, Same DEF FirstOp
    <3>. QED  BY <1>1, <1>6, <1>8, <1>9, <3>1, <3>3, <3>2, Same, SameSize DEF HasCome
  <2>. QED  BY <1>1, <2>3, <2>4
<1>16. CASE in.vrf_gnt
  <2>1. vrf_state' \in {"INT_WRITE", "WRITE"} /\ curr_state_delay' = "none"
    BY <1>2, <1>5, <1>16
  <2>2. Wrote' = Round
    BY <1>8, <2>1 DEF Wrote, Late
  <2>3. AtNext'
    BY <1>5, <1>8, <1>15 DEF AtNext
  <2>4. Operands'
    BY <1>5, <2>1, <2>3, OperandsNext
  <2>5. memory' = Image(Round) /\ At(addr_rd_q', instr.rd, To + Round)
    BY <1>4, <1>12, <1>16
  <2>6. vrf_state' \in {"READ", "WRITE", "LOAD_SLIDE"} => (slide_first_write_q' <=> Round = 0)
    BY <1>2, <1>5, <1>16, <2>1, <1>1 DEF Reads
  <2>. QED  BY <1>1, <1>6, <1>8, <1>11, <1>12, <1>13, <1>14, <2>1, <2>2, <2>4, <2>5, <2>6,
               WorkingNext
<1>17. CASE ~in.vrf_gnt
  <2>1. /\ vrf_state' = vrf_state /\ curr_state_delay' = "write" /\ inflight' = <<>>
        /\ rd_q' = Vrf!data_wdata_o
        /\ memory' = memory /\ addr_rd_q' = addr_rd_q
    BY <1>2, <1>5, <1>12, <1>17
  <2>2. Wrote' = n
    BY <1>5, <1>8, <2>1 DEF Wrote, Late, Reads, n
  <2>3. AtDelayed'
    <3>1. \A l \in Needed(To + n) : rd_q'[l] = Element(To + n)[l]
      BY <1>2, <2>1
    <3>2. (\A l \in Needed(To + (Round - 1)) : rd_q[l] = Element(To + (Round - 1))[l])'
      BY <1>1, <1>8, <1>9, <3>1, Same DEF n
    <3>. QED  BY <1>2, <1>8, <1>15, <2>1, <3>2 DEF AtDelayed
  <2>4. AtFirst' /\ AtResult'
    BY <1>5, <2>1 DEF AtFirst, AtResult
  <2>5. Operands'
    BY <1>5, <2>1, <2>3, <2>4, OperandsNext DEF Reads
  <2>6. memory' = Image(n)
    BY <1>1, <1>3, <2>1 DEF Progress
  <2>7. vrf_state' \in {"READ", "WRITE", "LOAD_SLIDE"} => (slide_first_write_q' <=> n = 0)
    BY <1>5, <1>7, <1>17, <2>1 DEF Reads
  <2>8. At(addr_rd_q', instr.rd, To + n)
    BY <1>11, <2>1
  <2>. QED  BY <1>1, <1>6, <1>8, <1>11, <1>12, <1>13, <1>14, <2>1, <2>2, <2>5, <2>6, <2>7, <2>8,
               WorkingNext
               DEF Reads
<1>. QED  BY <1>1, <1>16, <1>17

\* A first operand that is held stays, in the states that do not take one.
LEMMA StillHolds ==
  ASSUME Works, Vrf!Registers, vrf_state \in {"INT_WRITE", "WRITE", "INT_READ2", "INT_READ3"},
         instr' = instr, before' = before,
         vrf_state \in Path,
         NEW k, Holds(FirstOp, k)
  PROVE  Holds(FirstOp', k) /\ (vrf_state = "INT_READ2" => Holds(FirstOp', k))
<1>1. FirstOp' = FirstOp
  <2>1. rs1_q' = rs1_q
    BY Untouched
  <2>2. CASE Binary
    BY <2>1, <2>2, Same DEF FirstOp
  <2>3. CASE ~Binary
    <3>1. vrf_state = "INT_READ2" => ~Vrf!sel(0)
      <4>1. vrf_state = "INT_READ2" => instr.kind = "macc_vx"
        BY <2>3, KindsApart DEF Path
      <4>. QED  BY <4>1, Selected
    <3>2. rs2_q' = rs2_q
      BY <3>1, Untouched
    <3>. QED  BY <2>3, <3>2, Same DEF FirstOp
  <2>. QED  BY <2>2, <2>3
<1>. QED  BY <1>1

\* INT_WRITE asks for the second operand, or for rd.
LEMMA AtIntWrite ==
  ASSUME Busy, vrf_state = "INT_WRITE"
  PROVE  Working'
<1>1. /\ Works /\ Sized /\ Counting /\ Progress(Wrote) /\ Addressing /\ Operands
      /\ vrf_state \in Path
      /\ instr' = instr /\ before' = before /\ in.vrf_gnt \in BOOLEAN
      /\ Total \in Nat /\ To + Total <= Count /\ Count \in Nat
      /\ Idles /\ Vrf!Registers /\ Vrf!AguClock /\ ~Vrf!vector_done_o
      /\ last_iteration_q \in BOOLEAN /\ first_iteration_q \in BOOLEAN
      /\ Round \in 0 .. Total
  BY BusyFacts DEF Busy
<1>2. instr.kind \in Multiplied /\ From = 0 /\ To = 0 /\ Lead = 0
  BY <1>1, RegisterTypes DEF Path
<1>3. ~last_iteration_q
  BY <1>1 DEF Vrf!vector_done_o
<1>4. ~first_iteration_q /\ HasCome(Round)
  BY <1>1, <1>3 DEF Operands, AtNext
<1>5. /\ Wrote = Round /\ Asked = Round + 1 + 0 /\ Round < Total /\ Round \in Nat
      /\ Round < Count /\ From + Asked = Round + 1
      /\ To + Round = Round
  BY <1>1, <1>2, <1>3, RoundIs DEF Wrote, Asked, Late
<1>6. Vrf!sel(1) /\ (Vrf!sel(0) <=> Binary) /\ ~op.slide
  BY <1>2, Selected DEF Multiplied, Binary
<1>7. /\ vrf_state' = (IF in.vrf_gnt THEN "INT_READ2" ELSE "INT_WRITE")
      /\ Vrf!Iterate(in.vrf_gnt) /\ Vrf!KeepSetup /\ Vrf!KeepFirst
  <2>1. Vrf!IntWrite
    BY <1>1, ByState DEF Works, Facts
  <2>. QED  BY <1>3, <1>6, <2>1 DEF Vrf!IntWrite, Vrf!Granted
<1>8. /\ offset_q' = offset_q /\ slide_offset_q' = slide_offset_q /\ ~first_iteration_q'
      /\ first_iteration_q' \in BOOLEAN
  BY <1>1, <1>4, <1>7 DEF Vrf!KeepSetup, Vrf!KeepFirst
<1>9. /\ Counting' /\ Round' = Round + (IF in.vrf_gnt THEN 1 ELSE 0)
      /\ (last_iteration_q' <=> in.vrf_gnt /\ Vrf!last_next)
  BY <1>1, <1>3, <1>7, <1>8, IterateStep
<1>10. /\ At(addr_rd_q, instr.rd, To + Round) /\ At(FirstAddr, FirstReg, From + (Round + 1))
       /\ (Binary => At(addr_rs2_q, instr.rs2, Round))
  <2>1. From + (Round + 1) = From + Asked
    BY <1>2, <1>5
  <2>. QED  BY <1>1, <1>5, <2>1 DEF Addressing
<1>11. Lead' = 0
  BY <1>1, <1>2, Same
<1>12. curr_state_delay' = "none"
  BY <1>1, NoDelay
<1>13. vrf_state' \in Path
  BY <1>2, <1>7 DEF Path
<1>14. Holds(FirstOp', Round)
  BY <1>1, <1>4, StillHolds DEF HasCome
<1>15. /\ in.vrf_gnt => /\ inflight' # <<>>
                         /\ Head(inflight').data = (IF Binary THEN Word(instr.rs2, Round) ELSE Word(instr.rd, Round))
       /\ ~in.vrf_gnt => inflight' = <<>>
       /\ Binary /\ in.vrf_gnt => At(addr_rs2_q', instr.rs2, Round + 1)
       /\ Binary /\ ~in.vrf_gnt => At(addr_rs2_q', instr.rs2, Round)
       /\ addr_rd_q' = addr_rd_q /\ FirstAddr' = FirstAddr
       /\ memory' = memory
  <2>1. CASE Binary
    <3>1. ~Vrf!agu_get_rs1_o /\ Vrf!agu_get_rs2_o /\ ~Vrf!agu_get_rd_o
      BY <1>3, <1>6, <2>1
         DEF Vrf!agu_get_rs1_o, Vrf!agu_get_rs2_o, Vrf!agu_get_rd_o, Vrf!ReadsRd, Vrf!data_we_o,
             Vrf!State
    <3>2. Progress(Round)
      BY <1>1, <1>5
    <3>. QED  BY <1>1, <1>5, <1>10, <2>1, <3>1, <3>2, AsksSecond
  <2>2. CASE ~Binary
    <3>1. ~Vrf!agu_get_rs1_o /\ ~Vrf!agu_get_rs2_o /\ Vrf!ReadsRd /\ ~Vrf!data_we_o
      BY <1>3, <1>6, <2>2
         DEF Vrf!agu_get_rs1_o, Vrf!agu_get_rs2_o, Vrf!agu_get_rd_o, Vrf!ReadsRd, Vrf!data_we_o,
             Vrf!State
    <3>2. Progress(Round)
      BY <1>1, <1>5
    <3>. QED  BY <1>1, <1>2, <1>5, <1>10, <2>2, <3>1, <3>2, AsksRd
  <2>. QED  BY <2>1, <2>2
<1>16. memory' = Image(Round)
  BY <1>1, <1>5, <1>15 DEF Progress
<1>17. At(addr_rd_q', instr.rd, To + Round) /\ At(FirstAddr', FirstReg, From + (Round + 1))
  BY <1>10, <1>15
<1>18. CASE in.vrf_gnt
  <2>1. vrf_state' = "INT_READ2" /\ Round' = Round + 1
    BY <1>7, <1>9, <1>18
  <2>2. Wrote' = Round /\ Asked' = Round + 1 /\ Round' - 1 = Round /\ Round' > 0
    BY <1>5, <1>11, <2>1 DEF Wrote, Asked, Late
  <2>3. AtSecond'
    <3>1. Holds(FirstOp, Round - 1)'
      BY <1>1, <1>14, <2>2, Same
    <3>2. (IF Binary THEN Arrives(rs2_q, Word(instr.rs2, Round - 1))
               ELSE Arrives(rs3_q, Word(instr.rd, Round - 1)))'
      BY <1>1, <1>15, <1>18, <2>2, Same DEF Arrives
    <3>. QED  BY <1>8, <2>2, <3>1, <3>2 DEF AtSecond
  <2>4. Operands'
    BY <1>8, <1>12, <2>1, <2>3, OperandsNext
  <2>5. Binary => At(addr_rs2_q', instr.rs2, Round + 1)
    BY <1>15, <1>18
  <2>. QED  BY <1>1, <1>8, <1>9, <1>13, <1>16, <1>17, <2>1, <2>2, <2>4, <2>5, WorkingNext
<1>19. CASE ~in.vrf_gnt
  <2>1. vrf_state' = "INT_WRITE" /\ Round' = Round /\ ~last_iteration_q'
    BY <1>5, <1>7, <1>9, <1>19
  <2>2. Wrote' = Round /\ Asked' = Round + 1
    BY <1>5, <1>11, <2>1 DEF Wrote, Asked, Late
  <2>3. AtNext'
    <3>1. HasCome(Round)'
      <4>1. instr.kind \notin SlideKinds
        BY <1>2, KindsApart
      <4>. QED  BY <1>1, <1>14, <2>1, <4>1, Same DEF HasCome
    <3>. QED  BY <1>8, <3>1 DEF AtNext
  <2>4. Operands'
    BY <1>8, <1>12, <2>1, <2>3, OperandsNext
  <2>5. Binary => At(addr_rs2_q', instr.rs2, Round)
    BY <1>15, <1>19
  <2>. QED  BY <1>1, <1>8, <1>9, <1>13, <1>16, <1>17, <2>1, <2>2, <2>4, <2>5, WorkingNext
<1>. QED  BY <1>1, <1>18, <1>19

\* The operands of the last read go on to the result.
LEMMA ToResult ==
  ASSUME Busy, vrf_state \in {"INT_READ2", "INT_READ3"}, vrf_state' = "INT_READ1",
         instr' = instr, before' = before, Round' = Round, last_iteration_q' = last_iteration_q,
         offset_q' = offset_q, slide_offset_q' = slide_offset_q,
         first_iteration_q' = first_iteration_q,
         ~first_iteration_q, curr_state_delay' = "none", instr.kind \in Multiplied, Lead = 0,
         Round > 0, NEW n, n = Round - 1, Holds(FirstOp', n),
         Binary => rs2_q' = Word(instr.rs2, n),
         instr.kind \in {"macc_vv", "macc_vx"} => rs3_q' = Word(instr.rd, n),
         ~last_iteration_q => inflight' # <<>> /\ Source(Round, Head(inflight').data)
  PROVE  Operands'
<1>1. Round \in Nat /\ Round + 0 = Round /\ first_iteration_q \in BOOLEAN
  BY BusyFacts
<1>2. Round' - 1 = n /\ Lead' = 0
  BY Same
<1>3. Holds(FirstOp, Round - 1)'
  BY <1>2, Same
<1>4. ~last_iteration_q => Comes(Round)'
  <2>1. SUFFICES ASSUME ~last_iteration_q PROVE Comes(Round)'
    OBVIOUS
  <2>2. instr'.kind \notin SlideKinds
    BY KindsApart
  <2>3. Source(Round + Lead, Head(inflight).data)'
    BY <1>1, <1>2, <2>1, Same
  <2>. QED  BY <2>1, <2>2, <2>3 DEF Comes
<1>5. (Binary => rs2_q = Word(instr.rs2, Round - 1))'
  BY <1>2, Same
<1>6. (instr.kind \in {"macc_vv", "macc_vx"} => rs3_q = Word(instr.rd, Round - 1))'
  BY <1>2, Same
<1>7. AtResult'
  BY <1>1, <1>3, <1>4, <1>5, <1>6 DEF AtResult
<1>8. AtFirst' /\ AtDelayed'
  BY DEF AtFirst, AtDelayed
<1>. QED  BY <1>1, <1>7, <1>8, OperandsNext

\* INT_READ3 takes the third operand.
LEMMA AtIntRead3 ==
  ASSUME Busy, vrf_state = "INT_READ3"
  PROVE  Working'
<1>1. /\ Works /\ Sized /\ Counting /\ Progress(Wrote) /\ Addressing /\ Operands
      /\ vrf_state \in Path
      /\ instr' = instr /\ before' = before /\ in.vrf_gnt \in BOOLEAN
      /\ Total \in Nat /\ To + Total <= Count /\ Count \in Nat
      /\ Idles /\ Vrf!Registers /\ Vrf!AguClock /\ ~Vrf!vector_done_o
      /\ last_iteration_q \in BOOLEAN /\ first_iteration_q \in BOOLEAN
      /\ Round \in 0 .. Total
  BY BusyFacts DEF Busy
<1>. DEFINE n == Round - 1
<1>2. /\ ~first_iteration_q /\ Round > 0 /\ Holds(FirstOp, n) /\ rs2_q = Word(instr.rs2, n)
      /\ Arrives(rs3_q, Word(instr.rd, n)) /\ instr.kind = "macc_vv"
  BY <1>1 DEF Operands, AtThird
<1>3. instr.kind \in Multiplied /\ From = 0 /\ To = 0 /\ Lead = 0
  BY <1>1, <1>2, RegisterTypes DEF Multiplied
<1>4. /\ Wrote = n /\ Asked = Round + 0 /\ n \in Nat /\ Round \in Nat /\ n <= Round
      /\ From + Asked = From + Round
  BY <1>1, <1>2, <1>3 DEF Wrote, Asked, Late
<1>. HIDE DEF n
<1>5. Vrf!sel(3) /\ Vrf!sel(0) /\ FromRs1 /\ Binary
  BY <1>2, Selected DEF FromRs1, Binary
<1>6. /\ vrf_state' = (IF last_iteration_q \/ in.vrf_gnt THEN "INT_READ1" ELSE "INT_READ3")
      /\ Vrf!KeepIter /\ Vrf!KeepSetup /\ Vrf!KeepFirst
  <2>1. Vrf!IntRead3
    BY <1>1, ByState DEF Works, Facts
  <2>. QED  BY <1>1, <1>5, <2>1 DEF Vrf!IntRead3, Vrf!Granted, Vrf!GoTo
<1>7. /\ offset_q' = offset_q /\ slide_offset_q' = slide_offset_q
      /\ first_iteration_q' = first_iteration_q
  BY <1>6 DEF Vrf!KeepSetup, Vrf!KeepFirst
<1>8. Counting' /\ Round' = Round /\ last_iteration_q' = last_iteration_q
  BY <1>1, <1>6, <1>7, KeepStep
<1>9. /\ At(addr_rd_q, instr.rd, To + n) /\ At(FirstAddr, FirstReg, From + Round)
      /\ At(addr_rs2_q, instr.rs2, Round)
  BY <1>1, <1>4, <1>5 DEF Addressing
<1>10. curr_state_delay' = "none" /\ Lead' = 0
  BY <1>1, <1>3, NoDelay, Same
<1>11. vrf_state' \in Path
  BY <1>3, <1>6 DEF Path
<1>12. Holds(FirstOp', n)
  BY <1>1, <1>2, StillHolds
<1>13. rs2_q' = Word(instr.rs2, n)
  BY <1>1, <1>2, Untouched
<1>14. rs3_q' = Word(instr.rd, n)
  <2>1. CASE inflight = <<>>
    BY <1>1, <1>2, <2>1, Cycle, Untouched DEF Arrives
  <2>2. CASE inflight # <<>>
    <3>1. vrf_data_rvalid /\ Answer = Word(instr.rd, n)
      BY <1>1, <1>2, <2>2, Cycle DEF Arrives
    <3>. QED  BY <1>1, <3>1 DEF Vrf!Registers, Vrf!rs3_en
  <2>. QED  BY <2>1, <2>2
<1>15. CASE last_iteration_q
  <2>1. ~Vrf!data_req_o
    BY <1>15
       DEF Vrf!data_req_o, Vrf!agu_get_rs1_o, Vrf!agu_get_rs2_o, Vrf!agu_get_rd_o, Vrf!ReadsRd,
           Vrf!data_we_o, Vrf!State
  <2>2. /\ memory' = memory /\ addr_rs2_q' = addr_rs2_q /\ addr_rd_q' = addr_rd_q
        /\ FirstAddr' = FirstAddr
    BY <1>1, <2>1, AsksNothing
  <2>3. vrf_state' = "INT_READ1"
    BY <1>6, <1>15
  <2>4. Operands'
    BY <1>1, <1>2, <1>3, <1>7, <1>8, <1>10, <1>12, <1>13, <1>14, <1>15, <2>3, ToResult DEF n
  <2>5. Wrote' = n /\ Asked' = Round
    BY <1>2, <1>4, <1>7, <1>8, <1>10, <1>15, <2>3 DEF Wrote, Asked, Late, n
  <2>6. /\ memory' = Image(n) /\ At(addr_rd_q', instr.rd, To + n)
        /\ At(FirstAddr', FirstReg, From + Round)
        /\ At(addr_rs2_q', instr.rs2, Round)
    BY <1>1, <1>4, <1>9, <2>2 DEF Progress
  <2>. QED  BY <1>1, <1>7, <1>8, <1>11, <2>3, <2>4, <2>5, <2>6, WorkingNext
<1>16. CASE ~last_iteration_q
  <2>1. /\ Vrf!agu_get_rs1_o <=> FromRs1
        /\ Vrf!agu_get_rs2_o <=> ~FromRs1
        /\ ~Vrf!agu_get_rd_o
    BY <1>5, <1>16
       DEF Vrf!agu_get_rs1_o, Vrf!agu_get_rs2_o, Vrf!agu_get_rd_o, Vrf!ReadsRd, Vrf!data_we_o,
           Vrf!State
  <2>2. Progress(n)
    BY <1>1, <1>4
  <2>3. /\ in.vrf_gnt => inflight' # <<>> /\ Source(Round, Head(inflight').data)
        /\ ~in.vrf_gnt => inflight' = <<>>
        /\ in.vrf_gnt => At(FirstAddr', FirstReg, From + Round + 1)
        /\ ~in.vrf_gnt => FirstAddr' = FirstAddr
        /\ addr_rd_q' = addr_rd_q /\ addr_rs2_q' = addr_rs2_q /\ memory' = memory
    BY <1>1, <1>4, <1>5, <1>9, <2>1, <2>2, AsksFirst
  <2>4. /\ memory' = Image(n) /\ At(addr_rd_q', instr.rd, To + n)
        /\ At(addr_rs2_q', instr.rs2, Round)
    BY <1>9, <2>2, <2>3 DEF Progress
  <2>5. CASE in.vrf_gnt
    <3>1. vrf_state' = "INT_READ1"
      BY <1>6, <2>5
    <3>2. Operands'
      BY <1>1, <1>2, <1>3, <1>7, <1>8, <1>10, <1>12, <1>13, <1>14, <1>16, <2>3, <2>5, <3>1,
         ToResult
         DEF n
    <3>3. Wrote' = n /\ Asked' = Round + 1
      BY <1>2, <1>4, <1>7, <1>8, <1>10, <1>16, <3>1 DEF Wrote, Asked, Late, n
    <3>4. At(FirstAddr', FirstReg, From + (Round + 1))
      <4>1. From + (Round + 1) = From + Round + 1
        BY <1>3, <1>4
      <4>. QED  BY <2>3, <2>5, <4>1
    <3>. QED  BY <1>1, <1>7, <1>8, <1>11, <2>4, <3>1, <3>2, <3>3, <3>4, WorkingNext
  <2>6. CASE ~in.vrf_gnt
    <3>1. vrf_state' = "INT_READ3" /\ inflight' = <<>>
      BY <1>6, <1>16, <2>3, <2>6
    <3>2. Wrote' = n /\ Asked' = Round
      BY <1>2, <1>4, <1>7, <1>8, <1>10, <1>16, <3>1 DEF Wrote, Asked, Late, n
    <3>3. Round' - 1 = n
      BY <1>8 DEF n
    <3>4. Holds(FirstOp, Round - 1)'
      BY <1>1, <1>12, <3>3, Same
    <3>5. (rs2_q = Word(instr.rs2, Round - 1))' /\ Arrives(rs3_q, Word(instr.rd, Round - 1))'
      BY <1>1, <1>13, <1>14, <3>1, <3>3, Same DEF Arrives
    <3>6. AtThird'
      BY <1>1, <1>2, <1>7, <1>8, <3>4, <3>5 DEF AtThird
    <3>7. Operands'
      BY <1>1, <1>7, <1>10, <3>1, <3>6, OperandsNext
    <3>8. At(FirstAddr', FirstReg, From + Round)
      BY <1>9, <2>3, <2>6
    <3>. QED  BY <1>1, <1>7, <1>8, <1>11, <2>4, <3>1, <3>2, <3>7, <3>8, WorkingNext
  <2>. QED  BY <1>1, <2>5, <2>6
<1>. QED  BY <1>1, <1>15, <1>16

\* INT_READ2 takes the second operand.
LEMMA AtIntRead2 ==
  ASSUME Busy, vrf_state = "INT_READ2"
  PROVE  Working'
<1>1. /\ Works /\ Sized /\ Counting /\ Progress(Wrote) /\ Addressing /\ Operands
      /\ vrf_state \in Path
      /\ instr' = instr /\ before' = before /\ in.vrf_gnt \in BOOLEAN
      /\ Total \in Nat /\ To + Total <= Count /\ Count \in Nat
      /\ Idles /\ Vrf!Registers /\ Vrf!AguClock /\ ~Vrf!vector_done_o
      /\ last_iteration_q \in BOOLEAN /\ first_iteration_q \in BOOLEAN
      /\ Round \in 0 .. Total
  BY BusyFacts DEF Busy
<1>. DEFINE n == Round - 1
<1>2. /\ ~first_iteration_q /\ Round > 0 /\ Holds(FirstOp, n)
      /\ IF Binary THEN Arrives(rs2_q, Word(instr.rs2, n)) ELSE Arrives(rs3_q, Word(instr.rd, n))
  BY <1>1 DEF Operands, AtSecond
<1>3. /\ instr.kind \in Multiplied /\ From = 0 /\ To = 0 /\ Lead = 0
      /\ instr.kind \notin SlideKinds
  BY <1>1, RegisterTypes, KindsApart DEF Path
<1>4. /\ Wrote = n /\ Asked = Round + 0 /\ n \in Nat /\ Round \in Nat /\ n <= Round
      /\ From + Asked = From + Round
      /\ n \in 0 .. Total - 1 /\ n < Count
  BY <1>1, <1>2, <1>3 DEF Wrote, Asked, Late
<1>. HIDE DEF n
<1>5. /\ Vrf!sel(3) /\ ~op.slide
      /\ Vrf!sel(0) <=> Binary
      /\ FromRs1 <=> Binary
      /\ Vrf!sel(2) <=> instr.kind # "vv"
  BY <1>3, Selected DEF FromRs1, Binary, Multiplied
<1>6. /\ vrf_state' = (IF instr.kind = "macc_vv" THEN IF in.vrf_gnt THEN "INT_READ3" ELSE "INT_READ2"
                       ELSE IF last_iteration_q \/ in.vrf_gnt THEN "INT_READ1" ELSE "INT_READ2")
      /\ Vrf!KeepIter /\ Vrf!KeepSetup /\ Vrf!KeepFirst
  <2>1. Vrf!IntRead2
    BY <1>1, ByState DEF Works, Facts
  <2>2. (Vrf!sel(0) /\ Vrf!sel(2)) <=> instr.kind = "macc_vv"
    BY <1>3, <1>5 DEF Binary, Multiplied
  <2>. QED  BY <1>1, <1>5, <2>1, <2>2 DEF Vrf!IntRead2, Vrf!Granted, Vrf!GoTo
<1>7. /\ offset_q' = offset_q /\ slide_offset_q' = slide_offset_q
      /\ first_iteration_q' = first_iteration_q
  BY <1>6 DEF Vrf!KeepSetup, Vrf!KeepFirst
<1>8. Counting' /\ Round' = Round /\ last_iteration_q' = last_iteration_q
  BY <1>1, <1>6, <1>7, KeepStep
<1>9. /\ At(addr_rd_q, instr.rd, To + n) /\ At(FirstAddr, FirstReg, From + Round)
      /\ (Binary => At(addr_rs2_q, instr.rs2, Round))
  BY <1>1, <1>4 DEF Addressing
<1>10. curr_state_delay' = "none" /\ Lead' = 0 /\ Round' - 1 = n
  BY <1>1, <1>3, <1>8, NoDelay, Same DEF n
<1>11. vrf_state' \in Path
  BY <1>3, <1>6 DEF Path
<1>12. Holds(FirstOp', n)
  BY <1>1, <1>2, StillHolds
<1>13. /\ Binary => rs2_q' = Word(instr.rs2, n)
       /\ ~Binary => rs3_q' = Word(instr.rd, n)
  <2>1. CASE inflight = <<>>
    BY <1>1, <1>2, <2>1, Cycle, Untouched DEF Arrives
  <2>2. CASE inflight # <<>>
    <3>1. vrf_data_rvalid /\ (Answer = IF Binary THEN Word(instr.rs2, n) ELSE Word(instr.rd, n))
      BY <1>1, <1>2, <2>2, Cycle DEF Arrives
    <3>. QED  BY <1>1, <1>5, <3>1 DEF Vrf!Registers, Vrf!rs3_en, Vrf!rs2_en, Vrf!State
  <2>. QED  BY <2>1, <2>2
<1>14. Progress(n)
  BY <1>1, <1>4
<1>15. ASSUME vrf_state' = "INT_READ2", inflight' = <<>>, memory' = memory,
              addr_rd_q' = addr_rd_q, FirstAddr' = FirstAddr,
              Binary => addr_rs2_q' = addr_rs2_q
       PROVE  Working'
  <2>1. Wrote' = n /\ Asked' = Round
    BY <1>2, <1>4, <1>7, <1>8, <1>10, <1>15 DEF Wrote, Asked, Late, n
  <2>2. Holds(FirstOp, Round - 1)'
    BY <1>1, <1>10, <1>12, Same
  <2>3. (IF Binary THEN Arrives(rs2_q, Word(instr.rs2, Round - 1))
         ELSE Arrives(rs3_q, Word(instr.rd, Round - 1)))'
    BY <1>1, <1>10, <1>13, <1>15, Same DEF Arrives
  <2>4. AtSecond'
    BY <1>1, <1>2, <1>7, <1>8, <2>2, <2>3 DEF AtSecond
  <2>5. Operands'
    BY <1>1, <1>7, <1>10, <1>15, <2>4, OperandsNext
  <2>6. /\ memory' = Image(n) /\ At(addr_rd_q', instr.rd, To + n)
        /\ At(FirstAddr', FirstReg, From + Round)
        /\ (Binary => At(addr_rs2_q', instr.rs2, Round))
    BY <1>9, <1>14, <1>15 DEF Progress
  <2>. QED  BY <1>1, <1>7, <1>8, <1>11, <1>15, <2>1, <2>5, <2>6, WorkingNext
<1>16. CASE instr.kind = "macc_vv"
  <2>1. Binary
    BY <1>16 DEF Binary
  <2>2. ~Vrf!agu_get_rs1_o /\ ~Vrf!agu_get_rs2_o /\ Vrf!ReadsRd /\ ~Vrf!data_we_o
    BY <1>5, <1>16, <2>1
       DEF Vrf!agu_get_rs1_o, Vrf!agu_get_rs2_o, Vrf!agu_get_rd_o, Vrf!ReadsRd, Vrf!data_we_o,
           Vrf!State
  <2>3. /\ in.vrf_gnt => inflight' # <<>> /\ Head(inflight').data = Word(instr.rd, n)
        /\ ~in.vrf_gnt => inflight' = <<>>
        /\ addr_rd_q' = addr_rd_q /\ FirstAddr' = FirstAddr /\ addr_rs2_q' = addr_rs2_q
        /\ memory' = memory
    BY <1>1, <1>3, <1>4, <1>9, <1>14, <2>2, AsksRd
  <2>4. CASE ~in.vrf_gnt
    BY <1>6, <1>15, <1>16, <2>3, <2>4
  <2>5. CASE in.vrf_gnt
    <3>1. vrf_state' = "INT_READ3"
      BY <1>6, <1>16, <2>5
    <3>2. Wrote' = n /\ Asked' = Round
      BY <1>2, <1>4, <1>7, <1>8, <1>10, <3>1 DEF Wrote, Asked, Late, n
    <3>3. Holds(FirstOp, Round - 1)'
      BY <1>1, <1>10, <1>12, Same
    <3>4. (rs2_q = Word(instr.rs2, Round - 1))' /\ Arrives(rs3_q, Word(instr.rd, Round - 1))'
      BY <1>1, <1>10, <1>13, <2>1, <2>3, <2>5, Same DEF Arrives
    <3>5. AtThird'
      BY <1>1, <1>2, <1>7, <1>8, <1>16, <3>3, <3>4 DEF AtThird
    <3>6. Operands'
      BY <1>1, <1>7, <1>10, <3>1, <3>5, OperandsNext
    <3>7. /\ memory' = Image(n) /\ At(addr_rd_q', instr.rd, To + n)
          /\ At(FirstAddr', FirstReg, From + Round)
          /\ At(addr_rs2_q', instr.rs2, Round)
      BY <1>9, <1>14, <2>1, <2>3 DEF Progress
    <3>. QED  BY <1>1, <1>7, <1>8, <1>11, <3>1, <3>2, <3>6, <3>7, WorkingNext
  <2>. QED  BY <1>1, <2>4, <2>5
<1>17. CASE instr.kind # "macc_vv" /\ last_iteration_q
  <2>1. vrf_state' = "INT_READ1"
    BY <1>6, <1>17
  <2>2. ~Vrf!data_req_o
    <3>1. ~(Vrf!sel(0) /\ Vrf!sel(2))
      BY <1>3, <1>5, <1>17 DEF Binary, Multiplied
    <3>. QED  BY <1>17, <3>1
                 DEF Vrf!data_req_o, Vrf!agu_get_rs1_o, Vrf!agu_get_rs2_o, Vrf!agu_get_rd_o,
                     Vrf!ReadsRd, Vrf!data_we_o, Vrf!State
  <2>3. /\ memory' = memory /\ addr_rs2_q' = addr_rs2_q /\ addr_rd_q' = addr_rd_q
        /\ FirstAddr' = FirstAddr
    BY <1>1, <2>2, AsksNothing
  <2>4. instr.kind \in {"macc_vv", "macc_vx"} => rs3_q' = Word(instr.rd, n)
    BY <1>13, <1>17 DEF Binary
  <2>5. Operands'
    BY <1>1, <1>2, <1>3, <1>7, <1>8, <1>10, <1>12, <1>13, <1>17, <2>1, <2>4, ToResult DEF n
  <2>6. Wrote' = n /\ Asked' = Round
    BY <1>2, <1>4, <1>7, <1>8, <1>10, <1>17, <2>1 DEF Wrote, Asked, Late, n
  <2>7. /\ memory' = Image(n) /\ At(addr_rd_q', instr.rd, To + n)
        /\ At(FirstAddr', FirstReg, From + Round)
        /\ (Binary => At(addr_rs2_q', instr.rs2, Round))
    BY <1>9, <1>14, <2>3 DEF Progress
  <2>. QED  BY <1>1, <1>7, <1>8, <1>11, <2>1, <2>5, <2>6, <2>7, WorkingNext
<1>18. CASE instr.kind # "macc_vv" /\ ~last_iteration_q
  <2>1. /\ Vrf!agu_get_rs1_o <=> FromRs1
        /\ Vrf!agu_get_rs2_o <=> ~FromRs1
        /\ ~Vrf!agu_get_rd_o
    <3>1. ~(Vrf!sel(0) /\ Vrf!sel(2))
      BY <1>3, <1>5, <1>18 DEF Binary, Multiplied
    <3>. QED  BY <1>5, <1>18, <3>1
                 DEF Vrf!agu_get_rs1_o, Vrf!agu_get_rs2_o, Vrf!agu_get_rd_o, Vrf!ReadsRd,
                     Vrf!data_we_o, Vrf!State
  <2>2. /\ in.vrf_gnt => inflight' # <<>> /\ Source(Round, Head(inflight').data)
        /\ ~in.vrf_gnt => inflight' = <<>>
        /\ in.vrf_gnt => At(FirstAddr', FirstReg, From + Round + 1)
        /\ ~in.vrf_gnt => FirstAddr' = FirstAddr
        /\ addr_rd_q' = addr_rd_q /\ (Binary => addr_rs2_q' = addr_rs2_q) /\ memory' = memory
    BY <1>1, <1>4, <1>9, <1>14, <2>1, AsksFirst
  <2>3. CASE ~in.vrf_gnt
    <3>1. vrf_state' = "INT_READ2"
      BY <1>6, <1>18, <2>3
    <3>. QED  BY <1>15, <2>2, <2>3, <3>1
  <2>4. CASE in.vrf_gnt
    <3>1. vrf_state' = "INT_READ1"
      BY <1>6, <1>18, <2>4
    <3>2. instr.kind \in {"macc_vv", "macc_vx"} => rs3_q' = Word(instr.rd, n)
      BY <1>13, <1>18 DEF Binary
    <3>3. Operands'
      BY <1>1, <1>2, <1>3, <1>7, <1>8, <1>10, <1>12, <1>13, <1>18, <2>2, <2>4, <3>1, <3>2,
         ToResult
         DEF n
    <3>4. Wrote' = n /\ Asked' = Round + 1
      BY <1>2, <1>4, <1>7, <1>8, <1>10, <1>18, <3>1 DEF Wrote, Asked, Late, n
    <3>5. /\ memory' = Image(n) /\ At(addr_rd_q', instr.rd, To + n)
          /\ (Binary => At(addr_rs2_q', instr.rs2, Round))
      BY <1>9, <1>14, <2>2 DEF Progress
    <3>6. At(FirstAddr', FirstReg, From + (Round + 1))
      <4>1. From + (Round + 1) = From + Round + 1
        BY <1>3, <1>4
      <4>. QED  BY <2>2, <2>4, <4>1
    <3>. QED  BY <1>1, <1>7, <1>8, <1>11, <3>1, <3>3, <3>4, <3>5, <3>6, WorkingNext
  <2>. QED  BY <1>1, <2>3, <2>4
<1>. QED  BY <1>1, <1>16, <1>17, <1>18

\* WRITE asks for the next word.
LEMMA AtNextRound ==
  ASSUME Busy, vrf_state = "WRITE"
  PROVE  Working'
<1>1. /\ Works /\ Sized /\ Counting /\ Progress(Wrote) /\ Addressing /\ Operands
      /\ vrf_state \in Path
      /\ instr' = instr /\ before' = before /\ in.vrf_gnt \in BOOLEAN
      /\ From \in Nat /\ To \in Nat /\ Total \in Nat /\ From + Total <= Count /\ Count \in Nat
      /\ Lead \in {0, 1}
      /\ Idles /\ Vrf!Registers /\ Vrf!AguClock /\ ~Vrf!vector_done_o
      /\ last_iteration_q \in BOOLEAN /\ first_iteration_q \in BOOLEAN
      /\ Round \in 0 .. Total /\ instr.kind \in WordKinds
  BY BusyFacts DEF Busy
<1>2. ~last_iteration_q
  BY <1>1 DEF Vrf!vector_done_o
<1>3. ~first_iteration_q /\ HasCome(Round)
  BY <1>1, <1>2 DEF Operands, AtNext
<1>4. instr.kind \in Copied /\ instr.kind \notin Multiplied /\ ~Binary
  BY <1>1, KindsApart DEF Path
<1>. DEFINE p == Round + 1 + Lead
<1>5. Wrote = Round /\ Asked = p /\ Round < Total /\ Round \in Nat /\ p \in Nat /\ Round <= p
      /\ (slide_first_write_q <=> Round = 0)
      /\ (Vrf!last_next <=> num_iterations_q = Least)
  BY <1>1, <1>2, RoundIs DEF Wrote, Asked, Late, Busy, Working
<1>. HIDE DEF p
<1>6. /\ Vrf!sel(0) \/ Vrf!sel(1)
      /\ Vrf!sel(0) <=> FromRs1
  BY <1>4, Selected DEF FromRs1, Copied
<1>7. /\ vrf_state' = (IF Vrf!last_next \/ in.vrf_gnt THEN "READ" ELSE "WRITE")
      /\ Vrf!Iterate(Vrf!last_next \/ in.vrf_gnt) /\ Vrf!KeepSetup /\ Vrf!KeepFirst
  <2>1. Vrf!Write
    BY <1>1, ByState DEF Works, Facts
  <2>. QED  BY <1>2, <1>6, <2>1 DEF Vrf!Write, Vrf!Granted, Vrf!GoTo
<1>8. /\ offset_q' = offset_q /\ slide_offset_q' = slide_offset_q
      /\ first_iteration_q' = first_iteration_q
      /\ slide_first_write_q' = slide_first_write_q
  BY <1>7 DEF Vrf!KeepSetup, Vrf!KeepFirst
<1>9. /\ Counting'
      /\ Round' = Round + (IF Vrf!last_next \/ in.vrf_gnt THEN 1 ELSE 0)
      /\ last_iteration_q' <=> Vrf!last_next
  <2>1. (Vrf!last_next \/ in.vrf_gnt) \in BOOLEAN
    OBVIOUS
  <2>2. /\ Counting'
        /\ Round' = Round + (IF Vrf!last_next \/ in.vrf_gnt THEN 1 ELSE 0)
        /\ last_iteration_q' <=> (Vrf!last_next \/ in.vrf_gnt) /\ Vrf!last_next
    BY <1>1, <1>2, <1>7, <1>8, <2>1, IterateStep
  <2>. QED  BY <2>2
<1>10. At(addr_rd_q, instr.rd, To + Round) /\ At(FirstAddr, FirstReg, From + p)
  BY <1>1, <1>5 DEF Addressing
<1>11. curr_state_delay' = "none" /\ Lead' = Lead /\ From' = From
  BY <1>1, NoDelay, Same
<1>12. vrf_state' \in Path
  BY <1>4, <1>7 DEF Path
<1>13. Holds(FirstOp', Round) /\ slide_buffer_q' = slide_buffer_q
  BY <1>1, <1>3, StillHolds, Untouched DEF HasCome
<1>14. ASSUME ~Vrf!last_next
       PROVE  /\ Vrf!agu_get_rs1_o <=> FromRs1
              /\ Vrf!agu_get_rs2_o <=> ~FromRs1
              /\ ~Vrf!agu_get_rd_o
  BY <1>2, <1>6, <1>14
     DEF Vrf!agu_get_rs1_o, Vrf!agu_get_rs2_o, Vrf!agu_get_rd_o, Vrf!ReadsRd, Vrf!data_we_o,
         Vrf!State
<1>15. ASSUME ~Vrf!last_next
       PROVE  /\ in.vrf_gnt => inflight' # <<>> /\ Source(p, Head(inflight').data)
              /\ ~in.vrf_gnt => inflight' = <<>>
              /\ in.vrf_gnt => At(FirstAddr', FirstReg, From + p + 1)
              /\ ~in.vrf_gnt => FirstAddr' = FirstAddr
              /\ addr_rd_q' = addr_rd_q /\ memory' = memory
  <2>1. Progress(Round)
    BY <1>1, <1>5
  <2>. QED  BY <1>1, <1>5, <1>10, <1>14, <1>15, <2>1, AsksFirst
<1>16. ASSUME Vrf!last_next
       PROVE  memory' = memory /\ addr_rd_q' = addr_rd_q /\ FirstAddr' = FirstAddr
  <2>1. ~Vrf!data_req_o
    BY <1>6, <1>16
       DEF Vrf!data_req_o, Vrf!agu_get_rs1_o, Vrf!agu_get_rs2_o, Vrf!agu_get_rd_o, Vrf!ReadsRd,
           Vrf!data_we_o, Vrf!State
  <2>. QED  BY <1>1, <2>1, AsksNothing
<1>17. memory' = Image(Round) /\ At(addr_rd_q', instr.rd, To + Round)
  BY <1>1, <1>5, <1>10, <1>15, <1>16 DEF Progress
<1>18. CASE ~Vrf!last_next /\ ~in.vrf_gnt
  <2>1. vrf_state' = "WRITE" /\ Round' = Round /\ ~last_iteration_q' /\ FirstAddr' = FirstAddr
    BY <1>5, <1>7, <1>9, <1>15, <1>18
  <2>2. Wrote' = Round /\ Asked' = p
    BY <1>11, <2>1 DEF Wrote, Asked, Late, p
  <2>3. HasCome(Round)'
    <3>1. slide_buffer_q' = slide_buffer_q /\ Holds(FirstOp', Round)
      BY <1>13
    <3>. QED  BY <1>1, <1>3, <1>8, <1>11, <2>1, <3>1, Same, SameSize DEF HasCome
  <2>4. AtNext'
    BY <1>3, <1>8, <2>3 DEF AtNext
  <2>5. Operands'
    BY <1>1, <1>8, <1>11, <2>1, <2>4, OperandsNext
  <2>6. At(FirstAddr', FirstReg, From + p)
    BY <1>10, <2>1
  <2>. QED  BY <1>1, <1>4, <1>5, <1>8, <1>9, <1>12, <1>17, <2>1, <2>2, <2>5, <2>6, WorkingNext
<1>19. CASE Vrf!last_next \/ in.vrf_gnt
  <2>1. vrf_state' = "READ" /\ Round' = Round + 1 /\ (last_iteration_q' <=> Vrf!last_next)
    BY <1>7, <1>9, <1>19
  <2>2. Round' - 1 = Round /\ Round' > 0
    BY <1>5, <2>1
  <2>3. Wrote' = Round /\ Asked' = (IF Vrf!last_next THEN p ELSE p + 1)
    <3>1. Wrote' = Round
      BY <1>3, <1>8, <2>1, <2>2 DEF Wrote, Late
    <3>2. Asked' = (IF last_iteration_q' THEN Round' + Lead ELSE Round' + 1 + Lead)
      BY <1>11, <2>1 DEF Asked
    <3>3. Round' + Lead = p /\ Round' + 1 + Lead = p + 1
      BY <1>1, <1>5, <2>1 DEF p
    <3>. QED  BY <2>1, <3>1, <3>2, <3>3
  <2>4. ~Vrf!last_next => Comes(Round)'
    <3>1. SUFFICES ASSUME ~Vrf!last_next PROVE Comes(Round)'
      OBVIOUS
    <3>2. in.vrf_gnt /\ inflight' # <<>> /\ Source(p, Head(inflight').data)
      BY <1>15, <1>19, <3>1
    <3>3. Round' + Lead' = p
      BY <1>1, <1>5, <1>11, <2>1 DEF p
    <3>4. Source(Round + Lead, Head(inflight).data)'
      BY <1>1, <3>2, <3>3, Same
    <3>5. instr.kind \in SlideKinds => KeptOf(slide_buffer_q', p)
      <4>1. SUFFICES ASSUME instr.kind \in SlideKinds PROVE KeptOf(slide_buffer_q', p)
        OBVIOUS
      <4>2. Round + 1 < Total
        <5>1. Rounds \in Nat /\ Least \in {0, 1} /\ Total = Rounds - Least + 1
          BY <1>1, Turns DEF Total
        <5>2. /\ num_iterations_q \in Least .. Rounds /\ num_iterations_q # Least
              /\ Round = Rounds - num_iterations_q + 0
          BY <1>1, <1>2, <1>5, <3>1 DEF Counting, Round
        <5>. QED  BY <5>1, <5>2
      <4>3. From + Round + Lead < Count
        BY <1>1, <1>5, <4>2
      <4>4. KeptOf(slide_buffer_q, Round + Lead + 1) /\ Round + Lead + 1 = p
        BY <1>1, <1>3, <1>5, <4>1, <4>3 DEF HasCome, p
      <4>. QED  BY <1>13, <4>4
    <3>6. (instr.kind \in SlideKinds => KeptOf(slide_buffer_q, Round + Lead))'
      BY <1>1, <1>8, <3>3, <3>5, SameSize
    <3>. QED  BY <3>2, <3>4, <3>6 DEF Comes
  <2>5. AtResult'
    <3>1. Holds(FirstOp, Round - 1)'
      BY <1>1, <1>13, <2>2, Same
    <3>2. ~Binary' /\ instr'.kind \notin {"macc_vv", "macc_vx"}
      BY <1>1, <1>4, Same DEF Multiplied
    <3>. QED  BY <2>1, <2>2, <2>4, <3>1, <3>2 DEF AtResult
  <2>6. AtFirst' /\ AtDelayed'
    BY <1>3, <1>8, <1>11 DEF AtFirst, AtDelayed
  <2>7. Operands'
    BY <1>1, <1>8, <1>11, <2>1, <2>5, <2>6, OperandsNext
  <2>8. At(FirstAddr', FirstReg, From + (IF Vrf!last_next THEN p ELSE p + 1))
    <3>1. From + (p + 1) = From + p + 1
      BY <1>1, <1>5
    <3>2. CASE Vrf!last_next
      BY <1>10, <1>16, <3>2
    <3>3. CASE ~Vrf!last_next
      BY <1>15, <1>19, <3>1, <3>3
    <3>. QED  BY <3>2, <3>3
  <2>. QED  BY <1>1, <1>4, <1>5, <1>8, <1>9, <1>12, <1>17, <2>1, <2>3, <2>7, <2>8, WorkingNext
<1>. QED  BY <1>1, <1>18, <1>19

\* Every cycle of the FSM but the last.
LEMMA WorksOn ==
  ASSUME Busy
  PROVE  Working'
<1>1. vrf_state \in Path /\ first_iteration_q \in BOOLEAN
  BY BusyFacts
<1>2. vrf_state \in {"START", "INT_READ1", "INT_WRITE", "INT_READ2", "INT_READ3", "LOAD_SLIDE", "READ", "WRITE"}
  BY <1>1 DEF Path
<1>. QED  BY <1>1, <1>2, AtStart, AtLoadSlide, AtFirstRead, AtWrite, AtIntWrite, AtIntRead2,
             AtIntRead3, AtNextRound
             DEF Reads

\* In the last one the result is there.
LEMMA WorkDone ==
  ASSUME Sized, Working, Vrf!vector_done_o, last_iteration_q \in BOOLEAN
  PROVE  memory = Expected(before, instr)
<1>1. vrf_state \in {"INT_WRITE", "WRITE"} /\ last_iteration_q
  <2>1. vrf_state \in {"START", "INT_READ1", "INT_WRITE", "INT_READ2", "INT_READ3", "LOAD_SLIDE", "READ", "WRITE"}
    BY DEF Working, Path
  <2>. QED  BY <2>1 DEF Vrf!vector_done_o, Vrf!State
<1>2. Wrote = Round /\ Round = Total
  <2>1. Counting
    BY DEF Working
  <2>. QED  BY <1>1, <2>1, RoundIs DEF Wrote, Late
<1>3. Progress(Total)
  BY <1>2 DEF Working
<1>. QED  BY <1>3, Finished

\* The number of rounds, in the next state.
LEMMA TurnsNext == Sized' => (Rounds \in Nat /\ Least \in {0, 1} /\ Least <= Rounds)'
<1>1. Sized => Rounds \in Nat /\ Least \in {0, 1} /\ Least <= Rounds
  BY Turns
<1>. QED  BY <1>1, PTL

\* Where the AGU's counters begin.
LEMMA Loaded ==
  ASSUME NEW r \in 0 .. NRegs - 1, instr.bytes \in Nat, Fits(r), NEW n \in Nat
  PROVE  /\ At((r * WordsPerReg + n) % AguWords, r, n)
         /\ At(Vrf!FirstWord(r), r, 0)
<1>1. At(Vrf!FirstWord(r), r, 0)
  <2>1. Base(r) % AguWords \in Nat
    <3>1. AguWords \in Nat \ {0}
      BY SizesAssumption
    <3>. QED  BY <3>1, Registers
  <2>. QED  BY <2>1 DEF At, Vrf!FirstWord, Base
<1>2. At((r * WordsPerReg + n) % AguWords, r, n)
  <2>1. SUFFICES ASSUME n < Count PROVE (Base(r) + n) % AguWords = (Base(r) % AguWords) + n
    BY DEF At, Base
  <2>. DEFINE m == Base(r) % AguWords  q == Base(r) \div AguWords
  <2>2. /\ Base(r) = AguWords * q + m /\ q \in Nat /\ m \in Nat /\ m + n < AguWords
        /\ AguWords \in Nat \ {0}
    BY <2>1, Registers, SizesAssumption
  <2>. HIDE DEF m, q
  <2>3. AguWords * q \in Nat
    BY <2>2
  <2>4. m + n \in 0 .. AguWords - 1 /\ Base(r) + n = AguWords * q + (m + n)
    BY <2>2, <2>3
  <2>5. (AguWords * q + (m + n)) % AguWords = m + n
    <3>. DEFINE k == m + n  A == AguWords
    <3>1. k \in 0 .. A - 1 /\ q \in Nat /\ A \in Nat \ {0}
      BY <2>2, <2>4
    <3>. HIDE DEF k, A
    <3>2. (A * q + k) % A = k
      BY <3>1, Quotient
    <3>. QED  BY <3>2 DEF k, A
  <2>6. (Base(r) + n) % AguWords = m + n
    BY <2>4, <2>5
  <2>. QED  BY <2>6 DEF m
<1>. QED  BY <1>1, <1>2

\* An instruction that the VRF accepts starts with nothing written.
LEMMA Accepts ==
  ASSUME Tolerated, Facts, vrf_state = "IDLE", vrf_req, Vrf!AguClock, instr \in Instr,
         instr.kind \in WordKinds,
         instr.bytes # 0, Placed, instr' = instr, before' = before, memory' = before, Shape(before)
  PROVE  vrf_state' = "START" /\ Working'
<1>1. Vrf!Idle /\ Vrf!accept
  BY ByState DEF Facts, Vrf!accept, Vrf!State, op
<1>2. /\ vrf_state' = "START" /\ last_iteration_q' = FALSE
      /\ num_iterations_q' = (IF op.slide THEN Vrf!Minus(instr.bytes \div 4, instr.off \div 4) ELSE instr.bytes \div 4)
      /\ offset_q' = instr.bytes % 4
      /\ op.slide => slide_offset_q' = instr.off % 4
  BY <1>1 DEF Vrf!Idle, Vrf!GoTo, op
<1>3. op.slide <=> instr.kind \in SlideKinds
  BY KindOp
<1>4. Sized'
  <2>1. Placed' /\ instr'.kind \in WordKinds /\ instr'.bytes # 0 /\ instr' \in Instr
    BY Same
  <2>. QED  BY <1>2, <1>3, <2>1 DEF Sized
<1>5. /\ Rounds \in Nat /\ Rounds' = Rounds /\ Least' \in {0, 1} /\ Least' <= Rounds
  BY <1>4, TurnsNext, Same
<1>6. /\ Whole \in Nat /\ From \in Nat /\ To \in Nat /\ Lead \in {0, 1}
      /\ instr.kind \notin SlideKinds => From = 0 /\ To = 0
      /\ instr.kind = "slideup" => From = 0 /\ To = instr.off \div 4
      /\ instr.kind = "slidedown" => From = instr.off \div 4 /\ To = 0
  BY Numbers
<1>7. num_iterations_q' = Rounds
  <2>1. CASE instr.kind \notin SlideKinds
    BY <1>2, <1>3, <1>6, <2>1 DEF Rounds, Whole
  <2>2. CASE instr.kind \in SlideKinds
    <3>1. Rounds = Whole - instr.off \div 4
      BY <1>6, <2>2, InstrTypes, Quarters DEF Rounds, SlideKinds
    <3>2. Vrf!IterationLimit \in Nat
      BY SMT DEF Vrf!IterationLimit
    <3>3. Whole < Vrf!IterationLimit
      BY DEF Placed
    <3>4. Rounds \in 0 .. Vrf!IterationLimit - 1
      BY <1>5, <1>6, <3>2, <3>3 DEF Rounds
    <3>5. Rounds % Vrf!IterationLimit = Rounds
      BY <3>2, <3>4, Remainder
    <3>. QED  BY <1>2, <1>3, <2>2, <3>1, <3>5 DEF Vrf!Minus, Whole
  <2>. QED  BY <2>1, <2>2
<1>8. Counting'
  BY <1>2, <1>3, <1>5, <1>7 DEF Counting
<1>9. Round' = 0
  BY <1>2, <1>5, <1>7 DEF Round
<1>10. Wrote' = 0 /\ Asked' = 0
  BY <1>2, <1>9 DEF Wrote, Asked, Late
<1>11. /\ instr.bytes \in Nat /\ instr.off \in Nat /\ instr.off \div 4 \in Nat
       /\ instr.rd \in 0 .. NRegs - 1 /\ FirstReg \in 0 .. NRegs - 1
       /\ Fits(instr.rd) /\ Fits(FirstReg)
       /\ Binary => instr.rs2 \in 0 .. NRegs - 1 /\ Fits(instr.rs2)
  BY InstrTypes, Quarters DEF Placed, FirstReg, Binary
<1>12. /\ addr_rs1_q' = Vrf!FirstWord(instr.rs1)
       /\ addr_rs2_q' = (IF instr.kind = "slidedown" THEN (instr.rs2 * WordsPerReg + instr.off \div 4) % AguWords
                        ELSE Vrf!FirstWord(instr.rs2))
       /\ addr_rd_q' = (IF instr.kind = "slideup" THEN (instr.rd * WordsPerReg + instr.off \div 4) % AguWords
                       ELSE Vrf!FirstWord(instr.rd))
  <2>1. /\ op.rs1 = instr.rs1 /\ op.rs2 = instr.rs2 /\ op.rd = instr.rd /\ op.off = instr.off
        /\ Vrf!SlideDown <=> instr.kind = "slidedown"
        /\ op.slide /\ op.up <=> instr.kind = "slideup"
    BY KindOp DEF op, Vrf!SlideDown, SlideKinds
  <2>. QED  BY <1>1, <2>1 DEF Vrf!AguClock, Vrf!agu_load_o
<1>13. At(addr_rd_q', instr.rd, To + 0)
  <2>1. To + 0 = To
    BY <1>6
  <2>2. CASE instr.kind = "slideup"
    BY <1>6, <1>11, <1>12, <2>1, <2>2, Loaded
  <2>3. CASE instr.kind # "slideup"
    BY <1>6, <1>11, <1>12, <2>1, <2>3, Loaded DEF SlideKinds
  <2>. QED  BY <2>2, <2>3
<1>14. At(FirstAddr', FirstReg, From + 0)
  <2>1. From + 0 = From /\ FirstAddr' = (IF FromRs1 THEN addr_rs1_q' ELSE addr_rs2_q')
    BY <1>6, Same DEF FirstAddr
  <2>2. CASE instr.kind = "slidedown"
    <3>1. ~FromRs1 /\ FirstReg = instr.rs2
      BY <2>2 DEF FromRs1, FirstReg
    <3>. QED  BY <1>6, <1>11, <1>12, <2>1, <2>2, <3>1, Loaded
  <2>3. CASE instr.kind # "slidedown"
    <3>1. FirstAddr' = Vrf!FirstWord(FirstReg)
      BY <1>12, <2>1, <2>3 DEF FirstReg
    <3>2. From = 0
      BY <1>6, <2>3 DEF SlideKinds
    <3>. QED  BY <1>11, <2>1, <3>1, <3>2, Loaded
  <2>. QED  BY <2>2, <2>3
<1>15. Binary => At(addr_rs2_q', instr.rs2, 0)
  BY <1>11, <1>12, Loaded DEF Binary
<1>16. Addressing'
  BY <1>9, <1>10, <1>13, <1>14, <1>15, Same DEF Addressing
<1>17. memory' = Image(0)
  <2>1. \A w \in Words : w - Base(instr.rd) \notin To .. To + 0 - 1
    BY <1>6
  <2>2. Image(0) = [w \in Words |-> [l \in Lanes |-> before[w][l]]]
    BY <2>1 DEF Image
  <2>. QED  BY <2>2 DEF Shape
<1>18. Progress(Wrote)'
  BY <1>10, <1>17, Same DEF Progress
<1>19. Operands'
  <2>1. curr_state_delay' = "none"
    BY DelayStep DEF Facts, ControlTypeOK
  <2>2. first_iteration_q' \in BOOLEAN
    BY TypesStep DEF Facts, Types
  <2>. QED  BY <1>2, <2>1, <2>2, OperandsNext
<1>20. Path' = Path
  BY Same DEF Path
<1>. QED  BY <1>2, <1>5, <1>7, <1>8, <1>16, <1>18, <1>19, <1>20 DEF Working, Path

\* An instruction that leaves ID is followed by another one's first cycle.
LEMMA Follows ==
  ASSUME Tolerated, Facts
  PROVE  /\ new_instr <=> ~stall_id
         /\ new_instr => id_fsm_q' = "FIRST_CYCLE" /\ before' = memory'
         /\ ~new_instr => /\ id_fsm_q' = "MULTI_CYCLE" /\ instr_valid_id_q
                          /\ instr' = instr /\ before' = before /\ todo' = todo
<1>1. /\ in \in Inputs /\ Memory /\ IfIdClock /\ IdClock /\ PhaseInv
      /\ instr_valid_id_q \in BOOLEAN
      /\ id_fsm_q \in {"FIRST_CYCLE", "MULTI_CYCLE"}
  BY DEF Facts, ControlTypeOK
<1>2. new_instr <=> ~stall_id
  BY <1>1, InputTypes DEF new_instr
<1>3. /\ new_instr => before' = memory'
      /\ ~new_instr => before' = before /\ instr' = instr /\ todo' = todo
  BY <1>1 DEF Memory, IfIdClock
<1>4. ASSUME ~stall_id PROVE id_fsm_q' = "FIRST_CYCLE"
  <2>1. CASE ~instr_valid_id_q
    BY <1>1, <2>1 DEF IdClock, instr_executing, PhaseInv
  <2>2. CASE instr_valid_id_q /\ id_fsm_q = "FIRST_CYCLE"
    BY <1>1, <1>4, <2>2
       DEF IdClock, instr_executing, stall_id, stall_vec, stall_mem, instr_first_cycle
  <2>3. CASE instr_valid_id_q /\ id_fsm_q = "MULTI_CYCLE"
    BY <1>1, <1>4, <2>3
       DEF IdClock, instr_executing, stall_id, stall_vec, stall_mem, instr_first_cycle,
           multicycle_done, PhaseInv
  <2>. QED  BY <1>1, <2>1, <2>2, <2>3
<1>5. ASSUME stall_id PROVE id_fsm_q' = "MULTI_CYCLE" /\ instr_valid_id_q
  <2>1. instr_valid_id_q
    BY <1>5 DEF stall_id, stall_vec, stall_mem, instr_executing
  <2>2. CASE id_fsm_q = "FIRST_CYCLE"
    BY <1>1, <1>5, <2>1, <2>2 DEF IdClock, instr_executing, stall_id, stall_vec, stall_mem
  <2>3. CASE id_fsm_q = "MULTI_CYCLE"
    <3>1. vrf_req \/ lsu_req_dec
      BY <1>1, <2>3 DEF PhaseInv
    <3>2. vrf_req => ~lsu_req_dec
      BY DEF vrf_req, lsu_req_dec, Scalars
    <3>. QED  BY <1>1, <1>5, <2>1, <2>3, <3>1, <3>2
         DEF IdClock, instr_executing, stall_id, stall_vec, stall_mem, instr_first_cycle, multicycle_done
  <2>. QED  BY <1>1, <2>1, <2>2, <2>3
<1>. QED  BY <1>2, <1>3, <1>4, <1>5

\* The memory stays a function from words to words.
LEMMA Shaped ==
  ASSUME Memory, Shape(memory)
  PROVE  Shape(memory')
<1>1. CASE gnt /\ bus.we
  <2>. DEFINE a == bus.word  b == bus.be  d == bus.wdata
  <2>1. memory' = [memory EXCEPT ![a] = Merge(@, d, b)]
    BY <1>1 DEF Memory
  <2>. HIDE DEF a, b, d
  <2>2. DOMAIN memory = Words
    BY DEF Shape
  <2>3. memory' = [w \in Words |-> IF w = a THEN Merge(memory[w], d, b) ELSE memory[w]]
    BY <2>1, <2>2, Shape(memory) DEF Shape
  <2>4. ASSUME NEW w \in Words
        PROVE  memory'[w] = [l \in Lanes |-> memory'[w][l]]
    <3>1. CASE w = a
      <4>1. memory'[w] = [l \in Lanes |-> IF l \in b THEN d[l] ELSE memory[w][l]]
        BY <2>3, <3>1 DEF Merge
      <4>. QED  BY <4>1
    <3>2. CASE w # a
      <4>1. memory'[w] = memory[w]
        BY <2>3, <3>2
      <4>2. memory[w] = [l \in Lanes |-> memory[w][l]]
        BY DEF Shape
      <4>. QED  BY <4>1, <4>2
    <3>. QED  BY <3>1, <3>2
  <2>5. memory' = [w \in Words |-> memory'[w]]
    BY <2>3
  <2>. QED  BY <2>4, <2>5 DEF Shape
<1>2. CASE ~(gnt /\ bus.we)
  BY <1>2 DEF Memory, Shape
<1>. QED  BY <1>1, <1>2

\* Other is an instruction.
LEMMA OtherInstr == Other \in Instr
<1>1. 0 \in 0 .. NRegs - 1 /\ 0 \in Words /\ 0 \in Lanes
  <2>1. /\ NRegs \in Nat \ {0} /\ WordsPerReg \in Nat \ {0} /\ NWords \in Nat
        /\ NWords > NRegs * WordsPerReg
    BY SizesAssumption DEF VrfWords
  <2>2. NRegs * WordsPerReg \in Nat
    BY <2>1
  <2>. QED  BY <2>1, <2>2 DEF Words, Lanes
<1>2. [word |-> 0, lane |-> 0] \in Addrs
  BY <1>1 DEF Addrs
<1>. QED  BY <1>1, <1>2 DEF Other, Instr, Kinds

\* ID gets instructions.
LEMMA InstrStep ==
  ASSUME IfIdClock, instr \in Instr, todo \in Seq(Instr)
  PROVE  instr' \in Instr /\ todo' \in Seq(Instr)
<1>1. Other \in Instr
  BY OtherInstr
<1>2. todo # <<>> => Head(todo) \in Instr /\ Tail(todo) \in Seq(Instr)
  OBVIOUS
<1>. QED  BY <1>1, <1>2 DEF IfIdClock

\* A kind that promises no write does not write.
LEMMA WritesNothing ==
  ASSUME Tolerated, Facts, KindInv, instr.kind \in ReadKinds
  PROVE  memory' = memory
<1>1. CASE vrf_req
  <2>1. instr.kind = "nosel"
    BY <1>1 DEF ReadKinds, vrf_req, Scalars
  <2>2. vrf_state \in {"IDLE", "START"}
    BY <2>1, ByState DEF Facts, KindInv, LoadStates, StoreStates, ArithStates, ArithKinds
  <2>3. ~Vrf!sel(3)
    BY <2>1, Selected
  <2>4. ~Vrf!data_we_o
    BY <2>2, <2>3 DEF Vrf!data_we_o, Vrf!State
  <2>5. ~lsu_we
    BY <2>1 DEF lsu_we
  <2>. QED  BY <2>4, <2>5 DEF Facts, Memory, bus
<1>2. CASE ~vrf_req
  <2>1. ~vrf_has_mem /\ ~lsu_we
    BY <1>2 DEF vrf_has_mem, lsu_we, ReadKinds
  <2>. QED  BY <2>1 DEF Facts, Memory, bus
<1>. QED  BY <1>1, <1>2

\* In its first cycle an instruction requests nothing of the memory for the VRF.
LEMMA StartsQuiet ==
  ASSUME Tolerated, Facts, id_fsm_q = "FIRST_CYCLE", vrf_req
  PROVE  memory' = memory /\ vrf_state = "IDLE"
<1>1. AtRest /\ ControlTypeOK
  BY DEF Facts, PhaseInv
<1>2. ~Vrf!lsu_req_o /\ ~Vrf!data_req_o
  BY <1>1, VrfIdle DEF Facts, AtRest
<1>3. ~in.vrf_gnt
  BY <1>1, <1>2, Bus
<1>4. ~in.lsu_gnt
  BY <1>1, <1>2, GrantsAsked DEF AtRest, lsu_if_req
<1>. QED  BY <1>1, <1>3, <1>4 DEF Facts, Memory, gnt, AtRest

\* A stalled instruction that works keeps working.
LEMMA Stalled ==
  ASSUME Tolerated, Facts, KindInv, DelayInv, Vrf!AguClock, Vrf!Registers, DataInv, ~new_instr,
         instr.kind \in WordKinds, InReach
  PROVE  IF vrf_state' = "IDLE" THEN memory' = before' /\ instr.bytes = 0 ELSE Working'
<1>1. /\ id_fsm_q' = "MULTI_CYCLE" /\ instr_valid_id_q /\ stall_id
      /\ instr' = instr /\ before' = before /\ todo' = todo
      /\ in \in Inputs /\ id_fsm_q \in {"FIRST_CYCLE", "MULTI_CYCLE"}
  <2>1. in \in Inputs /\ id_fsm_q \in {"FIRST_CYCLE", "MULTI_CYCLE"}
    BY DEF Facts, ControlTypeOK
  <2>2. new_instr <=> ~stall_id
    BY Follows
  <2>. QED  BY <2>1, <2>2, Follows
<1>2. vrf_req /\ ~lsu_req_dec /\ instr.kind \notin Scalars
  BY DEF WordKinds, Multiplied, Copied, vrf_req, lsu_req_dec, Scalars
<1>3. instr \in Instr /\ Shape(before) /\ instr.bytes \in Nat
  BY DEF DataInv, Instr
<1>4. CASE id_fsm_q = "FIRST_CYCLE"
  <2>1. memory' = memory /\ vrf_state = "IDLE" /\ memory = before
    BY <1>1, <1>2, <1>4, StartsQuiet DEF DataInv
  <2>2. CASE instr.bytes = 0
    <3>1. Vrf!Idle /\ ~Vrf!accept
      BY <1>1, <2>1, <2>2, ByState DEF Facts, Vrf!accept, op
    <3>2. vrf_state' = "IDLE"
      BY <2>1, <3>1 DEF Vrf!Idle, Vrf!GoTo
    <3>. QED  BY <1>1, <2>1, <2>2, <3>2
  <2>3. CASE instr.bytes # 0
    <3>1. Placed
      BY <2>3 DEF InReach
    <3>2. vrf_state' = "START" /\ Working'
      BY <1>1, <1>2, <1>3, <2>1, <2>3, <3>1, Accepts
    <3>. QED  BY <3>2
  <2>. QED  BY <2>2, <2>3
<1>5. CASE id_fsm_q = "MULTI_CYCLE"
  <2>1. ~Vrf!vector_done_o
    BY <1>1, <1>2, <1>5 DEF stall_id, stall_vec, stall_mem
  <2>2. IF vrf_state = "IDLE" THEN memory = before /\ instr.bytes = 0 ELSE Working
    BY <1>1, <1>5 DEF DataInv
  <2>3. vrf_state # "IDLE"
    BY <1>2, <2>1, <2>2 DEF Vrf!vector_done_o, Vrf!State, op
  <2>4. Counting /\ Working
    BY <2>2, <2>3 DEF Working
  <2>5. Placed
    BY <2>4 DEF Counting, InReach
  <2>6. Busy
    BY <1>3, <2>1, <2>3, <2>4, <2>5 DEF Busy, Idles, Works, Sized, Counting
  <2>7. Working'
    BY <2>6, WorksOn
  <2>8. vrf_state' \in Path'
    BY <2>7 DEF Working
  <2>9. vrf_state' # "IDLE"
    BY <2>8 DEF Path
  <2>. QED  BY <2>7, <2>9
<1>. QED  BY <1>1, <1>4, <1>5

\* Every step of the clock preserves DataInv.
LEMMA DataClock ==
  ASSUME Tolerated, Facts, KindInv, DelayInv, Vrf!AguClock, Vrf!Registers, DataInv
  PROVE  DataInv'
<1>1. /\ instr \in Instr /\ todo \in Seq(Instr) /\ Shape(memory) /\ Shape(before)
      /\ Memory /\ IfIdClock
  BY DEF DataInv, Facts
<1>2. instr' \in Instr /\ todo' \in Seq(Instr) /\ Shape(memory')
  BY <1>1, InstrStep, Shaped
<1>3. CASE new_instr
  <2>1. id_fsm_q' = "FIRST_CYCLE" /\ before' = memory'
    BY <1>3, Follows
  <2>2. Shape(before')
    BY <1>2, <2>1
  <2>. QED  BY <1>2, <2>1, <2>2 DEF DataInv, Shape
<1>4. CASE ~new_instr
  <2>1. /\ id_fsm_q' = "MULTI_CYCLE" /\ instr_valid_id_q
        /\ instr' = instr /\ before' = before
        /\ id_fsm_q \in {"FIRST_CYCLE", "MULTI_CYCLE"}
    <3>1. id_fsm_q \in {"FIRST_CYCLE", "MULTI_CYCLE"}
      BY DEF Facts, ControlTypeOK
    <3>. QED  BY <1>4, <3>1, Follows
  <2>2. instr.kind \in ReadKinds => memory' = before'
    BY <2>1, WritesNothing DEF DataInv
  <2>3. Placed' <=> Placed
    BY <2>1, Same
  <2>4. InReach' <=> InReach
    BY <2>1, <2>3 DEF InReach
  <2>5. instr.kind \in WordKinds /\ InReach =>
          IF vrf_state' = "IDLE" THEN memory' = before' /\ instr.bytes = 0 ELSE Working'
    BY <1>4, Stalled
  <2>6. Shape(before')
    BY <1>1, <2>1
  <2>. QED  BY <1>2, <2>1, <2>2, <2>4, <2>5, <2>6 DEF DataInv, Shape
<1>. QED  BY <1>3, <1>4

\* Nothing that DataInv speaks of changes in a step that leaves the variables alone.
LEMMA DataStutters ==
  ASSUME DataInv, UNCHANGED vars
  PROVE  DataInv'
<1>1. /\ instr' = instr /\ before' = before /\ todo' = todo /\ memory' = memory
      /\ instr_valid_id_q' = instr_valid_id_q /\ id_fsm_q' = id_fsm_q
      /\ vrf_state' = vrf_state /\ offset_q' = offset_q /\ slide_offset_q' = slide_offset_q
      /\ num_iterations_q' = num_iterations_q /\ last_iteration_q' = last_iteration_q
      /\ first_iteration_q' = first_iteration_q /\ slide_first_write_q' = slide_first_write_q
      /\ slide_buffer_q' = slide_buffer_q /\ rs1_q' = rs1_q /\ rs2_q' = rs2_q
      /\ rs3_q' = rs3_q /\ rd_q' = rd_q /\ curr_state_delay' = curr_state_delay
      /\ addr_rs1_q' = addr_rs1_q /\ addr_rs2_q' = addr_rs2_q /\ addr_rd_q' = addr_rd_q
      /\ inflight' = inflight
  BY DEF vars, clocked, id, vrf
<1>2. InReach' <=> InReach
  <2>1. Placed' <=> Placed
    BY <1>1, Same
  <2>. QED  BY <1>1, <2>1 DEF InReach
<1>3. ASSUME Working PROVE Working'
  <2>1. /\ From' = From /\ Lead' = Lead /\ Rounds' = Rounds /\ FirstReg' = FirstReg
        /\ (Binary' <=> Binary) /\ (FromRs1' <=> FromRs1) /\ Least' = Least
        /\ To' = To /\ Count' = Count
    BY <1>1, Same, SameSize
  <2>2. Round' = Round
    BY <1>1, <2>1 DEF Round
  <2>3. Wrote' = Wrote /\ Asked' = Asked
    <3>1. Late' <=> Late
      BY <1>1 DEF Late
    <3>2. Wrote' = Wrote
      BY <2>2, <3>1 DEF Wrote
    <3>3. Asked' = Asked
      BY <1>1, <2>1, <2>2 DEF Asked
    <3>. QED  BY <3>2, <3>3
  <2>4. FirstAddr' = FirstAddr /\ FirstOp' = FirstOp
    BY <1>1, <2>1 DEF FirstAddr, FirstOp
  <2>5. Path' = Path
    BY <1>1 DEF Path
  <2>6. Counting'
    BY <1>1, <1>3, <2>1 DEF Working, Counting
  <2>7. At(addr_rd_q', instr.rd, To + Wrote) /\ At(FirstAddr', FirstReg, From + Asked)
        /\ (Binary => At(addr_rs2_q', instr.rs2, Round)) /\ memory' = Image(Wrote)
    BY <1>1, <1>3, <2>4 DEF Working, Addressing, Progress
  <2>8. Operands'
    <3>. USE <1>1, <1>3, <2>1, <2>2, <2>4 DEF Working, Operands
    <3>1. AtSlide'
      BY Same, SameSize DEF AtSlide
    <3>2. AtFirst'
      BY Same, SameSize DEF AtFirst, Comes, Reads
    <3>3. AtResult'
      BY Same, SameSize DEF AtResult, Comes, Reads
    <3>4. AtDelayed'
      BY Same, SameSize DEF AtDelayed, HasCome, Reads
    <3>5. AtNext'
      BY Same, SameSize DEF AtNext, HasCome
    <3>6. AtSecond'
      BY Same, SameSize DEF AtSecond, Arrives
    <3>7. AtThird'
      BY Same, SameSize DEF AtThird, Arrives
    <3>. QED  BY <3>1, <3>2, <3>3, <3>4, <3>5, <3>6, <3>7
  <2>. QED  BY <1>1, <1>3, <2>1, <2>2, <2>3, <2>5, <2>6, <2>7, <2>8, WorkingNext DEF Working
<1>4. Shape(memory') /\ Shape(before')
  BY <1>1 DEF DataInv
<1>. QED  BY <1>1, <1>2, <1>3, <1>4 DEF DataInv, Shape

\* Every step preserves DataInv.
LEMMA DataStep ==
  ASSUME Tolerated, IInv, HeldInv, DataInv, [Clock]_vars
  PROVE  DataInv'
<1>1. CASE Clock
  <2>1. Facts /\ Vrf!AguClock /\ Vrf!Registers
    BY <1>1 DEF Facts, IInv, ControlTypeOK, Types, Clock, Vrf!VrfClock
  <2>. QED  BY <2>1, DataClock DEF HeldInv
<1>2. CASE UNCHANGED vars
  BY <1>2, DataStutters
<1>. QED  BY <1>1, <1>2

\* DataInv holds initially.
LEMMA DataInitially ==
  ASSUME Init
  PROVE  DataInv
<1>1. /\ todo \in Programs /\ instr = Other /\ instr_valid_id_q = FALSE
      /\ memory = InitialMemory /\ before = InitialMemory
  BY DEF Init
<1>2. Other \in Instr /\ todo \in Seq(Instr)
  BY <1>1, OtherInstr, ProgramsAssumption
<1>3. Shape(InitialMemory)
  BY MemoryAssumption DEF Shape
<1>4. Shape(memory) /\ Shape(before)
  BY <1>1, <1>3
<1>. QED  BY <1>1, <1>2, <1>4 DEF DataInv

\* A vector instruction of no elements is done at once, and promises nothing.
LEMMA NothingExpected ==
  ASSUME instr \in Instr, Shape(before),
         instr.kind \in ReadKinds \/ (instr.kind \in WordKinds /\ instr.bytes = 0)
  PROVE  Expected(before, instr) = before
<1>1. instr.off \in Nat
  BY DEF Instr
<1>2. CASE instr.kind \in ReadKinds
  <2>1. Expected(before, instr) = [w \in Words |-> [l \in Lanes |-> before[w][l]]]
    BY <1>2 DEF Expected, ReadKinds
  <2>. QED  BY <2>1 DEF Shape
<1>3. CASE instr.kind \in WordKinds /\ instr.bytes = 0
  <2>1. \A k : k \notin Written(instr)
    BY <1>1, <1>3, WrittenBy
  <2>2. Expected(before, instr) = [w \in Words |-> [l \in Lanes |-> before[w][l]]]
    BY <1>3, <2>1 DEF Expected, WordKinds, Multiplied, Copied
  <2>. QED  BY <2>2 DEF Shape
<1>. QED  BY <1>2, <1>3

\* A vector instruction that computes words, and whose operand groups lie in
\* one AGU block each and not in the way of its result, and a scalar one that
\* writes no memory, leaves ID with exactly the result it promises, whatever
\* the programs, the memory, the ALU and the delays of grants.
THEOREM ResultsCorrect ==
  ASSUME Tolerated
  PROVE  Spec => [](instr.kind \in ReadKinds \/ (instr.kind \in WordKinds /\ InReach)
                    => ResultCorrect)
<1>1. Init => HeldInv /\ DataInv
  BY HeldInitially, DataInitially
<1>2. IInv /\ HeldInv /\ DataInv /\ [Clock]_vars => HeldInv' /\ DataInv'
  BY HeldStep, DataStep
<1>3. IInv /\ DataInv
      => (instr.kind \in ReadKinds \/ (instr.kind \in WordKinds /\ InReach) => ResultCorrect)
  <2>. SUFFICES ASSUME IInv, DataInv, instr_done,
                       instr.kind \in ReadKinds \/ (instr.kind \in WordKinds /\ InReach)
                PROVE  memory = Expected(before, instr)
    BY DEF ResultCorrect
  <2>1. /\ instr_valid_id_q /\ ~stall_id /\ instr \in Instr /\ Shape(before)
        /\ instr_valid_id_q \in BOOLEAN /\ id_fsm_q \in {"FIRST_CYCLE", "MULTI_CYCLE"}
        /\ last_iteration_q \in BOOLEAN
    BY DEF instr_done, instr_executing, DataInv, IInv, ControlTypeOK
  <2>2. CASE instr.kind \in ReadKinds
    <3>1. memory = before
      BY <2>1, <2>2 DEF DataInv
    <3>. QED  BY <2>1, <2>2, <3>1, NothingExpected
  <2>3. CASE instr.kind \in WordKinds /\ InReach
    <3>1. vrf_req
      BY <2>3 DEF WordKinds, Multiplied, Copied, vrf_req, Scalars
    <3>2. id_fsm_q = "MULTI_CYCLE" /\ Vrf!vector_done_o
      BY <2>1, <3>1 DEF stall_id, stall_vec, instr_executing
    <3>3. CASE vrf_state = "IDLE"
      <4>1. memory = before /\ instr.bytes = 0
        BY <2>1, <2>3, <3>2, <3>3 DEF DataInv
      <4>. QED  BY <2>1, <2>3, <4>1, NothingExpected
    <3>4. CASE vrf_state # "IDLE"
      <4>1. Working
        BY <2>1, <2>3, <3>2, <3>4 DEF DataInv
      <4>2. Counting
        BY <4>1 DEF Working
      <4>3. Sized
        BY <2>1, <2>3, <4>2 DEF Sized, Counting, InReach
      <4>. QED  BY <2>1, <3>2, <4>1, <4>3, WorkDone
    <3>. QED  BY <3>3, <3>4
  <2>. QED  BY <2>2, <2>3
<1>. QED  BY <1>1, <1>2, <1>3, Invariance, PTL DEF Spec
=============================================================================
