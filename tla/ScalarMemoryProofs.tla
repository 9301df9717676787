-------------------------- MODULE ScalarMemoryProofs --------------------------
(***************************************************************************)
(* Proofs about scalar loads and stores, for every size of the memory, any *)
(* accesses and any words the PMP refuses, and any delays and errors of    *)
(* the data bus.                                                           *)
(***************************************************************************)
EXTENDS ScalarMemory, SequenceTheorems, TLAPS

-----------------------------------------------------------------------------
(* The inductive invariant: what each state of the load/store unit means   *)
(* for the access in ID.                                                   *)

First  == instr.addr.word
Second == Lsu!NextWord(instr.addr.word)
AtSecond == [word |-> Second, lane |-> 0]

\* The queue of the memory for one request, or none when the PMP refused it.
Asked(w) == IF pmp_err_q THEN <<>> ELSE <<[word |-> w]>>

ControlTypeOK ==
  /\ in \in Inputs /\ BusRules
  /\ instr_valid_id_q \in BOOLEAN /\ instr \in Instrs
  /\ id_fsm_q \in {"FIRST_CYCLE", "MULTI_CYCLE"} /\ ctrl_fsm_cs \in {"DECODE", "FLUSH"}
  /\ handle_misaligned_q \in BOOLEAN /\ pmp_err_q \in BOOLEAN /\ lsu_err_q \in BOOLEAN

\* No access is under way.
Resting ==
  /\ ls_fsm_cs = "IDLE" /\ inflight = <<>> /\ ~pmp_err_q /\ ~handle_misaligned_q

\* The first request waits for its grant.
FirstAsked ==
  /\ ls_fsm_cs = (IF Crosses(instr) THEN "WAIT_GNT_MIS" ELSE "WAIT_GNT")
  /\ ~handle_misaligned_q /\ ~lsu_err_q
  /\ inflight = <<>> /\ failed = {}
  /\ pmp_err_q <=> First \in instr.blocked

\* The first request is granted or refused, the second one waits for its grant.
BothAsked ==
  /\ ls_fsm_cs = "WAIT_RVALID_MIS" /\ Crosses(instr)
  /\ handle_misaligned_q /\ ~lsu_err_q
  /\ inflight = Asked(First) /\ failed = {} /\ addr_last_q = instr.addr
  /\ pmp_err_q <=> First \in instr.blocked

\* Both requests are granted, neither is answered.
BothGranted ==
  /\ ls_fsm_cs = "WAIT_RVALID_MIS_GNTS_DONE" /\ Crosses(instr)
  /\ ~handle_misaligned_q /\ ~lsu_err_q /\ ~pmp_err_q
  /\ inflight = <<[word |-> First], [word |-> Second]>> /\ failed = {}
  /\ addr_last_q = instr.addr
  /\ First \notin instr.blocked /\ Second \notin instr.blocked

\* The first request is answered or refused, the second one waits for its grant.
SecondAsked ==
  /\ ls_fsm_cs = "WAIT_GNT" /\ Crosses(instr)
  /\ handle_misaligned_q /\ addr_last_q = instr.addr
  /\ inflight = <<>>
  /\ lsu_err_q <=> FirstFails
  /\ Second \notin failed /\ (pmp_err_q <=> Second \in instr.blocked)

\* Only the last answer is missing.
LastGranted ==
  /\ ls_fsm_cs = "IDLE" /\ ~handle_misaligned_q
  /\ IF Crosses(instr)
     THEN /\ inflight = Asked(Second)
          /\ lsu_err_q <=> FirstFails
          /\ Second \notin failed /\ (pmp_err_q <=> Second \in instr.blocked)
          /\ addr_last_q = IF FirstFails THEN instr.addr ELSE AtSecond
     ELSE /\ inflight = Asked(First)
          /\ ~lsu_err_q /\ failed = {} /\ (pmp_err_q <=> First \in instr.blocked)
          /\ addr_last_q = instr.addr

Accessing == FirstAsked \/ BothAsked \/ BothGranted \/ SecondAsked \/ LastGranted

\* The ID stage is in its second state exactly while an access is under way,
\* and the controller leaves it alone meanwhile.
PhaseInv ==
  IF id_fsm_q = "MULTI_CYCLE"
  THEN instr_executing /\ lsu_req_dec /\ Accessing
  ELSE Resting /\ (instr_executing => failed = {})

\* The controller holds an error only in the cycle that traps.
TrapInv ==
  load_err_q \/ store_err_q => ctrl_fsm_cs = "FLUSH" /\ id_fsm_q = "FIRST_CYCLE" /\ FaultAddress

IInv == ControlTypeOK /\ PhaseInv /\ TrapInv

-----------------------------------------------------------------------------
(* Addresses.                                                              *)

LEMMA TwoWords ==
  ASSUME ControlTypeOK
  PROVE  /\ instr \in InstrType
         /\ First \in 0 .. NWords - 1 /\ Second \in 0 .. NWords - 1 /\ First # Second
         /\ instr.addr = [word |-> First, lane |-> instr.addr.lane]
<1>1. instr \in InstrType
  BY InstrsAssumption DEF ControlTypeOK
<1>2. First \in 0 .. NWords - 1 /\ instr.addr = [word |-> First, lane |-> instr.addr.lane]
  BY <1>1 DEF InstrType, First
<1>. QED  BY <1>1, <1>2, NWordsAssumption DEF First, Second, Lsu!NextWord

\* An access is split into two requests if and only if it crosses a word.
LEMMA SplitCrosses ==
  ASSUME ControlTypeOK, Lsu!data_offset = instr.addr.lane
  PROVE  Lsu!split_misaligned_access <=> Crosses(instr)
<1>1. instr.addr.lane \in 0 .. 3 /\ instr.type \in {"word", "half", "byte"}
  BY TwoWords DEF InstrType
<1>. QED  BY <1>1 DEF Lsu!split_misaligned_access, Crosses, Size

\* While the first request is on the bus the address is that of the access.
LEMMA FirstAddress ==
  ASSUME ls_fsm_cs \in {"IDLE", "WAIT_GNT_MIS", "WAIT_GNT"}, ~handle_misaligned_q
  PROVE  /\ ~Lsu!addr_incr_req_o
         /\ Lsu!data_addr = instr.addr /\ Lsu!data_offset = instr.addr.lane
         /\ Lsu!addr_last_d = instr.addr
         /\ Lsu!data_addr_o = [word |-> First, lane |-> 0]
         /\ Lsu!data_pmp_err_i <=> First \in instr.blocked
<1>1. ~Lsu!addr_incr_req_o
  BY DEF Lsu!addr_incr_req_o
<1>2. Lsu!data_addr = instr.addr
  BY <1>1 DEF Lsu!data_addr
<1>. QED  BY <1>1, <1>2 DEF Lsu!data_offset, Lsu!addr_last_d, Lsu!data_addr_o,
                           Lsu!Aligned, Lsu!data_pmp_err_i, First

\* Then it is the next word, computed from the address kept.
LEMMA SecondAddress ==
  ASSUME \/ ls_fsm_cs \in {"WAIT_RVALID_MIS", "WAIT_RVALID_MIS_GNTS_DONE"}
         \/ ls_fsm_cs = "WAIT_GNT" /\ handle_misaligned_q,
         addr_last_q = instr.addr
  PROVE  /\ Lsu!addr_incr_req_o
         /\ Lsu!data_addr = [word |-> Second, lane |-> instr.addr.lane]
         /\ Lsu!addr_last_d = AtSecond /\ Lsu!data_addr_o = AtSecond
         /\ Lsu!data_pmp_err_i <=> Second \in instr.blocked
<1>1. Lsu!addr_incr_req_o
  BY DEF Lsu!addr_incr_req_o
<1>2. Lsu!data_addr = [word |-> Second, lane |-> instr.addr.lane]
  BY <1>1 DEF Lsu!data_addr, Lsu!PlusFour, Second
<1>. QED  BY <1>1, <1>2 DEF Lsu!addr_last_d, Lsu!data_addr_o,
                           Lsu!Aligned, Lsu!data_pmp_err_i, AtSecond

-----------------------------------------------------------------------------
(* Steps of the control.                                                   *)

\* Without a response an instruction that accesses memory stays where it is,
\* and the ID stage is in its second state afterwards.
LEMMA Waits ==
  ASSUME ControlTypeOK, Clock, instr_executing, lsu_req_dec,
         ~Lsu!lsu_resp_valid_o \/ instr_first_cycle, ~exc_req_lsu
  PROVE  /\ instr' = instr /\ instr_valid_id_q' /\ id_fsm_q' = "MULTI_CYCLE"
         /\ ctrl_fsm_cs' = "DECODE" /\ ~load_err_q' /\ ~store_err_q'
         /\ ~new_instr
<1>1. stall_mem /\ ~retain_id /\ ctrl_fsm_cs = "DECODE" /\ instr_valid_id_q
  BY DEF stall_mem, retain_id, instr_executing, controller_run
<1>2. ~id_in_ready /\ ~instr_valid_clear /\ ~new_instr
  BY <1>1 DEF id_in_ready, instr_valid_clear, new_instr, flush_id
<1>3. instr' = instr /\ instr_valid_id_q'
  BY <1>1, <1>2, Zenon DEF Clock, IfIdClock
<1>4. ctrl_fsm_cs' = "DECODE"
  BY <1>1 DEF Clock, ControllerClock
<1>5. ~load_err_q' /\ ~store_err_q'
  BY DEF Clock, ControllerClock, exc_req_lsu
<1>6. id_fsm_q' = "MULTI_CYCLE"
  <2>1. CASE id_fsm_q = "FIRST_CYCLE"
    BY <2>1 DEF Clock, IdClock
  <2>2. CASE id_fsm_q = "MULTI_CYCLE"
    BY <2>2 DEF Clock, IdClock, instr_first_cycle
  <2>. QED  BY <2>1, <2>2 DEF ControlTypeOK
<1>. QED  BY <1>2, <1>3, <1>4, <1>5, <1>6

-----------------------------------------------------------------------------
(* Steps of the load/store unit and the memory, one lemma per phase.       *)

\* While ID holds its instruction the memory's queue and the errors seen
\* change with grants and answers only.
LEMMA Queues ==
  ASSUME Clock, ~new_instr
  PROVE  /\ inflight' = IF in.rvalid THEN Tail(granted) ELSE granted
         /\ failed' = IF in.rvalid /\ in.err THEN failed \cup {Head(inflight).word}
                      ELSE failed
BY DEF Clock, Memory

LEMMA ShortQueues ==
  ASSUME NEW a, NEW b
  PROVE  /\ Append(<<>>, b) = <<b>> /\ Append(<<a>>, b) = <<a, b>>
         /\ Tail(<<a>>) = <<>> /\ Tail(<<a, b>>) = <<b>> /\ Head(<<a, b>>) = a
<1>1. Append(<<>>, b) = <<b>>
  OBVIOUS
<1>2. Append(<<a>>, b) = <<a, b>>
  <2>1. <<a>> \in Seq({a, b}) /\ Len(<<a>>) = 1
    OBVIOUS
  <2>2. /\ Len(Append(<<a>>, b)) = 2 /\ Append(<<a>>, b) \in Seq({a, b})
        /\ Append(<<a>>, b)[1] = a /\ Append(<<a>>, b)[2] = b
    BY <2>1
  <2>3. /\ Len(<<a, b>>) = 2 /\ <<a, b>> \in Seq({a, b})
        /\ <<a, b>>[1] = a /\ <<a, b>>[2] = b
    OBVIOUS
  <2>4. \A i \in 1 .. 2 : Append(<<a>>, b)[i] = <<a, b>>[i]
    BY <2>2, <2>3
  <2>. QED  BY <2>2, <2>3, <2>4, SeqEqual
<1>3. Tail(<<a>>) = <<>>
  OBVIOUS
<1>4. Tail(<<a, b>>) = <<b>>
  OBVIOUS
<1>5. Head(<<a, b>>) = a
  OBVIOUS
<1>. QED  BY <1>1, <1>2, <1>3, <1>4, <1>5

LEMMA OnlyGrantedWhenAsked ==
  ASSUME ControlTypeOK, in.gnt
  PROVE  Lsu!data_req_o /\ ~Lsu!data_pmp_err_i
BY DEF ControlTypeOK, BusRules, data_req_o

LEMMA OnlyAnsweredWhenGranted ==
  ASSUME ControlTypeOK, inflight = <<>>
  PROVE  ~in.rvalid /\ ~in.err
BY DEF ControlTypeOK, BusRules

LEMMA FirstRequest ==
  ASSUME ControlTypeOK, Clock, Resting, failed = {},
         instr_executing, instr_first_cycle, lsu_req_dec
  PROVE  /\ (FirstAsked \/ BothAsked \/ (LastGranted /\ ~Crosses(instr)))'
         /\ ~in.gnt => FirstAsked' /\ instr' = instr
<1>1. /\ ls_fsm_cs = "IDLE" /\ ~handle_misaligned_q /\ ~pmp_err_q /\ inflight = <<>>
      /\ ~in.rvalid
  BY OnlyAnsweredWhenGranted DEF Resting
<1>2. ~Lsu!lsu_resp_valid_o /\ ~exc_req_lsu
  BY <1>1 DEF Lsu!lsu_resp_valid_o, exc_req_lsu, Lsu!load_err_o, Lsu!store_err_o
<1>3. instr' = instr /\ ~new_instr
  BY <1>2, Waits
<1>4. /\ Lsu!data_addr_o = [word |-> First, lane |-> 0] /\ Lsu!addr_last_d = instr.addr
      /\ Lsu!data_pmp_err_i <=> First \in instr.blocked
      /\ Lsu!split_misaligned_access <=> Crosses(instr)
  BY <1>1, FirstAddress, SplitCrosses
<1>5. Lsu!Idle /\ lsu_req
  BY <1>1 DEF Clock, Lsu!LsuClock, Lsu!WaitGntMis, Lsu!WaitRvalidMisFirst,
     Lsu!WaitRvalidMisSecond, Lsu!WaitGnt, Lsu!WaitRvalidMisGntsDone, lsu_req
<1>6. failed' = {}
  BY <1>1, <1>3, Queues
<1>7. ~lsu_err_q' /\ (pmp_err_q' <=> First \in instr.blocked)
  BY <1>4, <1>5 DEF Lsu!Idle
<1>8. CASE in.gnt
  <2>1. ~pmp_err_q'
    BY <1>4, <1>7, <1>8, OnlyGrantedWhenAsked
  <2>2. inflight' = <<[word |-> First]>>
    BY <1>1, <1>3, <1>4, <1>8, Queues DEF granted
  <2>3. handle_misaligned_q' <=> Crosses(instr)
    BY <1>4, <1>5, <1>8 DEF Lsu!Idle
  <2>4. addr_last_q' = instr.addr
    BY <1>4, <1>5, <1>8 DEF Lsu!Idle, Lsu!AddrUpdate
  <2>5. ls_fsm_cs' = IF Crosses(instr) THEN "WAIT_RVALID_MIS" ELSE "IDLE"
    BY <1>4, <1>5, <1>8 DEF Lsu!Idle
  <2>6. CASE Crosses(instr)
    BY <1>3, <1>6, <1>7, <1>8, <2>1, <2>2, <2>3, <2>4, <2>5, <2>6
       DEF BothAsked, Asked, First
  <2>7. CASE ~Crosses(instr)
    BY <1>3, <1>6, <1>7, <1>8, <2>1, <2>2, <2>3, <2>4, <2>5, <2>7
       DEF LastGranted, Asked, First
  <2>. QED  BY <2>6, <2>7
<1>9. CASE ~in.gnt
  <2>1. inflight' = <<>>
    BY <1>1, <1>3, <1>9, Queues DEF granted
  <2>2. ~handle_misaligned_q'
    BY <1>1, <1>5, <1>9 DEF Lsu!Idle
  <2>3. ls_fsm_cs' = IF Crosses(instr) THEN "WAIT_GNT_MIS" ELSE "WAIT_GNT"
    BY <1>4, <1>5, <1>9 DEF Lsu!Idle
  <2>. QED  BY <1>3, <1>6, <1>7, <2>1, <2>2, <2>3 DEF FirstAsked, First
<1>. QED  BY <1>8, <1>9

\* In a phase that does not end in a response ID keeps the instruction.
LEMMA NoResponse ==
  ASSUME ControlTypeOK, Clock, instr_executing, lsu_req_dec, ls_fsm_cs # "IDLE"
  PROVE  instr' = instr /\ ~new_instr /\ instr_valid_id_q' /\ id_fsm_q' = "MULTI_CYCLE"
         /\ ctrl_fsm_cs' = "DECODE" /\ ~load_err_q' /\ ~store_err_q'
<1>1. ~Lsu!lsu_resp_valid_o /\ ~exc_req_lsu
  BY DEF Lsu!lsu_resp_valid_o, exc_req_lsu, Lsu!load_err_o, Lsu!store_err_o
<1>. QED  BY <1>1, Waits

LEMMA FirstAskedStep ==
  ASSUME ControlTypeOK, Clock, FirstAsked, instr_executing, lsu_req_dec
  PROVE  /\ (FirstAsked \/ BothAsked \/ (LastGranted /\ ~Crosses(instr)))'
         /\ ~in.gnt /\ ~pmp_err_q => FirstAsked'
<1>1. /\ ls_fsm_cs = IF Crosses(instr) THEN "WAIT_GNT_MIS" ELSE "WAIT_GNT"
      /\ ~handle_misaligned_q /\ ~lsu_err_q /\ inflight = <<>> /\ failed = {}
      /\ pmp_err_q <=> First \in instr.blocked
  BY DEF FirstAsked
<1>2. instr' = instr /\ ~new_instr
  BY <1>1, NoResponse
<1>3. ~in.rvalid
  BY <1>1, OnlyAnsweredWhenGranted
<1>4. /\ Lsu!data_addr_o = [word |-> First, lane |-> 0] /\ Lsu!addr_last_d = instr.addr
      /\ Lsu!data_pmp_err_i <=> First \in instr.blocked
  BY <1>1, FirstAddress
<1>5. in.gnt => ~pmp_err_q
  BY <1>1, <1>4, OnlyGrantedWhenAsked
<1>6. failed' = {} /\ inflight' = IF in.gnt THEN <<[word |-> First]>> ELSE <<>>
  BY <1>1, <1>2, <1>3, <1>4, Queues DEF granted
<1>7. CASE Crosses(instr)
  <2>1. Lsu!WaitGntMis
    BY <1>1, <1>7 DEF Clock, Lsu!LsuClock, Lsu!Idle, Lsu!WaitRvalidMisFirst,
       Lsu!WaitRvalidMisSecond, Lsu!WaitGnt, Lsu!WaitRvalidMisGntsDone
  <2>2. (pmp_err_q' <=> pmp_err_q) /\ ~lsu_err_q'
    BY <1>1, <2>1 DEF Lsu!WaitGntMis
  <2>3. CASE in.gnt \/ pmp_err_q
    <3>1. ls_fsm_cs' = "WAIT_RVALID_MIS" /\ handle_misaligned_q' /\ addr_last_q' = instr.addr
      BY <1>4, <2>1, <2>3 DEF Lsu!WaitGntMis, Lsu!AddrUpdate
    <3>. QED  BY <1>1, <1>2, <1>5, <1>6, <1>7, <2>2, <2>3, <3>1 DEF BothAsked, Asked, First
  <2>4. CASE ~(in.gnt \/ pmp_err_q)
    <3>1. ls_fsm_cs' = "WAIT_GNT_MIS" /\ ~handle_misaligned_q'
      BY <1>1, <2>1, <2>4 DEF Lsu!WaitGntMis
    <3>. QED  BY <1>1, <1>2, <1>6, <1>7, <2>2, <2>4, <3>1 DEF FirstAsked, First
  <2>. QED  BY <2>3, <2>4
<1>8. CASE ~Crosses(instr)
  <2>1. Lsu!WaitGnt
    BY <1>1, <1>8 DEF Clock, Lsu!LsuClock, Lsu!Idle, Lsu!WaitRvalidMisFirst,
       Lsu!WaitRvalidMisSecond, Lsu!WaitGntMis, Lsu!WaitRvalidMisGntsDone
  <2>2. (pmp_err_q' <=> pmp_err_q) /\ ~lsu_err_q' /\ ~handle_misaligned_q'
    BY <1>1, <2>1 DEF Lsu!WaitGnt
  <2>3. CASE in.gnt \/ pmp_err_q
    <3>1. ls_fsm_cs' = "IDLE" /\ addr_last_q' = instr.addr
      BY <1>1, <1>4, <2>1, <2>3 DEF Lsu!WaitGnt, Lsu!AddrUpdate
    <3>. QED  BY <1>1, <1>2, <1>5, <1>6, <1>8, <2>2, <2>3, <3>1 DEF LastGranted, Asked, First
  <2>4. CASE ~(in.gnt \/ pmp_err_q)
    <3>1. ls_fsm_cs' = "WAIT_GNT"
      BY <2>1, <2>4 DEF Lsu!WaitGnt
    <3>. QED  BY <1>1, <1>2, <1>6, <1>8, <2>2, <2>4, <3>1 DEF FirstAsked, First
  <2>. QED  BY <2>3, <2>4
<1>. QED  BY <1>7, <1>8

\* The first answer decides whether the first part has failed.
LEMMA FirstAnswer ==
  ASSUME ControlTypeOK, Clock, ~new_instr, instr' = instr, failed = {},
         IF in.rvalid THEN Head(inflight) = [word |-> First] /\ First \notin instr.blocked
         ELSE First \in instr.blocked /\ ~in.err
  PROVE  /\ FirstFails' <=> in.err \/ First \in instr.blocked
         /\ Second \notin failed'
<1>1. failed' = IF in.rvalid /\ in.err THEN {First} ELSE {}
  BY Queues
<1>2. FirstFails' <=> First \in instr.blocked \/ First \in failed'
  BY DEF FirstFails, Fails, First
<1>. QED  BY <1>1, <1>2, TwoWords DEF ControlTypeOK, BusRules

LEMMA BothAskedStep ==
  ASSUME ControlTypeOK, Clock, BothAsked, instr_executing, lsu_req_dec
  PROVE  /\ (BothAsked \/ BothGranted \/ SecondAsked \/ LastGranted)'
         /\ ~in.gnt => (BothAsked \/ SecondAsked)'
<1>1. /\ ls_fsm_cs = "WAIT_RVALID_MIS" /\ Crosses(instr)
      /\ handle_misaligned_q /\ ~lsu_err_q /\ failed = {} /\ addr_last_q = instr.addr
      /\ inflight = (IF pmp_err_q THEN <<>> ELSE <<[word |-> First]>>)
      /\ pmp_err_q <=> First \in instr.blocked
  BY DEF BothAsked, Asked
<1>2. instr' = instr /\ ~new_instr
  BY <1>1, NoResponse
<1>3. /\ Lsu!data_addr_o.word = Second /\ Lsu!addr_last_d = AtSecond
      /\ Lsu!data_pmp_err_i <=> Second \in instr.blocked
  BY <1>1, SecondAddress DEF AtSecond
<1>4. in.gnt => Second \notin instr.blocked
  BY <1>3, OnlyGrantedWhenAsked
<1>5. CASE in.rvalid \/ pmp_err_q
  <2>1. Lsu!WaitRvalidMisFirst
    BY <1>1, <1>5 DEF Clock, Lsu!LsuClock, Lsu!Idle, Lsu!WaitGntMis,
       Lsu!WaitRvalidMisSecond, Lsu!WaitGnt, Lsu!WaitRvalidMisGntsDone
  <2>2. in.rvalid <=> ~pmp_err_q
    BY <1>1, <1>5, OnlyAnsweredWhenGranted
  <2>3. (FirstFails' <=> in.err \/ First \in instr.blocked) /\ Second \notin failed'
    <3>1. ~in.rvalid => ~in.err
      BY DEF ControlTypeOK, BusRules
    <3>2. in.rvalid => Head(inflight) = [word |-> First]
      BY <1>1, <2>2
    <3>. QED  BY <1>1, <1>2, <2>2, <3>1, <3>2, FirstAnswer
  <2>4. lsu_err_q' <=> FirstFails'
    BY <1>1, <2>1, <2>3 DEF Lsu!WaitRvalidMisFirst
  <2>5. pmp_err_q' <=> Second \in instr.blocked
    BY <1>3, <2>1 DEF Lsu!WaitRvalidMisFirst
  <2>6. Second' = Second /\ AtSecond' = AtSecond
    BY <1>2 DEF Second, AtSecond
  <2>7. CASE in.gnt
    <3>1. inflight' = <<[word |-> Second]>>
      <4>1. CASE in.rvalid
        <5>1. inflight = <<[word |-> First]>>
          BY <1>1, <2>2, <4>1
        <5>2. granted = <<[word |-> First], [word |-> Second]>>
          BY <1>3, <2>7, <5>1, ShortQueues DEF granted
        <5>. QED  BY <1>2, <4>1, <5>2, Queues, ShortQueues
      <4>2. CASE ~in.rvalid
        <5>1. inflight = <<>>
          BY <1>1, <2>2, <4>2
        <5>2. granted = <<[word |-> Second]>>
          BY <1>3, <2>7, <5>1, ShortQueues DEF granted
        <5>. QED  BY <1>2, <4>2, <5>2, Queues
      <4>. QED  BY <4>1, <4>2
    <3>2. /\ ls_fsm_cs' = "IDLE" /\ ~handle_misaligned_q'
          /\ addr_last_q' = IF in.err \/ pmp_err_q THEN instr.addr ELSE AtSecond
      BY <1>1, <1>3, <2>1, <2>7 DEF Lsu!WaitRvalidMisFirst, Lsu!AddrUpdate
    <3>3. addr_last_q' = IF FirstFails' THEN instr.addr ELSE AtSecond
      BY <1>1, <2>3, <3>2
    <3>4. ~pmp_err_q'
      BY <1>4, <2>5, <2>7
    <3>. QED  BY <1>1, <1>2, <2>3, <2>4, <2>5, <2>6, <2>7, <3>1, <3>2, <3>3, <3>4
              DEF LastGranted, Asked
  <2>8. CASE ~in.gnt
    <3>1. inflight' = <<>>
      BY <1>1, <1>2, <2>2, <2>8, Queues DEF granted
    <3>2. ls_fsm_cs' = "WAIT_GNT" /\ handle_misaligned_q' /\ addr_last_q' = instr.addr
      BY <1>1, <2>1, <2>8 DEF Lsu!WaitRvalidMisFirst, Lsu!AddrUpdate
    <3>. QED  BY <1>1, <1>2, <2>3, <2>4, <2>5, <2>6, <3>1, <3>2 DEF SecondAsked
  <2>. QED  BY <2>7, <2>8
<1>6. CASE ~(in.rvalid \/ pmp_err_q)
  <2>1. Lsu!WaitRvalidMisSecond
    BY <1>1, <1>6 DEF Clock, Lsu!LsuClock, Lsu!Idle, Lsu!WaitGntMis,
       Lsu!WaitRvalidMisFirst, Lsu!WaitGnt, Lsu!WaitRvalidMisGntsDone
  <2>2. /\ ~pmp_err_q' /\ ~lsu_err_q' /\ addr_last_q' = instr.addr
        /\ handle_misaligned_q' <=> ~in.gnt
        /\ ls_fsm_cs' = IF in.gnt THEN "WAIT_RVALID_MIS_GNTS_DONE" ELSE "WAIT_RVALID_MIS"
    BY <1>1, <1>6, <2>1 DEF Lsu!WaitRvalidMisSecond, Lsu!AddrUpdate
  <2>3. /\ failed' = {}
        /\ inflight' = IF in.gnt THEN <<[word |-> First], [word |-> Second]>>
                       ELSE <<[word |-> First]>>
    <3>1. inflight = <<[word |-> First]>> /\ ~in.rvalid
      BY <1>1, <1>6
    <3>2. granted = IF in.gnt THEN <<[word |-> First], [word |-> Second]>>
                    ELSE <<[word |-> First]>>
      BY <1>3, <3>1, ShortQueues DEF granted
    <3>. QED  BY <1>1, <1>2, <3>1, <3>2, Queues
  <2>4. First' = First /\ Second' = Second
    BY <1>2 DEF First, Second
  <2>5. CASE in.gnt
    BY <1>1, <1>2, <1>4, <1>6, <2>2, <2>3, <2>4, <2>5 DEF BothGranted
  <2>6. CASE ~in.gnt
    BY <1>1, <1>2, <1>6, <2>2, <2>3, <2>4, <2>6 DEF BothAsked, Asked
  <2>. QED  BY <2>5, <2>6
<1>. QED  BY <1>5, <1>6

LEMMA BothGrantedStep ==
  ASSUME ControlTypeOK, Clock, BothGranted, instr_executing, lsu_req_dec
  PROVE  (BothGranted \/ LastGranted)'
<1>1. /\ ls_fsm_cs = "WAIT_RVALID_MIS_GNTS_DONE" /\ Crosses(instr)
      /\ ~handle_misaligned_q /\ ~lsu_err_q /\ ~pmp_err_q
      /\ inflight = <<[word |-> First], [word |-> Second]>> /\ failed = {}
      /\ addr_last_q = instr.addr
      /\ First \notin instr.blocked /\ Second \notin instr.blocked
  BY DEF BothGranted
<1>2. instr' = instr /\ ~new_instr
  BY <1>1, NoResponse
<1>3. Lsu!addr_last_d = AtSecond /\ ~Lsu!data_pmp_err_i
  BY <1>1, SecondAddress
<1>4. ~in.gnt
  BY <1>1, OnlyGrantedWhenAsked DEF Lsu!data_req_o
<1>5. Lsu!WaitRvalidMisGntsDone
  BY <1>1 DEF Clock, Lsu!LsuClock, Lsu!Idle, Lsu!WaitGntMis,
     Lsu!WaitRvalidMisFirst, Lsu!WaitRvalidMisSecond, Lsu!WaitGnt
<1>6. First' = First /\ Second' = Second /\ AtSecond' = AtSecond
  BY <1>2 DEF First, Second, AtSecond
<1>7. ~pmp_err_q' /\ ~handle_misaligned_q'
  BY <1>1, <1>3, <1>5 DEF Lsu!WaitRvalidMisGntsDone
<1>8. CASE in.rvalid
  <2>1. inflight' = <<[word |-> Second]>>
    BY <1>1, <1>2, <1>4, <1>8, Queues DEF granted
  <2>2. (FirstFails' <=> in.err) /\ Second \notin failed'
    <3>1. Head(inflight) = [word |-> First]
      BY <1>1
    <3>. QED  BY <1>1, <1>2, <1>8, <3>1, FirstAnswer
  <2>3. /\ ls_fsm_cs' = "IDLE" /\ (lsu_err_q' <=> in.err)
        /\ addr_last_q' = IF in.err THEN instr.addr ELSE AtSecond
    BY <1>1, <1>3, <1>5, <1>8 DEF Lsu!WaitRvalidMisGntsDone, Lsu!AddrUpdate
  <2>4. addr_last_q' = IF FirstFails' THEN instr.addr ELSE AtSecond
    BY <2>2, <2>3
  <2>. QED  BY <1>1, <1>2, <1>6, <1>7, <2>1, <2>2, <2>3, <2>4 DEF LastGranted, Asked
<1>9. CASE ~in.rvalid
  <2>1. inflight' = inflight /\ failed' = {}
    BY <1>1, <1>2, <1>4, <1>9, Queues DEF granted
  <2>2. ls_fsm_cs' = ls_fsm_cs /\ ~lsu_err_q' /\ addr_last_q' = instr.addr
    BY <1>1, <1>5, <1>9 DEF Lsu!WaitRvalidMisGntsDone, Lsu!AddrUpdate
  <2>. QED  BY <1>1, <1>2, <1>6, <1>7, <2>1, <2>2 DEF BothGranted
<1>. QED  BY <1>8, <1>9

LEMMA SecondAskedStep ==
  ASSUME ControlTypeOK, Clock, SecondAsked, instr_executing, lsu_req_dec
  PROVE  /\ (SecondAsked \/ LastGranted)'
         /\ ~in.gnt /\ ~pmp_err_q => SecondAsked'
<1>1. /\ ls_fsm_cs = "WAIT_GNT" /\ Crosses(instr)
      /\ handle_misaligned_q /\ addr_last_q = instr.addr /\ inflight = <<>>
      /\ lsu_err_q <=> FirstFails
      /\ Second \notin failed /\ (pmp_err_q <=> Second \in instr.blocked)
  BY DEF SecondAsked
<1>2. instr' = instr /\ ~new_instr
  BY <1>1, NoResponse
<1>3. /\ Lsu!data_addr_o.word = Second /\ Lsu!addr_last_d = AtSecond
      /\ Lsu!data_pmp_err_i <=> Second \in instr.blocked
  BY <1>1, SecondAddress DEF AtSecond
<1>4. in.gnt => ~pmp_err_q
  BY <1>1, <1>3, OnlyGrantedWhenAsked
<1>5. ~in.rvalid
  BY <1>1, OnlyAnsweredWhenGranted
<1>6. failed' = failed /\ inflight' = IF in.gnt THEN <<[word |-> Second]>> ELSE <<>>
  BY <1>1, <1>2, <1>3, <1>5, Queues DEF granted
<1>7. Second' = Second /\ AtSecond' = AtSecond /\ (FirstFails' <=> FirstFails)
  BY <1>2, <1>6 DEF Second, AtSecond, FirstFails, Fails
<1>8. Lsu!WaitGnt
  BY <1>1 DEF Clock, Lsu!LsuClock, Lsu!Idle, Lsu!WaitRvalidMisFirst,
     Lsu!WaitRvalidMisSecond, Lsu!WaitGntMis, Lsu!WaitRvalidMisGntsDone
<1>9. (pmp_err_q' <=> pmp_err_q) /\ (lsu_err_q' <=> lsu_err_q)
  BY <1>8 DEF Lsu!WaitGnt
<1>10. CASE in.gnt \/ pmp_err_q
  <2>1. /\ ls_fsm_cs' = "IDLE" /\ ~handle_misaligned_q'
        /\ addr_last_q' = IF lsu_err_q THEN instr.addr ELSE AtSecond
    BY <1>1, <1>3, <1>8, <1>10 DEF Lsu!WaitGnt, Lsu!AddrUpdate
  <2>2. addr_last_q' = IF FirstFails' THEN instr.addr ELSE AtSecond
    BY <1>1, <1>7, <2>1
  <2>3. inflight' = IF pmp_err_q' THEN <<>> ELSE <<[word |-> Second]>>
    BY <1>4, <1>6, <1>9, <1>10
  <2>. QED  BY <1>1, <1>2, <1>6, <1>7, <1>9, <2>1, <2>2, <2>3 DEF LastGranted, Asked
<1>11. CASE ~(in.gnt \/ pmp_err_q)
  <2>1. ls_fsm_cs' = "WAIT_GNT" /\ handle_misaligned_q' /\ addr_last_q' = instr.addr
    BY <1>1, <1>8, <1>11 DEF Lsu!WaitGnt, Lsu!AddrUpdate
  <2>. QED  BY <1>1, <1>2, <1>6, <1>7, <1>9, <1>11, <2>1 DEF SecondAsked
<1>. QED  BY <1>10, <1>11

\* The last answer is waited for in the unit's idle state: there is no request.
LEMMA LastStep ==
  ASSUME ControlTypeOK, Clock, LastGranted, instr_executing, id_fsm_q = "MULTI_CYCLE"
  PROVE  /\ ~in.gnt /\ ls_fsm_cs' = "IDLE" /\ ~pmp_err_q' /\ ~handle_misaligned_q'
         /\ (lsu_err_q' <=> lsu_err_q) /\ addr_last_q' = addr_last_q
<1>1. ls_fsm_cs = "IDLE" /\ ~handle_misaligned_q
  BY DEF LastGranted
<1>2. ~lsu_req
  BY DEF lsu_req, instr_first_cycle
<1>3. ~in.gnt
  BY <1>1, <1>2, OnlyGrantedWhenAsked DEF Lsu!data_req_o
<1>4. Lsu!Idle
  BY <1>1 DEF Clock, Lsu!LsuClock, Lsu!WaitGntMis, Lsu!WaitRvalidMisFirst,
     Lsu!WaitRvalidMisSecond, Lsu!WaitGnt, Lsu!WaitRvalidMisGntsDone
<1>. QED  BY <1>1, <1>2, <1>3, <1>4 DEF Lsu!Idle, Lsu!AddrUpdate

LEMMA LastWaits ==
  ASSUME ControlTypeOK, Clock, LastGranted, instr_executing, lsu_req_dec,
         id_fsm_q = "MULTI_CYCLE", ~Lsu!lsu_resp_valid_o
  PROVE  LastGranted' /\ instr_executing' /\ lsu_req_dec' /\ id_fsm_q' = "MULTI_CYCLE"
         /\ ~load_err_q' /\ ~store_err_q'
<1>1. ~in.rvalid /\ ~pmp_err_q
  BY DEF Lsu!lsu_resp_valid_o, LastGranted
<1>2. ~exc_req_lsu
  BY DEF exc_req_lsu, Lsu!load_err_o, Lsu!store_err_o
<1>3. /\ instr' = instr /\ instr_valid_id_q' /\ id_fsm_q' = "MULTI_CYCLE" /\ ~new_instr
      /\ ctrl_fsm_cs' = "DECODE" /\ ~load_err_q' /\ ~store_err_q'
  BY <1>2, Waits
<1>4. /\ ~in.gnt /\ ls_fsm_cs' = "IDLE" /\ ~pmp_err_q' /\ ~handle_misaligned_q'
      /\ (lsu_err_q' <=> lsu_err_q) /\ addr_last_q' = addr_last_q
  BY LastStep
<1>5. inflight' = inflight /\ failed' = failed
  BY <1>1, <1>3, <1>4, Queues DEF granted
<1>6. /\ First' = First /\ Second' = Second /\ AtSecond' = AtSecond
      /\ FirstFails' <=> FirstFails
  BY <1>3, <1>5 DEF First, Second, AtSecond, FirstFails, Fails
<1>7. LastGranted'
  BY <1>1, <1>3, <1>4, <1>5, <1>6 DEF LastGranted, Asked
<1>. QED  BY <1>3, <1>7 DEF instr_executing, controller_run, lsu_req_dec

\* When the last answer comes: which parts of the access have failed.
LEMMA WhatFailed ==
  ASSUME ControlTypeOK, LastGranted, Lsu!lsu_resp_valid_o
  PROVE  /\ in.rvalid <=> ~pmp_err_q
         /\ Len(inflight) = IF in.rvalid THEN 1 ELSE 0
         /\ in.rvalid => Head(inflight).word = IF Crosses(instr) THEN Second ELSE First
         /\ Tail(inflight) = <<>> \/ ~in.rvalid
         /\ exc_req_lsu <=> lsu_err_q \/ in.err \/ pmp_err_q
         /\ lsu_err_q \/ in.err \/ pmp_err_q <=> FirstFails \/ SecondFails \/ in.err
<1>1. in.rvalid => inflight # <<>>
  BY DEF ControlTypeOK, BusRules
<1>2. inflight = IF pmp_err_q THEN <<>>
                 ELSE <<[word |-> IF Crosses(instr) THEN Second ELSE First]>>
  BY DEF LastGranted, Asked
<1>3. in.rvalid <=> ~pmp_err_q
  BY <1>1, <1>2 DEF Lsu!lsu_resp_valid_o
<1>4. /\ Len(inflight) = IF in.rvalid THEN 1 ELSE 0
      /\ in.rvalid => Head(inflight).word = IF Crosses(instr) THEN Second ELSE First
      /\ Tail(inflight) = <<>> \/ ~in.rvalid
  <2>1. CASE in.rvalid
    BY <1>2, <1>3, <2>1
  <2>2. CASE ~in.rvalid
    BY <1>2, <1>3, <2>2
  <2>. QED  BY <2>1, <2>2
<1>5. exc_req_lsu <=> lsu_err_q \/ in.err \/ pmp_err_q
  BY DEF exc_req_lsu, Lsu!load_err_o, Lsu!store_err_o, Lsu!data_or_pmp_err
<1>6. lsu_err_q \/ in.err \/ pmp_err_q <=> FirstFails \/ SecondFails \/ in.err
  <2>1. CASE Crosses(instr)
    <3>1. (lsu_err_q <=> FirstFails) /\ (pmp_err_q <=> Second \in instr.blocked \cup failed)
      BY <2>1 DEF LastGranted
    <3>. QED  BY <2>1, <3>1 DEF SecondFails, Fails, Second
  <2>2. CASE ~Crosses(instr)
    <3>1. ~lsu_err_q /\ (pmp_err_q <=> First \in instr.blocked \cup failed)
      BY <2>2 DEF LastGranted
    <3>. QED  BY <2>2, <3>1 DEF FirstFails, SecondFails, Fails, First
  <2>. QED  BY <2>1, <2>2
<1>. QED  BY <1>3, <1>4, <1>5, <1>6

\* The response ends the access: the instruction leaves ID, or stays for the one
\* cycle in which the controller traps, with the address of the failing part.
LEMMA LastAnswer ==
  ASSUME ControlTypeOK, Clock, LastGranted, instr_executing, lsu_req_dec,
         id_fsm_q = "MULTI_CYCLE", Lsu!lsu_resp_valid_o
  PROVE  /\ Resting' /\ id_fsm_q' = "FIRST_CYCLE"
         /\ instr_executing' => failed' = {}
         /\ load_err_q' \/ store_err_q' => ctrl_fsm_cs' = "FLUSH" /\ FaultAddress'
<1>1. id_fsm_q' = "FIRST_CYCLE"
  BY DEF Clock, IdClock
<1>2. /\ ~in.gnt /\ ls_fsm_cs' = "IDLE" /\ ~pmp_err_q' /\ ~handle_misaligned_q'
      /\ addr_last_q' = addr_last_q
  BY LastStep
<1>3. inflight' = <<>>
  <2>1. inflight' = IF in.rvalid THEN Tail(inflight) ELSE inflight
    BY <1>2 DEF Clock, Memory, granted
  <2>2. CASE in.rvalid
    BY <2>1, <2>2, WhatFailed
  <2>3. CASE ~in.rvalid
    BY <2>1, <2>3, WhatFailed DEF LastGranted, Asked
  <2>. QED  BY <2>2, <2>3
<1>4. Resting'
  BY <1>2, <1>3 DEF Resting
<1>5. instr_valid_id_q /\ ctrl_fsm_cs = "DECODE" /\ ~stall_mem
  BY DEF instr_executing, controller_run, stall_mem, instr_first_cycle
<1>6. CASE exc_req_lsu
  <2>1. retain_id /\ ~id_in_ready /\ ~new_instr
    BY <1>5, <1>6 DEF retain_id, id_in_ready, new_instr
  <2>2. ctrl_fsm_cs' = "FLUSH" /\ instr' = instr
    BY <2>1, Zenon DEF Clock, ControllerClock, IfIdClock
  <2>3. ~instr_executing'
    BY <2>2 DEF instr_executing, controller_run
  <2>4. failed' = IF in.rvalid /\ in.err THEN failed \cup {Head(inflight).word} ELSE failed
    BY <2>1, Queues
  <2>5. First' = First /\ Second' = Second
    BY <2>2 DEF First, Second
  <2>6. CASE Crosses(instr)
    <3>1. FirstFails' <=> FirstFails
      <4>1. in.rvalid => Head(inflight).word # First
        BY <2>6, WhatFailed, TwoWords
      <4>2. First \in failed' <=> First \in failed
        BY <2>4, <4>1
      <4>. QED  BY <2>2, <4>2 DEF FirstFails, Fails, First
    <3>2. addr_last_q = IF FirstFails THEN instr.addr ELSE AtSecond
      BY <2>6 DEF LastGranted
    <3>3. addr_last_q' = IF FirstFails' THEN instr'.addr
                         ELSE [word |-> Lsu!NextWord(instr'.addr.word), lane |-> 0]
      BY <1>2, <2>2, <3>1, <3>2 DEF AtSecond, Second
    <3>4. FaultAddress'
      BY <3>3 DEF FaultAddress, csr_mtval_o
    <3>. QED  BY <1>1, <1>4, <2>2, <2>3, <3>4
  <2>7. CASE ~Crosses(instr)
    <3>1. addr_last_q' = instr.addr
      BY <1>2, <2>7 DEF LastGranted
    <3>2. FirstFails'
      <4>1. in.err \/ First \in instr.blocked
        BY <1>6, <2>7, WhatFailed DEF LastGranted
      <4>2. in.err => in.rvalid /\ Head(inflight).word = First
        BY <2>7, WhatFailed DEF ControlTypeOK, BusRules
      <4>3. First \in instr.blocked \cup failed'
        BY <2>4, <4>1, <4>2
      <4>. QED  BY <2>2, <4>3 DEF FirstFails, Fails, First
    <3>3. FaultAddress'
      BY <2>2, <3>1, <3>2 DEF FaultAddress, csr_mtval_o
    <3>. QED  BY <1>1, <1>4, <2>2, <2>3, <3>3
  <2>. QED  BY <2>6, <2>7
<1>7. CASE ~exc_req_lsu
  <2>1. ~load_err_q' /\ ~store_err_q'
    BY <1>7 DEF Clock, ControllerClock, exc_req_lsu
  <2>2. ~retain_id /\ instr_valid_clear
    BY <1>5, <1>7 DEF retain_id, instr_valid_clear
  <2>3. instr_valid_id_q' => new_instr
    BY <2>2 DEF Clock, IfIdClock, new_instr
  <2>4. new_instr => failed' = {}
    BY DEF Clock, Memory
  <2>5. instr_executing' => failed' = {}
    BY <2>3, <2>4 DEF instr_executing
  <2>. QED  BY <1>1, <1>4, <2>1, <2>5
<1>. QED  BY <1>6, <1>7

-----------------------------------------------------------------------------
(* The invariant is inductive.                                             *)

\* A cycle without an access leaves the unit at rest.
LEMMA RestingStep ==
  ASSUME ControlTypeOK, Clock, Resting, id_fsm_q = "FIRST_CYCLE",
         ~(instr_executing /\ lsu_req_dec)
  PROVE  /\ Resting' /\ id_fsm_q' = "FIRST_CYCLE" /\ (instr_executing' => failed' = {})
         /\ ~load_err_q' /\ ~store_err_q'
<1>1. /\ ls_fsm_cs = "IDLE" /\ ~handle_misaligned_q /\ ~pmp_err_q /\ inflight = <<>>
      /\ ~in.rvalid
  BY OnlyAnsweredWhenGranted DEF Resting
<1>2. ~Lsu!lsu_resp_valid_o /\ ~exc_req_lsu /\ ~retain_id
  BY <1>1 DEF Lsu!lsu_resp_valid_o, exc_req_lsu, Lsu!load_err_o, Lsu!store_err_o, retain_id
<1>3. ~lsu_req /\ ~in.gnt
  BY <1>1, OnlyGrantedWhenAsked DEF lsu_req, Lsu!data_req_o
<1>4. Lsu!Idle
  BY <1>1 DEF Clock, Lsu!LsuClock, Lsu!WaitGntMis, Lsu!WaitRvalidMisFirst,
     Lsu!WaitRvalidMisSecond, Lsu!WaitGnt, Lsu!WaitRvalidMisGntsDone
<1>5. inflight' = <<>>
  BY <1>1, <1>3 DEF Clock, Memory, granted
<1>6. Resting'
  BY <1>1, <1>3, <1>4, <1>5 DEF Resting, Lsu!Idle
<1>7. id_fsm_q' = "FIRST_CYCLE"
  BY DEF Clock, IdClock
<1>8. ~load_err_q' /\ ~store_err_q'
  BY <1>2 DEF Clock, ControllerClock, exc_req_lsu
<1>9. instr_valid_id_q => instr_valid_clear
  BY <1>2 DEF instr_valid_clear, stall_mem, flush_id, instr_executing, controller_run,
     ControlTypeOK
<1>10. instr_valid_id_q' => new_instr
  BY <1>9 DEF Clock, IfIdClock, new_instr
<1>11. instr_executing' => failed' = {}
  BY <1>10 DEF Clock, Memory, instr_executing
<1>. QED  BY <1>6, <1>7, <1>8, <1>11

LEMMA ControlType ==
  ASSUME ControlTypeOK, Clock
  PROVE  ControlTypeOK'
<1>1. in' \in Inputs /\ BusRules'
  BY DEF Clock, Drive
<1>2. instr_valid_id_q' \in BOOLEAN
  BY DEF Clock, IfIdClock
<1>3. instr' \in Instrs
  BY DEF ControlTypeOK, Clock, IfIdClock
<1>4. id_fsm_q' \in {"FIRST_CYCLE", "MULTI_CYCLE"}
  BY DEF ControlTypeOK, Clock, IdClock
<1>5. ctrl_fsm_cs' \in {"DECODE", "FLUSH"}
  BY DEF Clock, ControllerClock
<1>6. handle_misaligned_q' \in BOOLEAN /\ pmp_err_q' \in BOOLEAN /\ lsu_err_q' \in BOOLEAN
  <2>0. Lsu!LsuClock
    BY DEF Clock
  <2>1. CASE Lsu!Idle
    BY <2>1 DEF ControlTypeOK, Lsu!Idle, Lsu!split_misaligned_access
  <2>2. CASE Lsu!WaitGntMis
    BY <2>2 DEF ControlTypeOK, Lsu!WaitGntMis
  <2>3. CASE Lsu!WaitRvalidMisFirst
    BY <2>3 DEF ControlTypeOK, Lsu!WaitRvalidMisFirst, Lsu!data_pmp_err_i
  <2>4. CASE Lsu!WaitRvalidMisSecond
    BY <2>4 DEF ControlTypeOK, Lsu!WaitRvalidMisSecond
  <2>5. CASE Lsu!WaitGnt
    BY <2>5 DEF ControlTypeOK, Lsu!WaitGnt
  <2>6. CASE Lsu!WaitRvalidMisGntsDone
    <3>1. in.err \in BOOLEAN
      BY DEF ControlTypeOK, Inputs
    <3>2. Lsu!data_pmp_err_i \in BOOLEAN
      BY DEF Lsu!data_pmp_err_i
    <3>3. CASE in.rvalid
      BY <2>6, <3>1, <3>2, <3>3, Zenon DEF ControlTypeOK, Lsu!WaitRvalidMisGntsDone
    <3>4. CASE ~in.rvalid
      BY <2>6, <3>4, Zenon DEF ControlTypeOK, Lsu!WaitRvalidMisGntsDone
    <3>. QED  BY <3>3, <3>4
  <2>. QED  BY <2>0, <2>1, <2>2, <2>3, <2>4, <2>5, <2>6 DEF Lsu!LsuClock
<1>. QED  BY <1>1, <1>2, <1>3, <1>4, <1>5, <1>6 DEF ControlTypeOK

LEMMA AccessingStep ==
  ASSUME IInv, Clock, id_fsm_q = "MULTI_CYCLE"
  PROVE  PhaseInv' /\ TrapInv'
<1>1. ControlTypeOK /\ instr_executing /\ lsu_req_dec /\ Accessing
  BY DEF IInv, PhaseInv
<1>2. CASE ls_fsm_cs # "IDLE"
  <2>1. FirstAsked \/ BothAsked \/ BothGranted \/ SecondAsked
    BY <1>1, <1>2 DEF Accessing, LastGranted
  <2>2. Accessing'
    BY <1>1, <2>1, FirstAskedStep, BothAskedStep, BothGrantedStep, SecondAskedStep
       DEF Accessing
  <2>3. /\ instr' = instr /\ instr_valid_id_q' /\ id_fsm_q' = "MULTI_CYCLE"
        /\ ctrl_fsm_cs' = "DECODE" /\ ~load_err_q' /\ ~store_err_q'
    BY <1>1, <1>2, NoResponse
  <2>4. instr_executing' /\ lsu_req_dec'
    BY <1>1, <2>3 DEF instr_executing, controller_run, lsu_req_dec
  <2>. QED  BY <2>2, <2>3, <2>4 DEF PhaseInv, TrapInv
<1>3. CASE ls_fsm_cs = "IDLE"
  <2>1. LastGranted
    BY <1>1, <1>3 DEF Accessing, FirstAsked, BothAsked, BothGranted, SecondAsked
  <2>2. CASE ~Lsu!lsu_resp_valid_o
    <3>1. LastGranted' /\ instr_executing' /\ lsu_req_dec' /\ id_fsm_q' = "MULTI_CYCLE"
          /\ ~load_err_q' /\ ~store_err_q'
      BY <1>1, <2>1, <2>2, LastWaits
    <3>. QED  BY <3>1 DEF PhaseInv, TrapInv, Accessing
  <2>3. CASE Lsu!lsu_resp_valid_o
    <3>1. /\ Resting' /\ id_fsm_q' = "FIRST_CYCLE"
          /\ instr_executing' => failed' = {}
          /\ load_err_q' \/ store_err_q' => ctrl_fsm_cs' = "FLUSH" /\ FaultAddress'
      BY <1>1, <2>1, <2>3, LastAnswer
    <3>. QED  BY <3>1 DEF PhaseInv, TrapInv
  <2>. QED  BY <2>2, <2>3
<1>. QED  BY <1>2, <1>3

LEMMA IdleStep ==
  ASSUME IInv, Clock, id_fsm_q = "FIRST_CYCLE"
  PROVE  PhaseInv' /\ TrapInv'
<1>1. ControlTypeOK /\ Resting /\ (instr_executing => failed = {})
  BY DEF IInv, PhaseInv
<1>2. CASE instr_executing /\ lsu_req_dec
  <2>1. instr_first_cycle
    BY <1>2 DEF instr_first_cycle, instr_executing
  <2>2. Accessing'
    BY <1>1, <1>2, <2>1, FirstRequest DEF Accessing
  <2>3. ~in.rvalid /\ ~Lsu!lsu_resp_valid_o
    BY <1>1, OnlyAnsweredWhenGranted DEF Resting, Lsu!lsu_resp_valid_o
  <2>4. ~exc_req_lsu
    BY <2>3 DEF exc_req_lsu, Lsu!load_err_o, Lsu!store_err_o
  <2>5. /\ instr' = instr /\ instr_valid_id_q' /\ id_fsm_q' = "MULTI_CYCLE"
        /\ ctrl_fsm_cs' = "DECODE" /\ ~load_err_q' /\ ~store_err_q'
    BY <1>1, <1>2, <2>3, <2>4, Waits
  <2>6. instr_executing' /\ lsu_req_dec'
    BY <1>2, <2>5 DEF instr_executing, controller_run, lsu_req_dec
  <2>. QED  BY <2>2, <2>5, <2>6 DEF PhaseInv, TrapInv
<1>3. CASE ~(instr_executing /\ lsu_req_dec)
  <2>1. /\ Resting' /\ id_fsm_q' = "FIRST_CYCLE" /\ (instr_executing' => failed' = {})
        /\ ~load_err_q' /\ ~store_err_q'
    BY <1>1, <1>3, RestingStep
  <2>. QED  BY <2>1 DEF PhaseInv, TrapInv
<1>. QED  BY <1>2, <1>3

LEMMA InitInv == Init => IInv
<1>. SUFFICES ASSUME Init PROVE IInv
  OBVIOUS
<1>1. ControlTypeOK
  BY DEF Init, ControlTypeOK, Lsu!LsuInit
<1>2. PhaseInv
  BY DEF Init, PhaseInv, Resting, Lsu!LsuInit
<1>3. TrapInv
  BY DEF Init, TrapInv
<1>. QED  BY <1>1, <1>2, <1>3 DEF IInv

LEMMA StepInv == IInv /\ [Clock]_vars => IInv'
<1>. SUFFICES ASSUME IInv, [Clock]_vars PROVE IInv'
  OBVIOUS
<1>1. CASE Clock
  <2>1. ControlTypeOK'
    BY <1>1, ControlType DEF IInv
  <2>2. id_fsm_q \in {"FIRST_CYCLE", "MULTI_CYCLE"}
    BY DEF IInv, ControlTypeOK
  <2>. QED  BY <1>1, <2>1, <2>2, AccessingStep, IdleStep DEF IInv
<1>2. CASE UNCHANGED vars
  BY <1>2 DEF vars, clocked, core, lsu, IInv, ControlTypeOK, BusRules, PhaseInv, TrapInv,
     Accessing, Resting, FirstAsked, BothAsked, BothGranted, SecondAsked, LastGranted,
     Asked, First, Second, AtSecond, FirstFails, Fails, FaultAddress, csr_mtval_o,
     instr_executing, controller_run, lsu_req_dec, data_req_o, Lsu!data_req_o,
     Lsu!data_pmp_err_i, Lsu!data_addr, Lsu!addr_incr_req_o, lsu_req, instr_first_cycle,
     Lsu!PlusFour
<1>. QED  BY <1>1, <1>2

\* IInv holds in every reachable state.
THEOREM Invariance == Spec => []IInv
BY InitInv, StepInv, PTL DEF Spec

-----------------------------------------------------------------------------
(* What follows from it.                                                   *)

\* A response on the data bus always finds its load or store executing in ID,
\* and the load/store unit, its queue and the bus are at rest whenever ID is
\* not in the middle of an access (NoMemResponseWithoutPendingAccess).
THEOREM ResponsesHaveOwners == Spec => []NoOrphanResponse
<1>1. IInv => NoOrphanResponse
  <2>. SUFFICES ASSUME IInv PROVE NoOrphanResponse
    OBVIOUS
  <2>1. CASE id_fsm_q = "MULTI_CYCLE"
    BY <2>1 DEF IInv, PhaseInv, NoOrphanResponse, instr_executing
  <2>2. CASE id_fsm_q # "MULTI_CYCLE"
    <3>1. Resting /\ ~in.rvalid
      BY <2>2, OnlyAnsweredWhenGranted DEF IInv, PhaseInv, Resting
    <3>. QED  BY <3>1 DEF Resting, NoOrphanResponse
  <2>. QED  BY <2>1, <2>2
<1>. QED  BY <1>1, Invariance, PTL

\* An access traps exactly when some part of it was refused by the PMP or
\* answered with an error, whichever of its two answers comes when.
THEOREM ErrorsReported == Spec => []ErrorReported
<1>1. IInv => ErrorReported
  <2>. SUFFICES ASSUME IInv, Lsu!lsu_resp_valid_o
       PROVE  exc_req_lsu <=> FirstFails \/ SecondFails \/ in.err
    BY DEF ErrorReported
  <2>1. id_fsm_q = "MULTI_CYCLE"
    <3>1. ASSUME id_fsm_q # "MULTI_CYCLE" PROVE FALSE
      BY <3>1, OnlyAnsweredWhenGranted DEF IInv, PhaseInv, Resting, Lsu!lsu_resp_valid_o
    <3>. QED  BY <3>1
  <2>2. LastGranted
    BY <2>1 DEF IInv, PhaseInv, Accessing, FirstAsked, BothAsked, BothGranted, SecondAsked,
       Lsu!lsu_resp_valid_o
  <2>. QED  BY <2>2, WhatFailed DEF IInv
<1>. QED  BY <1>1, Invariance, PTL

\* In the cycle that traps, mtval is the address of the part that failed first
\* in the order of the addresses (comment on addr_last_d).
THEOREM FaultAddressFirst == Spec => []FaultAddress
<1>1. IInv => FaultAddress
  BY DEF IInv, TrapInv, FaultAddress
<1>. QED  BY <1>1, Invariance, PTL

-----------------------------------------------------------------------------
(* A request stays on the bus until it is granted.                         *)

\* What the request consists of depends on these only.
LEMMA RequestPorts ==
  ASSUME Lsu!data_addr' = Lsu!data_addr, instr' = instr,
         handle_misaligned_q' <=> handle_misaligned_q
  PROVE  <<Lsu!data_addr_o, Lsu!data_be, instr.we, Lsu!data_wdata>>'
           = <<Lsu!data_addr_o, Lsu!data_be, instr.we, Lsu!data_wdata>>
<1>1. Lsu!data_offset' = Lsu!data_offset /\ Lsu!data_addr_o' = Lsu!data_addr_o
  BY DEF Lsu!data_offset, Lsu!data_addr_o
<1>2. Lsu!data_wdata' = Lsu!data_wdata
  BY <1>1 DEF Lsu!data_wdata
<1>3. \A n \in {0, 1, 2, 3, 4} : Lsu!Split(n)' = Lsu!Split(n)
  BY <1>1 DEF Lsu!Split
<1>4. Lsu!data_be' = Lsu!data_be
  BY <1>1, <1>3 DEF Lsu!data_be, Lsu!VecBytes
<1>. QED  BY <1>1, <1>2, <1>4

\* In each phase that asks, the address does not depend on what may change.
RequestKept ==
  /\ FirstAsked => Lsu!data_addr = instr.addr /\ ~handle_misaligned_q /\ Lsu!data_req_o
  /\ BothAsked \/ SecondAsked =>
       /\ Lsu!data_addr = [word |-> Second, lane |-> instr.addr.lane]
       /\ handle_misaligned_q /\ Lsu!data_req_o

LEMMA AskedAddress == RequestKept
<1>1. ASSUME FirstAsked
      PROVE  Lsu!data_addr = instr.addr /\ ~handle_misaligned_q /\ Lsu!data_req_o
  BY <1>1, FirstAddress DEF FirstAsked, Lsu!data_req_o
<1>2. ASSUME BothAsked \/ SecondAsked
      PROVE  /\ Lsu!data_addr = [word |-> Second, lane |-> instr.addr.lane]
             /\ handle_misaligned_q /\ Lsu!data_req_o
  BY <1>2, SecondAddress DEF BothAsked, SecondAsked, Lsu!data_req_o
<1>. QED  BY <1>1, <1>2 DEF RequestKept

LEMMA AskedAddressNext == RequestKept'
BY AskedAddress, PTL

LEMMA StableStep ==
  ASSUME IInv, Clock, data_req_o, ~in.gnt
  PROVE  /\ Lsu!data_req_o' /\ Lsu!data_addr' = Lsu!data_addr /\ instr' = instr
         /\ handle_misaligned_q' <=> handle_misaligned_q
<1>1. ControlTypeOK /\ PhaseInv /\ Lsu!data_req_o /\ ~Lsu!data_pmp_err_i
  BY DEF IInv, data_req_o
<1>2. CASE id_fsm_q # "MULTI_CYCLE"
  <2>1. Resting /\ lsu_req
    BY <1>1, <1>2 DEF PhaseInv, Resting, Lsu!data_req_o
  <2>2. FirstAsked' /\ instr' = instr
    BY <1>1, <1>2, <2>1, FirstRequest DEF PhaseInv, lsu_req
  <2>3. Lsu!data_addr = instr.addr /\ ~handle_misaligned_q
    BY <2>1, FirstAddress DEF Resting
  <2>. QED  BY <2>2, <2>3, AskedAddressNext DEF RequestKept
<1>3. CASE id_fsm_q = "MULTI_CYCLE"
  <2>1. instr_executing /\ lsu_req_dec /\ ls_fsm_cs # "IDLE" /\ Accessing
    BY <1>1, <1>3 DEF PhaseInv, Lsu!data_req_o, lsu_req, instr_first_cycle
  <2>2. instr' = instr
    BY <1>1, <2>1, NoResponse
  <2>3. CASE FirstAsked
    <3>1. ~pmp_err_q
      BY <1>1, <2>3, FirstAddress DEF FirstAsked
    <3>2. FirstAsked'
      BY <1>1, <2>1, <2>3, <3>1, FirstAskedStep
    <3>. QED  BY <2>2, <2>3, <3>2, AskedAddress, AskedAddressNext DEF RequestKept
  <2>4. CASE BothAsked \/ SecondAsked
    <3>1. SecondAsked => ~pmp_err_q
      BY <1>1, SecondAddress DEF SecondAsked
    <3>2. (BothAsked \/ SecondAsked)'
      BY <1>1, <2>1, <2>4, <3>1, BothAskedStep, SecondAskedStep
    <3>3. Second' = Second
      BY <2>2 DEF Second
    <3>. QED  BY <2>2, <2>4, <3>2, <3>3, AskedAddress, AskedAddressNext DEF RequestKept
  <2>5. ~BothGranted /\ ~LastGranted
    BY <1>1, <2>1 DEF BothGranted, LastGranted, Lsu!data_req_o
  <2>. QED  BY <2>1, <2>3, <2>4, <2>5 DEF Accessing
<1>. QED  BY <1>2, <1>3

\* OBI: a request stays, with its address, byte enables and write data, until it
\* is granted, through every change of the state of the load/store unit.
THEOREM RequestsStay == Spec => RequestStable
<1>1. ASSUME IInv, Clock, data_req_o, ~in.gnt
      PROVE  data_req_o' /\ <<Lsu!data_addr_o, Lsu!data_be, instr.we, Lsu!data_wdata>>'
                             = <<Lsu!data_addr_o, Lsu!data_be, instr.we, Lsu!data_wdata>>
  <2>1. /\ Lsu!data_req_o' /\ Lsu!data_addr' = Lsu!data_addr /\ instr' = instr
        /\ handle_misaligned_q' <=> handle_misaligned_q
    BY <1>1, StableStep
  <2>2. data_req_o'
    BY <1>1, <2>1 DEF data_req_o, Lsu!data_pmp_err_i
  <2>. QED  BY <2>1, <2>2, RequestPorts
<1>2. IInv /\ [Clock]_vars =>
        [data_req_o /\ ~in.gnt
           => data_req_o' /\ <<Lsu!data_addr_o, Lsu!data_be, instr.we, Lsu!data_wdata>>'
                             = <<Lsu!data_addr_o, Lsu!data_be, instr.we, Lsu!data_wdata>>]_vars
  BY <1>1
<1>. QED  BY <1>2, Invariance, PTL DEF Spec, RequestStable

-----------------------------------------------------------------------------
(* The bytes of stores.                                                    *)

Sizes(i) == 0 .. Size(i) - 1

\* Byte k of a store, and the bytes in its first and in its second word.
StoreByte(i, k) == [word |-> Place(i, k).word, lane |-> Place(i, k).lane, val |-> Stored(k)]
FirstPart(i)  == { StoreByte(i, k) : k \in { k \in Sizes(i) : i.addr.lane + k < 4 } }
SecondPart(i) == { StoreByte(i, k) : k \in { k \in Sizes(i) : i.addr.lane + k >= 4 } }

LEMMA Parts ==
  ASSUME ControlTypeOK
  PROVE  /\ ExpectedStore(instr) = FirstPart(instr) \cup SecondPart(instr)
         /\ ~Crosses(instr) => SecondPart(instr) = {}
<1>1. instr.addr.lane \in 0 .. 3 /\ Size(instr) \in {1, 2, 4}
  BY TwoWords DEF InstrType, Size
<1>2. ExpectedStore(instr) = FirstPart(instr) \cup SecondPart(instr)
  BY <1>1 DEF ExpectedStore, FirstPart, SecondPart, StoreByte, Sizes
<1>3. ~Crosses(instr) => SecondPart(instr) = {}
  BY <1>1 DEF Crosses, SecondPart, Sizes
<1>. QED  BY <1>2, <1>3

\* A word of bytes is rotated into place.
LEMMA Rotated ==
  ASSUME ControlTypeOK, Lsu!data_offset = instr.addr.lane,
         NEW k \in 0 .. 3, NEW l \in 0 .. 3, l = instr.addr.lane + k \/ l = instr.addr.lane + k - 4
  PROVE  Lsu!data_wdata[l] = Stored(k)
<1>1. instr.addr.lane \in 0 .. 3
  BY TwoWords DEF InstrType
<1>2. (l - instr.addr.lane) % 4 = k
  BY <1>1
<1>. QED  BY <1>2 DEF Lsu!data_wdata, Lsu!Lanes

\* The byte enables of the first request are the lanes of its part ...
LEMMA FirstLanes ==
  ASSUME ControlTypeOK, Lsu!data_offset = instr.addr.lane, ~handle_misaligned_q
  PROVE  /\ Lsu!data_be \subseteq 0 .. 3
         /\ \A l \in 0 .. 3 : l \in Lsu!data_be <=>
              \E k \in Sizes(instr) : l = instr.addr.lane + k
<1>1. instr.addr.lane \in 0 .. 3
  BY TwoWords DEF InstrType
<1>2. Lsu!VecBytes = 4
  <2>1. 3 \in 0 .. 3
    OBVIOUS
  <2>. QED  BY <2>1 DEF Lsu!VecBytes
<1>3. CASE instr.type = "word"
  <2>1. Size(instr) = 4
    BY <1>3 DEF Size
  <2>2. CASE instr.addr.lane = 0
    BY <1>3, <2>1, <2>2 DEF Lsu!data_be, Sizes
  <2>3. CASE instr.addr.lane # 0
    <3>1. Lsu!data_be = { instr.addr.lane + k : k \in 0 .. 3 } \cap (0 .. 3)
      BY <1>2, <1>3, <2>3 DEF Lsu!data_be, Lsu!Split, Lsu!Lanes
    <3>. QED  BY <2>1, <3>1 DEF Sizes
  <2>. QED  BY <2>2, <2>3
<1>4. CASE instr.type = "half"
  <2>1. Size(instr) = 2
    BY <1>4 DEF Size
  <2>2. Lsu!data_be = { instr.addr.lane + k : k \in 0 .. 1 } \cap (0 .. 3)
    BY <1>4 DEF Lsu!data_be, Lsu!Split, Lsu!Lanes
  <2>. QED  BY <2>1, <2>2 DEF Sizes
<1>5. CASE instr.type = "byte"
  <2>1. Size(instr) = 1
    BY <1>5 DEF Size
  <2>2. Lsu!data_be = {instr.addr.lane}
    BY <1>5 DEF Lsu!data_be
  <2>. QED  BY <1>1, <2>1, <2>2 DEF Sizes
<1>. QED  BY <1>3, <1>4, <1>5, TwoWords DEF InstrType

\* ... and those of the second request the lanes of the rest.
LEMMA SecondLanes ==
  ASSUME ControlTypeOK, Lsu!data_offset = instr.addr.lane, handle_misaligned_q,
         Crosses(instr)
  PROVE  /\ Lsu!data_be \subseteq 0 .. 3
         /\ \A l \in 0 .. 3 : l \in Lsu!data_be <=>
              \E k \in Sizes(instr) : l = instr.addr.lane + k - 4
<1>1. instr.addr.lane \in 0 .. 3
  BY TwoWords DEF InstrType
<1>2. Lsu!VecBytes = 4
  <2>1. 3 \in 0 .. 3
    OBVIOUS
  <2>. QED  BY <2>1 DEF Lsu!VecBytes
<1>3. CASE instr.type = "word"
  <2>1. Size(instr) = 4 /\ instr.addr.lane # 0
    BY <1>1, <1>3 DEF Size, Crosses
  <2>2. Lsu!data_be = { instr.addr.lane + k - 4 : k \in 0 .. 3 } \cap (0 .. 3)
    BY <1>2, <1>3, <2>1 DEF Lsu!data_be, Lsu!Split, Lsu!Lanes
  <2>. QED  BY <2>1, <2>2 DEF Sizes
<1>4. CASE instr.type = "half"
  <2>1. Size(instr) = 2 /\ instr.addr.lane = 3
    BY <1>1, <1>4 DEF Size, Crosses
  <2>2. Lsu!data_be = {0}
    BY <1>4 DEF Lsu!data_be
  <2>. QED  BY <2>1, <2>2 DEF Sizes
<1>5. CASE instr.type = "byte"
  BY <1>1, <1>5 DEF Size, Crosses
<1>. QED  BY <1>3, <1>4, <1>5, TwoWords DEF InstrType

LEMMA FirstBytes ==
  ASSUME ControlTypeOK, Lsu!data_offset = instr.addr.lane, ~handle_misaligned_q
  PROVE  Bytes(First, Lsu!data_be) = FirstPart(instr)
<1>1. instr.addr.lane \in 0 .. 3 /\ Sizes(instr) \subseteq 0 .. 3
  BY TwoWords DEF InstrType, Size, Sizes
<1>2. \A k \in Sizes(instr) : instr.addr.lane + k < 4 =>
        StoreByte(instr, k) = [word |-> First, lane |-> instr.addr.lane + k,
                               val |-> Lsu!data_wdata[instr.addr.lane + k]]
  BY <1>1, Rotated DEF StoreByte, Place, First
<1>3. ASSUME NEW k \in Sizes(instr), instr.addr.lane + k < 4
      PROVE  StoreByte(instr, k) \in Bytes(First, Lsu!data_be)
  <2>1. instr.addr.lane + k \in Lsu!data_be
    BY <1>1, <1>3, FirstLanes
  <2>. QED  BY <1>2, <1>3, <2>1 DEF Bytes
<1>4. ASSUME NEW l \in Lsu!data_be
      PROVE  [word |-> First, lane |-> l, val |-> Lsu!data_wdata[l]] \in FirstPart(instr)
  <2>1. l \in 0 .. 3
    BY FirstLanes
  <2>2. PICK k \in Sizes(instr) : l = instr.addr.lane + k
    BY <2>1, FirstLanes
  <2>. QED  BY <1>2, <2>1, <2>2 DEF FirstPart
<1>. QED  BY <1>3, <1>4 DEF Bytes, FirstPart

LEMMA SecondBytes ==
  ASSUME ControlTypeOK, Lsu!data_offset = instr.addr.lane, handle_misaligned_q,
         Crosses(instr)
  PROVE  Bytes(Second, Lsu!data_be) = SecondPart(instr)
<1>1. instr.addr.lane \in 0 .. 3 /\ Sizes(instr) \subseteq 0 .. 3
  BY TwoWords DEF InstrType, Size, Sizes
<1>2. \A k \in Sizes(instr) : instr.addr.lane + k >= 4 =>
        StoreByte(instr, k) = [word |-> Second, lane |-> instr.addr.lane + k - 4,
                               val |-> Lsu!data_wdata[instr.addr.lane + k - 4]]
  BY <1>1, Rotated DEF StoreByte, Place, Second
<1>3. ASSUME NEW k \in Sizes(instr), instr.addr.lane + k >= 4
      PROVE  StoreByte(instr, k) \in Bytes(Second, Lsu!data_be)
  <2>1. instr.addr.lane + k - 4 \in Lsu!data_be
    BY <1>1, <1>3, SecondLanes
  <2>. QED  BY <1>2, <1>3, <2>1 DEF Bytes
<1>4. ASSUME NEW l \in Lsu!data_be
      PROVE  [word |-> Second, lane |-> l, val |-> Lsu!data_wdata[l]] \in SecondPart(instr)
  <2>1. l \in 0 .. 3
    BY SecondLanes
  <2>2. PICK k \in Sizes(instr) : l = instr.addr.lane + k - 4
    BY <2>1, SecondLanes
  <2>3. instr.addr.lane + k >= 4
    BY <1>1, <2>1, <2>2
  <2>. QED  BY <1>2, <2>1, <2>2, <2>3 DEF SecondPart
<1>. QED  BY <1>3, <1>4 DEF Bytes, SecondPart

-----------------------------------------------------------------------------
(* What has been written in each phase, and what the unit has kept.        *)

Transferred == BothAsked \/ BothGranted \/ SecondAsked \/ LastGranted

FirstGranted  == Transferred /\ First \notin instr.blocked
SecondGranted == /\ BothGranted \/ (LastGranted /\ Crosses(instr))
                 /\ Second \notin instr.blocked

Busy == id_fsm_q = "MULTI_CYCLE"

\* A request that was granted has been written.
WrittenInv ==
  /\ written \subseteq ExpectedStore(instr)
  /\ Busy /\ instr.we /\ FirstGranted  => FirstPart(instr) \subseteq written
  /\ Busy /\ instr.we /\ SecondGranted => SecondPart(instr) \subseteq written

\* The unit keeps what it needs of the instruction, and of the first word of an
\* access that crosses all but lane 0, which no such access needs.
KeptControl ==
  /\ data_type_q = instr.type /\ (data_sign_ext_q <=> instr.sext)
  /\ data_we_q = instr.we /\ rdata_offset_q = instr.addr.lane

KeptFirst == \A l \in 1 .. 3 : rdata_q[l] = Loaded(First, l)

KeptInv ==
  /\ Busy /\ Transferred => KeptControl
  /\ Busy /\ (SecondAsked \/ (LastGranted /\ Crosses(instr))) /\ ~FirstFails /\ ~instr.we =>
       KeptFirst

DataInv == WrittenInv /\ KeptInv

-----------------------------------------------------------------------------
(* The order of the phases.                                                *)

\* A request of the first or of the second part is on the bus.
AsksFirst  == instr_executing /\ lsu_req_dec /\ IF Busy THEN FirstAsked ELSE Resting
AsksSecond == Busy /\ (BothAsked \/ SecondAsked)

Distinct ==
  /\ FirstAsked  => ~Transferred
  /\ BothAsked   => ~BothGranted /\ ~SecondAsked /\ ~LastGranted
  /\ BothGranted => ~SecondAsked /\ ~LastGranted
  /\ SecondAsked => ~LastGranted

LEMMA PhasesDistinct == Distinct
BY DEF Distinct, Transferred, FirstAsked, BothAsked, BothGranted, SecondAsked, LastGranted

LEMMA PhasesDistinctNext == Distinct'
BY PhasesDistinct, PTL

\* Whoever is granted a request has asked for one part of its access, and its
\* bytes are those of that part.
LEMMA GrantedPart ==
  ASSUME IInv, in.gnt
  PROVE  /\ AsksFirst \/ AsksSecond
         /\ AsksFirst => Bytes(Lsu!data_addr_o.word, Lsu!data_be) = FirstPart(instr)
         /\ AsksSecond => Bytes(Lsu!data_addr_o.word, Lsu!data_be) = SecondPart(instr)
<1>1. ControlTypeOK /\ PhaseInv /\ Lsu!data_req_o
  BY OnlyGrantedWhenAsked DEF IInv
<1>2. AsksFirst \/ AsksSecond
  <2>1. CASE Busy
    <3>1. ls_fsm_cs \in {"WAIT_GNT_MIS", "WAIT_RVALID_MIS", "WAIT_GNT"}
      BY <1>1, <2>1 DEF Lsu!data_req_o, lsu_req, instr_first_cycle, Busy
    <3>. QED  BY <1>1, <2>1, <3>1 DEF AsksFirst, AsksSecond, PhaseInv, Busy, Accessing,
                 BothGranted, LastGranted
  <2>2. CASE ~Busy
    BY <1>1, <2>2 DEF AsksFirst, PhaseInv, Busy, Resting, Lsu!data_req_o, lsu_req
  <2>. QED  BY <2>1, <2>2
<1>3. ASSUME AsksFirst
      PROVE  Bytes(Lsu!data_addr_o.word, Lsu!data_be) = FirstPart(instr)
  <2>1. /\ ls_fsm_cs \in {"IDLE", "WAIT_GNT_MIS", "WAIT_GNT"} /\ ~handle_misaligned_q
    BY <1>3 DEF AsksFirst, FirstAsked, Resting
  <2>. QED  BY <1>1, <2>1, FirstAddress, FirstBytes
<1>4. ASSUME AsksSecond
      PROVE  Bytes(Lsu!data_addr_o.word, Lsu!data_be) = SecondPart(instr)
  <2>1. /\ \/ ls_fsm_cs = "WAIT_RVALID_MIS"
           \/ ls_fsm_cs = "WAIT_GNT" /\ handle_misaligned_q
        /\ handle_misaligned_q /\ addr_last_q = instr.addr /\ Crosses(instr)
    BY <1>4 DEF AsksSecond, BothAsked, SecondAsked
  <2>2. Lsu!data_offset = instr.addr.lane /\ Lsu!data_addr_o.word = Second
    BY <2>1, SecondAddress DEF Lsu!data_offset, AtSecond
  <2>. QED  BY <1>1, <2>1, <2>2, SecondBytes
<1>. QED  BY <1>2, <1>3, <1>4

\* When an access is under way afterwards: where it was before.
LEMMA Order ==
  ASSUME IInv, Clock, Busy'
  PROVE  /\ instr' = instr /\ ~new_instr /\ First' = First /\ Second' = Second
         /\ instr_executing /\ lsu_req_dec
         /\ AsksFirst \/ (Busy /\ Transferred)
         /\ FirstGranted' => (Busy /\ FirstGranted) \/ (AsksFirst /\ in.gnt)
         /\ SecondGranted' => (Busy /\ SecondGranted) \/ (AsksSecond /\ in.gnt)
         /\ AsksFirst /\ Transferred' => in.gnt \/ (Busy /\ pmp_err_q)
         /\ (SecondAsked \/ (LastGranted /\ Crosses(instr)))' =>
              Busy /\ Transferred /\ Crosses(instr)
<1>1. ControlTypeOK /\ PhaseInv
  BY DEF IInv
<1>2. CASE ~Busy
  <2>1. Resting /\ (instr_executing => failed = {}) /\ id_fsm_q = "FIRST_CYCLE"
    BY <1>1, <1>2 DEF PhaseInv, Busy, ControlTypeOK
  <2>2. instr_executing /\ lsu_req_dec
    BY <1>1, <2>1, RestingStep DEF Busy
  <2>3. /\ (FirstAsked \/ BothAsked \/ (LastGranted /\ ~Crosses(instr)))'
        /\ ~in.gnt => FirstAsked' /\ instr' = instr
    BY <1>1, <2>1, <2>2, FirstRequest DEF instr_first_cycle, instr_executing
  <2>4. ~Lsu!lsu_resp_valid_o /\ ~exc_req_lsu
    BY <1>1, <2>1, OnlyAnsweredWhenGranted DEF Resting, Lsu!lsu_resp_valid_o, exc_req_lsu,
       Lsu!load_err_o, Lsu!store_err_o
  <2>5. instr' = instr /\ ~new_instr
    BY <1>1, <2>2, <2>4, Waits
  <2>6. AsksFirst
    BY <1>2, <2>1, <2>2 DEF AsksFirst
  <2>7. ~(SecondAsked \/ BothGranted \/ (LastGranted /\ Crosses(instr)))'
    BY <2>3, PhasesDistinctNext DEF Distinct, Transferred
  <2>8. ~in.gnt => ~Transferred'
    BY <2>3, PhasesDistinctNext DEF Distinct
  <2>. QED  BY <2>2, <2>5, <2>6, <2>7, <2>8
            DEF First, Second, FirstGranted, SecondGranted
<1>3. CASE Busy
  <2>1. instr_executing /\ lsu_req_dec /\ Accessing /\ id_fsm_q = "MULTI_CYCLE"
    BY <1>1, <1>3 DEF PhaseInv, Busy
  <2>2. AsksFirst \/ Transferred
    BY <1>3, <2>1 DEF AsksFirst, Accessing, Transferred
  <2>3. CASE FirstAsked
    <3>1. instr' = instr /\ ~new_instr
      BY <1>1, <2>1, <2>3, NoResponse DEF FirstAsked
    <3>2. /\ (FirstAsked \/ BothAsked \/ (LastGranted /\ ~Crosses(instr)))'
          /\ ~in.gnt /\ ~pmp_err_q => FirstAsked'
      BY <1>1, <2>1, <2>3, FirstAskedStep
    <3>3. ~(SecondAsked \/ BothGranted \/ (LastGranted /\ Crosses(instr)))'
      BY <3>2, PhasesDistinctNext DEF Distinct, Transferred
    <3>4. ~in.gnt /\ ~pmp_err_q => ~Transferred'
      BY <3>2, PhasesDistinctNext DEF Distinct
    <3>5. pmp_err_q => First \in instr.blocked
      BY <2>3 DEF FirstAsked
    <3>6. First' = First /\ Second' = Second
      BY <3>1 DEF First, Second
    <3>7. FirstGranted' => in.gnt
      BY <3>1, <3>4, <3>5, <3>6 DEF FirstGranted
    <3>. QED  BY <1>3, <2>1, <2>2, <2>3, <3>1, <3>3, <3>4, <3>6, <3>7
              DEF SecondGranted, AsksFirst
  <2>4. CASE BothAsked
    <3>1. instr' = instr /\ ~new_instr
      BY <1>1, <2>1, <2>4, NoResponse DEF BothAsked
    <3>2. ~in.gnt => (BothAsked \/ SecondAsked)'
      BY <1>1, <2>1, <2>4, BothAskedStep
    <3>3. ~in.gnt => ~BothGranted' /\ ~LastGranted'
      BY <3>2, PhasesDistinctNext DEF Distinct
    <3>4. First' = First /\ Second' = Second
      BY <3>1 DEF First, Second
    <3>5. ~AsksFirst /\ Transferred /\ AsksSecond /\ Crosses(instr)
      BY <1>3, <2>4, PhasesDistinct DEF Distinct, Transferred, AsksFirst, AsksSecond, BothAsked
    <3>. QED  BY <1>3, <2>1, <3>1, <3>3, <3>4, <3>5 DEF FirstGranted, SecondGranted
  <2>5. CASE BothGranted
    <3>1. instr' = instr /\ ~new_instr
      BY <1>1, <2>1, <2>5, NoResponse DEF BothGranted
    <3>2. First' = First /\ Second' = Second
      BY <3>1 DEF First, Second
    <3>3. ~AsksFirst /\ Transferred /\ Crosses(instr)
      BY <1>3, <2>5, PhasesDistinct DEF Distinct, Transferred, AsksFirst, BothGranted
    <3>. QED  BY <1>3, <2>1, <2>5, <3>1, <3>2, <3>3 DEF FirstGranted, SecondGranted
  <2>6. CASE SecondAsked
    <3>1. instr' = instr /\ ~new_instr
      BY <1>1, <2>1, <2>6, NoResponse DEF SecondAsked
    <3>2. ~in.gnt /\ ~pmp_err_q => SecondAsked'
      BY <1>1, <2>1, <2>6, SecondAskedStep
    <3>3. ~in.gnt /\ ~pmp_err_q => ~BothGranted' /\ ~LastGranted'
      BY <3>2, PhasesDistinctNext DEF Distinct
    <3>4. First' = First /\ Second' = Second
      BY <3>1 DEF First, Second
    <3>5. ~AsksFirst /\ Transferred /\ AsksSecond /\ Crosses(instr)
          /\ (pmp_err_q <=> Second \in instr.blocked)
      BY <1>3, <2>6, PhasesDistinct DEF Distinct, Transferred, AsksFirst, AsksSecond,
         SecondAsked
    <3>6. SecondGranted' => in.gnt
      BY <3>1, <3>3, <3>4, <3>5 DEF SecondGranted
    <3>. QED  BY <1>3, <2>1, <3>1, <3>4, <3>5, <3>6 DEF FirstGranted
  <2>7. CASE LastGranted
    <3>1. ~Lsu!lsu_resp_valid_o
      BY <1>1, <2>1, <2>7, LastAnswer DEF Busy
    <3>2. ~exc_req_lsu
      BY <3>1 DEF exc_req_lsu, Lsu!load_err_o, Lsu!store_err_o
    <3>3. instr' = instr /\ ~new_instr
      BY <1>1, <2>1, <3>1, <3>2, Waits
    <3>4. LastGranted'
      BY <1>1, <2>1, <2>7, <3>1, LastWaits
    <3>5. First' = First /\ Second' = Second /\ (Crosses(instr))' = Crosses(instr)
      BY <3>3 DEF First, Second
    <3>6. ~AsksFirst /\ Transferred
      BY <1>3, <2>7, PhasesDistinct DEF Distinct, Transferred, AsksFirst
    <3>7. ~BothGranted' /\ ~SecondAsked'
      BY <3>4, PhasesDistinctNext DEF Distinct
    <3>. QED  BY <1>3, <2>1, <2>7, <3>3, <3>5, <3>6, <3>7 DEF FirstGranted, SecondGranted
  <2>. QED  BY <2>1, <2>3, <2>4, <2>5, <2>6, <2>7 DEF Accessing
<1>. QED  BY <1>2, <1>3


-----------------------------------------------------------------------------
(* The data invariant is inductive too.                                    *)

LEMMA StepWritten ==
  ASSUME IInv, WrittenInv, Clock
  PROVE  WrittenInv'
<1>1. ControlTypeOK
  BY DEF IInv
<1>2. CASE new_instr
  <2>1. written' = {}
    BY <1>2 DEF Clock, Memory
  <2>2. ~Busy'
    BY <1>2, Order
  <2>. QED  BY <2>1, <2>2 DEF WrittenInv
<1>3. CASE ~new_instr
  <2>1. instr' = instr
    BY <1>3 DEF Clock, IfIdClock
  <2>2. written' = IF in.gnt /\ instr.we
                   THEN written \cup Bytes(Lsu!data_addr_o.word, Lsu!data_be) ELSE written
    BY <1>3 DEF Clock, Memory
  <2>3. in.gnt => \/ Bytes(Lsu!data_addr_o.word, Lsu!data_be) = FirstPart(instr)
                  \/ Bytes(Lsu!data_addr_o.word, Lsu!data_be) = SecondPart(instr)
    BY GrantedPart
  <2>4. written \subseteq written' /\ written' \subseteq ExpectedStore(instr)
    <3>1. written \subseteq ExpectedStore(instr)
      BY DEF WrittenInv
    <3>2. FirstPart(instr) \subseteq ExpectedStore(instr)
          /\ SecondPart(instr) \subseteq ExpectedStore(instr)
      BY <1>1, Parts
    <3>. QED  BY <2>2, <2>3, <3>1, <3>2
  <2>5. ASSUME Busy', instr.we, FirstGranted'
        PROVE  FirstPart(instr) \subseteq written'
    <3>1. CASE Busy /\ FirstGranted
      BY <2>4, <2>5, <3>1 DEF WrittenInv
    <3>2. CASE AsksFirst /\ in.gnt
      BY <2>2, <2>5, <3>2, GrantedPart
    <3>. QED  BY <2>5, <3>1, <3>2, Order
  <2>6. ASSUME Busy', instr.we, SecondGranted'
        PROVE  SecondPart(instr) \subseteq written'
    <3>1. CASE Busy /\ SecondGranted
      BY <2>4, <2>6, <3>1 DEF WrittenInv
    <3>2. CASE AsksSecond /\ in.gnt
      BY <2>2, <2>6, <3>2, GrantedPart
    <3>. QED  BY <2>6, <3>1, <3>2, Order
  <2>. QED  BY <2>1, <2>4, <2>5, <2>6 DEF WrittenInv
<1>. QED  BY <1>2, <1>3


LEMMA KeptControlStep ==
  ASSUME IInv, KeptInv, Clock, Busy', Transferred'
  PROVE  KeptControl'
<1>1. ControlTypeOK /\ instr' = instr
  BY Order DEF IInv
<1>2. Lsu!CtrlUpdate(TRUE) /\ Lsu!data_offset = instr.addr.lane => KeptControl'
  BY <1>1 DEF KeptControl, Lsu!CtrlUpdate
<1>3. Lsu!CtrlUpdate(FALSE) /\ KeptControl => KeptControl'
  BY <1>1 DEF KeptControl, Lsu!CtrlUpdate
<1>4. Lsu!LsuClock
  BY DEF Clock
<1>5. CASE AsksFirst
  <2>1. in.gnt \/ (Busy /\ pmp_err_q)
    BY <1>5, Order
  <2>2. Lsu!data_offset = instr.addr.lane
    BY <1>5, FirstAddress DEF AsksFirst, FirstAsked, Resting
  <2>3. CASE Busy
    <3>1. FirstAsked
      BY <1>5, <2>3 DEF AsksFirst
    <3>2. Lsu!WaitGntMis \/ Lsu!WaitGnt
      BY <1>4, <3>1 DEF FirstAsked, Lsu!LsuClock, Lsu!Idle, Lsu!WaitRvalidMisFirst,
         Lsu!WaitRvalidMisSecond, Lsu!WaitRvalidMisGntsDone
    <3>3. Lsu!CtrlUpdate(TRUE)
      BY <2>1, <3>2 DEF Lsu!WaitGntMis, Lsu!WaitGnt, Lsu!CtrlUpdate
    <3>. QED  BY <1>2, <2>2, <3>3
  <2>4. CASE ~Busy
    <3>1. ls_fsm_cs = "IDLE" /\ id_fsm_q = "FIRST_CYCLE"
      BY <1>1, <1>5, <2>4 DEF AsksFirst, Resting, Busy, ControlTypeOK
    <3>2. Lsu!Idle
      BY <1>4, <3>1 DEF Lsu!LsuClock, Lsu!WaitGntMis, Lsu!WaitRvalidMisFirst,
         Lsu!WaitRvalidMisSecond, Lsu!WaitGnt, Lsu!WaitRvalidMisGntsDone
    <3>3. lsu_req /\ in.gnt
      BY <1>5, <2>1, <2>4, <3>1 DEF lsu_req, AsksFirst, instr_first_cycle, instr_executing
    <3>4. Lsu!CtrlUpdate(TRUE)
      BY <3>2, <3>3 DEF Lsu!Idle, Lsu!CtrlUpdate
    <3>. QED  BY <1>2, <2>2, <3>4
  <2>. QED  BY <2>3, <2>4
<1>6. CASE Busy /\ Transferred
  <2>1. KeptControl
    BY <1>6 DEF KeptInv
  <2>2. CASE BothAsked \/ BothGranted
    <3>1. Lsu!WaitRvalidMisFirst \/ Lsu!WaitRvalidMisSecond \/ Lsu!WaitRvalidMisGntsDone
      BY <1>4, <2>2 DEF BothAsked, BothGranted, Lsu!LsuClock, Lsu!Idle, Lsu!WaitGntMis,
         Lsu!WaitGnt
    <3>2. Lsu!CtrlUpdate(FALSE)
      BY <3>1 DEF Lsu!WaitRvalidMisFirst, Lsu!WaitRvalidMisSecond,
         Lsu!WaitRvalidMisGntsDone
    <3>. QED  BY <1>3, <2>1, <3>2
  <2>3. CASE SecondAsked
    <3>1. Lsu!data_offset = instr.addr.lane
      BY <2>3, SecondAddress DEF SecondAsked, Lsu!data_offset
    <3>2. Lsu!WaitGnt
      BY <1>4, <2>3 DEF SecondAsked, Lsu!LsuClock, Lsu!Idle, Lsu!WaitGntMis,
         Lsu!WaitRvalidMisFirst, Lsu!WaitRvalidMisSecond, Lsu!WaitRvalidMisGntsDone
    <3>3. Lsu!CtrlUpdate(TRUE) \/ Lsu!CtrlUpdate(FALSE)
      BY <3>2 DEF Lsu!WaitGnt, Lsu!CtrlUpdate
    <3>. QED  BY <1>2, <1>3, <2>1, <3>1, <3>3
  <2>4. CASE LastGranted
    <3>1. Lsu!Idle
      BY <1>4, <2>4 DEF LastGranted, Lsu!LsuClock, Lsu!WaitGntMis,
         Lsu!WaitRvalidMisFirst, Lsu!WaitRvalidMisSecond, Lsu!WaitGnt,
         Lsu!WaitRvalidMisGntsDone
    <3>2. ~lsu_req
      BY <1>6 DEF Busy, lsu_req, instr_first_cycle
    <3>3. Lsu!CtrlUpdate(FALSE)
      BY <3>1, <3>2 DEF Lsu!Idle, Lsu!CtrlUpdate
    <3>. QED  BY <1>3, <2>1, <3>3
  <2>. QED  BY <1>6, <2>2, <2>3, <2>4 DEF Transferred
<1>. QED  BY <1>5, <1>6, Order

LEMMA KeptDataStep ==
  ASSUME IInv, KeptInv, Clock, Busy', (SecondAsked \/ (LastGranted /\ Crosses(instr)))',
         ~FirstFails', ~instr'.we
  PROVE  KeptFirst'
<1>1. /\ ControlTypeOK /\ instr' = instr /\ ~new_instr /\ First' = First
      /\ Busy /\ Transferred /\ Crosses(instr)
  BY Order DEF IInv
<1>2. Lsu!LsuClock /\ data_we_q = FALSE
  <2>1. data_we_q = instr.we /\ instr.we \in BOOLEAN
    BY <1>1, TwoWords DEF KeptInv, KeptControl, InstrType
  <2>. QED  BY <1>1, <2>1 DEF Clock
<1>3. First \notin instr.blocked
  BY <1>1 DEF FirstFails, Fails, First
<1>4. ASSUME in.rvalid, Head(inflight).word = First, Lsu!RdataUpdate(TRUE)
      PROVE  KeptFirst'
  <2>1. rdata_q' = [[l \in 0 .. 3 |-> Loaded(First, l)] EXCEPT ![0] = ZeroByte]
    BY <1>4 DEF Lsu!RdataUpdate
  <2>2. \A l \in 1 .. 3 : rdata_q'[l] = Loaded(First, l)
    BY <2>1
  <2>3. \A l \in 1 .. 3 : Loaded(First, l)' = Loaded(First, l)
    BY <1>1 DEF Loaded
  <2>. QED  BY <2>2, <2>3 DEF KeptFirst
<1>5. ls_fsm_cs' \in {"WAIT_GNT", "IDLE"}
  BY DEF SecondAsked, LastGranted
<1>6. CASE BothAsked
  <2>1. ~pmp_err_q /\ inflight = <<[word |-> First]>>
    BY <1>3, <1>6 DEF BothAsked, Asked
  <2>2. Lsu!WaitRvalidMisFirst
    <3>1. ~Lsu!WaitRvalidMisSecond
      BY <1>5 DEF Lsu!WaitRvalidMisSecond
    <3>. QED  BY <1>2, <1>6, <3>1 DEF BothAsked, Lsu!LsuClock, Lsu!Idle, Lsu!WaitGntMis,
                 Lsu!WaitGnt, Lsu!WaitRvalidMisGntsDone
  <2>3. in.rvalid /\ Lsu!RdataUpdate(TRUE)
    BY <1>2, <2>1, <2>2 DEF Lsu!WaitRvalidMisFirst
  <2>. QED  BY <1>4, <2>1, <2>3
<1>7. CASE BothGranted
  <2>1. inflight = <<[word |-> First], [word |-> Second]>>
    BY <1>7 DEF BothGranted
  <2>2. Lsu!WaitRvalidMisGntsDone
    BY <1>2, <1>7 DEF BothGranted, Lsu!LsuClock, Lsu!Idle, Lsu!WaitGntMis, Lsu!WaitGnt,
       Lsu!WaitRvalidMisFirst, Lsu!WaitRvalidMisSecond
  <2>3. in.rvalid
    BY <1>5, <2>2 DEF Lsu!WaitRvalidMisGntsDone
  <2>4. Lsu!RdataUpdate(TRUE)
    BY <1>2, <2>2, <2>3 DEF Lsu!WaitRvalidMisGntsDone
  <2>5. Head(inflight) = [word |-> First]
    BY <2>1, ShortQueues
  <2>. QED  BY <1>4, <2>3, <2>4, <2>5
<1>8. CASE SecondAsked \/ LastGranted
  <2>1. ~in.rvalid
    <3>1. CASE SecondAsked
      BY <1>1, <3>1, OnlyAnsweredWhenGranted DEF SecondAsked
    <3>2. CASE LastGranted
      BY <1>1, <3>2, LastAnswer DEF IInv, PhaseInv, Busy, LastGranted,
         Lsu!lsu_resp_valid_o
    <3>. QED  BY <1>8, <3>1, <3>2
  <2>2. failed' = failed
    BY <1>1, <2>1, Queues
  <2>3. ~FirstFails
    BY <1>1, <2>2 DEF FirstFails, Fails
  <2>4. KeptFirst
    BY <1>1, <1>8, <2>3 DEF KeptInv
  <2>5. Lsu!Idle \/ Lsu!WaitGnt
    BY <1>2, <1>8 DEF SecondAsked, LastGranted, Lsu!LsuClock, Lsu!WaitGntMis,
       Lsu!WaitRvalidMisFirst, Lsu!WaitRvalidMisSecond, Lsu!WaitRvalidMisGntsDone
  <2>6. rdata_q' = rdata_q
    BY <2>5 DEF Lsu!Idle, Lsu!WaitGnt, Lsu!RdataUpdate
  <2>. QED  BY <1>1, <2>4, <2>6 DEF KeptFirst
<1>. QED  BY <1>1, <1>6, <1>7, <1>8 DEF Transferred


LEMMA StepKept ==
  ASSUME IInv, KeptInv, Clock
  PROVE  KeptInv'
<1>1. ASSUME Busy', Transferred'
      PROVE  KeptControl'
  BY <1>1, KeptControlStep
<1>2. ASSUME Busy', (SecondAsked \/ (LastGranted /\ Crosses(instr)))', ~FirstFails',
             ~instr'.we
      PROVE  KeptFirst'
  BY <1>2, KeptDataStep
<1>. QED  BY <1>1, <1>2 DEF KeptInv

LEMMA InitData == Init => DataInv
<1>. SUFFICES ASSUME Init PROVE DataInv
  OBVIOUS
<1>1. ~Busy /\ written = {}
  BY DEF Init, Busy
<1>. QED  BY <1>1 DEF DataInv, WrittenInv, KeptInv

LEMMA StepData == IInv /\ DataInv /\ [Clock]_vars => DataInv'
<1>. SUFFICES ASSUME IInv, DataInv, [Clock]_vars PROVE DataInv'
  OBVIOUS
<1>1. CASE Clock
  BY <1>1, StepWritten, StepKept DEF DataInv
<1>2. CASE UNCHANGED vars
  <2>1. /\ instr' = instr /\ id_fsm_q' = id_fsm_q /\ written' = written
        /\ First' = First /\ Second' = Second /\ Busy' = Busy
        /\ FirstFails' = FirstFails
    BY <1>2 DEF vars, clocked, core, First, Second, Busy, FirstFails, Fails
  <2>2. /\ BothAsked' = BothAsked /\ BothGranted' = BothGranted
        /\ SecondAsked' = SecondAsked /\ LastGranted' = LastGranted
    BY <1>2, <2>1 DEF vars, clocked, core, lsu, BothAsked, BothGranted, SecondAsked,
       LastGranted, Asked, AtSecond
  <2>3. WrittenInv'
    BY <2>1, <2>2 DEF DataInv, WrittenInv, FirstGranted, SecondGranted, Transferred
  <2>4. KeptInv'
    BY <1>2, <2>1, <2>2 DEF DataInv, KeptInv, KeptControl, KeptFirst, Transferred,
       vars, clocked, lsu
  <2>. QED  BY <2>3, <2>4 DEF DataInv
<1>. QED  BY <1>1, <1>2

\* Both invariants hold in every reachable state.
THEOREM DataInvariance == Spec => [](IInv /\ DataInv)
<1>1. IInv /\ DataInv /\ [Clock]_vars => (IInv /\ DataInv)'
  BY StepInv, StepData
<1>2. Init => IInv /\ DataInv
  BY InitInv, InitData
<1>. QED  BY <1>1, <1>2, PTL DEF Spec

-----------------------------------------------------------------------------
(* What loads and stores do to the registers and to memory.                *)

\* The response of an access comes in its last phase, without any failure unless
\* it traps.
LEMMA CleanResponse ==
  ASSUME IInv, Lsu!lsu_resp_valid_o, ~(lsu_err_q \/ in.err \/ pmp_err_q)
  PROVE  /\ Busy /\ LastGranted /\ instr_executing /\ lsu_req_dec
         /\ ~FirstFails /\ ~SecondFails
         /\ in.rvalid /\ Head(inflight).word = IF Crosses(instr) THEN Second ELSE First
<1>1. Busy
  <2>1. ASSUME ~Busy PROVE FALSE
    BY <2>1, OnlyAnsweredWhenGranted
       DEF IInv, PhaseInv, Busy, Resting, Lsu!lsu_resp_valid_o
  <2>. QED  BY <2>1
<1>2. LastGranted /\ instr_executing /\ lsu_req_dec
  BY <1>1 DEF IInv, PhaseInv, Busy, Accessing, FirstAsked, BothAsked, BothGranted,
     SecondAsked, Lsu!lsu_resp_valid_o
<1>. QED  BY <1>1, <1>2, WhatFailed DEF IInv

\* A store never touches a byte outside its own, and when it completes without
\* an error every one of its bytes has been written, in one word or in two.
THEOREM StoresComplete == Spec => []StoreCorrect
<1>1. IInv /\ DataInv => StoreCorrect
  <2>. SUFFICES ASSUME IInv, DataInv PROVE StoreCorrect
    OBVIOUS
  <2>1. written \subseteq ExpectedStore(instr)
    BY DEF DataInv, WrittenInv
  <2>2. ASSUME Lsu!lsu_resp_valid_o, instr.we, ~exc_req_lsu
        PROVE  ExpectedStore(instr) \subseteq written
    <3>1. ~(lsu_err_q \/ in.err \/ pmp_err_q)
      <4>1. data_we_q \in BOOLEAN
        <5>1. Busy /\ LastGranted
          BY <2>2, OnlyAnsweredWhenGranted
             DEF IInv, PhaseInv, Busy, Resting, Accessing, FirstAsked, BothAsked,
                 BothGranted, SecondAsked, Lsu!lsu_resp_valid_o
        <5>. QED  BY <5>1, TwoWords DEF IInv, DataInv, KeptInv, KeptControl, Transferred,
                     InstrType
      <4>. QED  BY <2>2, <4>1 DEF exc_req_lsu, Lsu!load_err_o, Lsu!store_err_o,
                   Lsu!data_or_pmp_err
    <3>2. Busy /\ LastGranted /\ ~FirstFails /\ ~SecondFails
      BY <2>2, <3>1, CleanResponse
    <3>3. FirstGranted /\ (Crosses(instr) => SecondGranted)
      BY <3>2 DEF FirstGranted, SecondGranted, Transferred, FirstFails, SecondFails,
         Fails, First, Second
    <3>4. FirstPart(instr) \subseteq written
          /\ (Crosses(instr) => SecondPart(instr) \subseteq written)
      BY <2>2, <3>2, <3>3 DEF DataInv, WrittenInv
    <3>. QED  BY <3>4, Parts DEF IInv
  <2>. QED  BY <2>1, <2>2 DEF StoreCorrect
<1>. QED  BY <1>1, DataInvariance, PTL

\* The bytes of a load, when the word on the bus is the last one of the access.
LEMMA LoadedBytes ==
  ASSUME ControlTypeOK, in.rvalid,
         Head(inflight).word = IF Crosses(instr) THEN Second ELSE First,
         Crosses(instr) => KeptFirst, KeptControl
  PROVE  Lsu!lsu_rdata_o = ExpectedLoad(instr)
<1>1. instr.addr.lane \in 0 .. 3 /\ Size(instr) \in {1, 2, 4}
  BY TwoWords DEF InstrType, Size
<1>2. \A l \in 0 .. 3 : (IF in.rvalid THEN Loaded(Head(inflight).word, l) ELSE ZeroByte)
                          = Loaded(IF Crosses(instr) THEN Second ELSE First, l)
  OBVIOUS
<1>. DEFINE Got(l) == Loaded(IF Crosses(instr) THEN Second ELSE First, l)
            byte(k) == Loaded(Place(instr, k).word, Place(instr, k).lane)
<1>3. /\ data_type_q = instr.type /\ (data_sign_ext_q <=> instr.sext)
      /\ rdata_offset_q = instr.addr.lane
  BY DEF KeptControl
<1>4. \A k \in 0 .. 3 :
        byte(k) = IF instr.addr.lane + k < 4 THEN Loaded(First, instr.addr.lane + k)
                  ELSE Loaded(Second, instr.addr.lane + k - 4)
  BY <1>1 DEF Place, First, Second
<1>5. CASE instr.type = "word"
  <2>1. Size(instr) = 4 /\ (Crosses(instr) <=> instr.addr.lane # 0)
    BY <1>1, <1>5 DEF Size, Crosses
  <2>2. ASSUME NEW l \in 0 .. 3
        PROVE  (IF instr.addr.lane + l < 4 /\ instr.addr.lane # 0
                THEN rdata_q[instr.addr.lane + l]
                ELSE Got((instr.addr.lane + l) % 4)) = byte(l)
    <3>1. CASE instr.addr.lane = 0
      BY <1>4, <2>1, <3>1
    <3>2. CASE instr.addr.lane # 0 /\ instr.addr.lane + l < 4
      <4>1. rdata_q[instr.addr.lane + l] = Loaded(First, instr.addr.lane + l)
        BY <1>1, <2>1, <3>2 DEF KeptFirst
      <4>. QED  BY <1>4, <3>2, <4>1
    <3>3. CASE instr.addr.lane + l >= 4
      <4>1. (instr.addr.lane + l) % 4 = instr.addr.lane + l - 4
        BY <1>1, <3>3
      <4>2. byte(l) = Loaded(Second, instr.addr.lane + l - 4)
        BY <1>1, <1>4, <3>3
      <4>3. Crosses(instr)
        BY <1>1, <2>1, <3>3
      <4>4. Got((instr.addr.lane + l) % 4) = Loaded(Second, instr.addr.lane + l - 4)
        BY <4>1, <4>3
      <4>5. ~(instr.addr.lane + l < 4)
        BY <1>1, <3>3
      <4>. QED  BY <4>2, <4>4, <4>5
    <3>. QED  BY <1>1, <3>1, <3>2, <3>3
  <2>3. Lsu!lsu_rdata_o = [l \in 0 .. 3 |-> IF instr.addr.lane + l < 4 /\ instr.addr.lane # 0
                                            THEN rdata_q[instr.addr.lane + l]
                                            ELSE Got((instr.addr.lane + l) % 4)]
    BY <1>1, <1>2, <1>3, <1>5 DEF Lsu!lsu_rdata_o, Lsu!rdata_w_ext, Lsu!Lanes
  <2>4. ExpectedLoad(instr) = [l \in 0 .. 3 |-> byte(l)]
    BY <2>1 DEF ExpectedLoad
  <2>. QED  BY <2>2, <2>3, <2>4
<1>6. CASE instr.type = "half"
  <2>1. Size(instr) = 2 /\ (Crosses(instr) <=> instr.addr.lane = 3)
    BY <1>1, <1>6 DEF Size, Crosses
  <2>2. Lsu!half_lo = byte(0)
    <3>1. Lsu!half_lo = IF instr.addr.lane = 3 THEN rdata_q[3] ELSE Got(instr.addr.lane)
      BY <1>1, <1>2, <1>3 DEF Lsu!half_lo
    <3>2. byte(0) = Loaded(First, instr.addr.lane)
      BY <1>1, <1>4
    <3>. QED  BY <2>1, <3>1, <3>2 DEF KeptFirst
  <2>3. Lsu!half_hi = byte(1)
    <3>1. Lsu!half_hi = Got((instr.addr.lane + 1) % 4)
      BY <1>1, <1>2, <1>3 DEF Lsu!half_hi
    <3>2. byte(1) = IF instr.addr.lane = 3 THEN Loaded(Second, 0)
                    ELSE Loaded(First, instr.addr.lane + 1)
      BY <1>1, <1>4
    <3>3. (instr.addr.lane + 1) % 4 = IF instr.addr.lane = 3 THEN 0 ELSE instr.addr.lane + 1
      BY <1>1
    <3>. QED  BY <2>1, <3>1, <3>2, <3>3
  <2>4. Lsu!lsu_rdata_o = [l \in 0 .. 3 |-> CASE l = 0 -> byte(0) [] l = 1 -> byte(1)
                                              [] OTHER -> Lsu!Extend(byte(1))]
    BY <1>3, <1>6, <2>2, <2>3 DEF Lsu!lsu_rdata_o, Lsu!rdata_h_ext, Lsu!Lanes
  <2>5. ExpectedLoad(instr) = [l \in 0 .. 3 |-> IF l < 2 THEN byte(l)
                                                ELSE Lsu!Extend(byte(1))]
    BY <1>3, <2>1 DEF ExpectedLoad, Lsu!Extend
  <2>. QED  BY <2>4, <2>5
<1>7. CASE instr.type = "byte"
  <2>1. Size(instr) = 1 /\ ~Crosses(instr)
    BY <1>1, <1>7 DEF Size, Crosses
  <2>2. Got(instr.addr.lane) = byte(0)
    BY <1>1, <1>4, <2>1
  <2>3. Lsu!lsu_rdata_o = [l \in 0 .. 3 |-> IF l = 0 THEN Got(instr.addr.lane)
                                            ELSE Lsu!Extend(Got(instr.addr.lane))]
    BY <1>1, <1>2, <1>3, <1>7 DEF Lsu!lsu_rdata_o, Lsu!rdata_b_ext, Lsu!Lanes
  <2>4. ExpectedLoad(instr) = [l \in 0 .. 3 |-> IF l < 1 THEN byte(l)
                                                ELSE Lsu!Extend(byte(0))]
    BY <1>3, <2>1 DEF ExpectedLoad, Lsu!Extend
  <2>. QED  BY <2>2, <2>3, <2>4
<1>. QED  BY <1>1, <1>5, <1>6, <1>7, TwoWords DEF InstrType

\* A load writes the register file exactly with the bytes at its address, sign-
\* or zero-extended, whether they come from one word or two, and only when no
\* part of it failed.
THEOREM LoadsReturn == Spec => []LoadCorrect
<1>1. IInv /\ DataInv => LoadCorrect
  <2>. SUFFICES ASSUME IInv, DataInv, Lsu!lsu_rdata_valid_o
       PROVE  /\ instr_executing /\ lsu_req_dec /\ ~instr.we
              /\ Lsu!lsu_rdata_o = ExpectedLoad(instr)
    BY DEF LoadCorrect
  <2>1. /\ Lsu!lsu_resp_valid_o /\ ~data_we_q
        /\ ~(lsu_err_q \/ in.err \/ pmp_err_q)
    BY DEF Lsu!lsu_rdata_valid_o, Lsu!lsu_resp_valid_o, Lsu!data_or_pmp_err
  <2>2. /\ Busy /\ LastGranted /\ instr_executing /\ lsu_req_dec /\ ~FirstFails
        /\ in.rvalid /\ Head(inflight).word = IF Crosses(instr) THEN Second ELSE First
    BY <2>1, CleanResponse
  <2>3. KeptControl
    BY <2>2 DEF DataInv, KeptInv, Transferred
  <2>4. ~instr.we
    BY <2>1, <2>3 DEF KeptControl
  <2>5. Crosses(instr) => KeptFirst
    BY <2>2, <2>4 DEF DataInv, KeptInv
  <2>. QED  BY <2>2, <2>3, <2>4, <2>5, LoadedBytes DEF IInv
<1>. QED  BY <1>1, DataInvariance, PTL
=============================================================================
