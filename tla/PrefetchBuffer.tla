---------------------------- MODULE PrefetchBuffer ----------------------------
(***************************************************************************)
(* The instruction prefetch buffer (rtl/vcve2_prefetch_buffer.sv) with its *)
(* fetch FIFO, between the IF stage and an instruction memory that speaks  *)
(* the OBI protocol.  A step is one clock cycle: in holds the values the   *)
(* inputs have during the cycle, so that outputs are state functions, and  *)
(* Clock loads every register and draws the inputs of the next cycle.      *)
(*                                                                         *)
(* External: the memory grants a request in any cycle it is raised, and    *)
(* answers granted requests in order, each at least one cycle later.       *)
(* inflight is its queue of granted requests; stale marks those made       *)
(* before the last branch (the memory does not know it: a history, which   *)
(* the buffer must reproduce with its discard bits).                       *)
(***************************************************************************)
EXTENDS Integers, Sequences

CONSTANTS NUM_REQS, NWords,
          Targets,      \* half-word addresses the IF stage branches to
          Programs,     \* memory contents considered
          NoInstr       \* nothing on offer

VARIABLES
  in,                   \* inputs: req, branch, addr, ready, gnt, rvalid
  valid_req_q, discard_req_q, stored_addr_q, fetch_addr_q,
  rdata_outstanding_q, branch_discard_q,
  valid_q, rdata_q, instr_addr_q,
  mem, inflight, req_stale

regs == <<valid_req_q, discard_req_q, stored_addr_q, fetch_addr_q,
          rdata_outstanding_q, branch_discard_q,
          valid_q, rdata_q, instr_addr_q>>
clocked == <<regs, mem, inflight, req_stale>>
vars == <<in, clocked>>

PushAll == in.rvalid                         \* mutant: cancelled words are kept

\* Push a new entry to the FIFO unless a branch cancelled the request.
fifo_valid == in.rvalid /\ ~branch_discard_q[0]

\* The bus carries the oldest granted word while rvalid is high.
instr_rdata_i == IF in.rvalid THEN Head(inflight).word ELSE 0

Fifo == INSTANCE FetchFifo WITH
          clear_i     <- in.branch,
          in_valid_i  <- fifo_valid,
          in_addr_i   <- in.addr,
          in_rdata_i  <- instr_rdata_i,
          out_ready_i <- in.ready

Words == Fifo!Words
Halfs == Fifo!Halfs
Reqs  == Fifo!Reqs

ASSUME NumReqsAssumption == NUM_REQS \in Nat /\ NUM_REQS >= 2
ASSUME NWordsAssumption  == NWords \in Nat /\ NWords >= 1
ASSUME TargetsAssumption == Targets \subseteq Halfs
ASSUME ProgramsAssumption ==
  Programs \subseteq [Words -> [c0 : BOOLEAN, c1 : BOOLEAN, err : BOOLEAN]]
ASSUME NoInstrAssumption ==
  NoInstr \notin [lo : Words, hi : Words, err : BOOLEAN, plus2 : BOOLEAN]

Requests == [word : Words, stale : BOOLEAN]

Inputs == [req : BOOLEAN, branch : BOOLEAN, addr : Halfs,
           ready : BOOLEAN, gnt : BOOLEAN, rvalid : BOOLEAN]

-----------------------------------------------------------------------------
(* Requests.                                                               *)

rdata_outstanding_rev(i) == rdata_outstanding_q[NUM_REQS - 1 - i]

\* Room in the FIFO, counting the words already under way.
fifo_ready == \E i \in Reqs : ~(Fifo!busy_o[i] \/ rdata_outstanding_rev(i))

\* Mutant: a branch raises a request even if fetching is disabled.
BranchAlwaysFetches == /\ (in.req /\ fifo_ready) \/ in.branch
                       /\ ~rdata_outstanding_q[NUM_REQS - 1]

valid_new_req == /\ in.req /\ (fifo_ready \/ in.branch)
                 /\ ~rdata_outstanding_q[NUM_REQS - 1]

valid_req     == valid_req_q \/ valid_new_req
valid_req_d   == valid_req /\ ~in.gnt
DiscardForgotten == valid_req_q /\ in.branch  \* mutant: not kept until the grant
discard_req_d == valid_req_q /\ (in.branch \/ discard_req_q)

instr_req_o == valid_req

\* Mutant: a branch changes the address of a request that waits for its grant.
BranchFirst == IF in.branch THEN in.addr
               ELSE IF valid_req_q THEN stored_addr_q ELSE fetch_addr_q

instr_addr == IF valid_req_q THEN stored_addr_q
              ELSE IF in.branch THEN in.addr ELSE fetch_addr_q

instr_addr_o == Fifo!Word(instr_addr)

new_issue == valid_new_req /\ ~valid_req_q

fetch_addr_d ==
  Fifo!Plus(IF in.branch THEN in.addr ELSE 2 * Fifo!Word(fetch_addr_q),
            IF new_issue THEN 2 ELSE 0)

-----------------------------------------------------------------------------
(* The queue of outstanding requests, entry 0 the oldest.                  *)

granted(i) == valid_req /\ in.gnt /\ (i > 0 => rdata_outstanding_q[i - 1])

rdata_outstanding_n ==
  [i \in Reqs |-> granted(i) \/ rdata_outstanding_q[i]]

branch_discard_n ==
  [i \in Reqs |-> \/ granted(i) /\ discard_req_d
                  \/ in.branch /\ rdata_outstanding_q[i]
                  \/ branch_discard_q[i]]

NeverShifted(n) == n                         \* mutant: answers free no entry

Shifted(n) == [i \in Reqs |-> IF in.rvalid
                              THEN i + 1 < NUM_REQS /\ n[i + 1]
                              ELSE n[i]]

busy_o == instr_req_o \/ \E i \in Reqs : rdata_outstanding_q[i]

PrefetchClock ==
  /\ valid_req_q' = valid_req_d
  /\ discard_req_q' = discard_req_d
  /\ stored_addr_q' = IF new_issue /\ ~in.gnt THEN instr_addr ELSE stored_addr_q
  /\ fetch_addr_q' = IF in.branch \/ new_issue THEN fetch_addr_d ELSE fetch_addr_q
  /\ rdata_outstanding_q' = Shifted(rdata_outstanding_n)
  /\ branch_discard_q' = Shifted(branch_discard_n)

-----------------------------------------------------------------------------
(* The memory: what it grants in this cycle joins the queue, what it       *)
(* answers leaves it.  A branch makes stale what was requested before it;  *)
(* a request first raised in the cycle of the branch is already the new    *)
(* one.                                                                    *)

request_stale == valid_req_q /\ (req_stale \/ in.branch)

aged == [i \in 1 .. Len(inflight) |->
           [word  |-> inflight[i].word,
            stale |-> inflight[i].stale \/ in.branch]]

requested == IF in.gnt
             THEN Append(aged, [word |-> instr_addr_o, stale |-> request_stale])
             ELSE aged

Memory ==
  /\ inflight' = IF in.rvalid THEN Tail(requested) ELSE requested
  /\ req_stale' = (request_stale /\ ~in.gnt)
  /\ UNCHANGED mem

\* What the IF stage and the memory may drive in the next cycle.
BusRules == /\ in.gnt => instr_req_o
            /\ in.rvalid => inflight # <<>>

Drive == \E r, b, y, g, v \in BOOLEAN : \E a \in IF b THEN Targets ELSE {0} :
           in' = [req |-> r, branch |-> b, addr |-> a,
                  ready |-> y, gnt |-> g, rvalid |-> v]

Init ==
  /\ valid_req_q = FALSE /\ discard_req_q = FALSE
  /\ stored_addr_q = 0 /\ fetch_addr_q = 0
  /\ rdata_outstanding_q = [i \in Reqs |-> FALSE]
  /\ branch_discard_q = [i \in Reqs |-> FALSE]
  /\ Fifo!FifoInit
  /\ mem \in Programs
  /\ inflight = <<>> /\ req_stale = FALSE
  /\ in \in [req : {FALSE}, branch : {FALSE}, addr : {0},
             ready : BOOLEAN, gnt : {FALSE}, rvalid : {FALSE}]

Clock == /\ PrefetchClock
         /\ Fifo!FifoClock
         /\ Memory
         /\ Drive
         /\ BusRules'

Spec == Init /\ [][Clock]_vars
-----------------------------------------------------------------------------
(* Properties.                                                             *)

\* The types of the registers, the inputs and the memory's queue.
TypeOK ==
  /\ in \in Inputs
  /\ valid_req_q \in BOOLEAN /\ discard_req_q \in BOOLEAN
  /\ stored_addr_q \in Halfs /\ fetch_addr_q \in Halfs
  /\ rdata_outstanding_q \in [Reqs -> BOOLEAN]
  /\ branch_discard_q \in [Reqs -> BOOLEAN]
  /\ Fifo!FifoTypeOK
  /\ mem \in Programs
  /\ inflight \in Seq(Requests)
  /\ req_stale \in BOOLEAN

\* IbexFetchFifoPushFull and IbexFetchFifoPushPopFull: a word that arrives
\* and is not discarded always finds a free FIFO entry, however long the
\* IF stage stalls and however late the memory answers.
NoOverflow == Fifo!PushFull

\* The room fifo_ready computes by overlaying the FIFO's fill level with the
\* reversed outstanding queue is real: no slot is ever claimed twice, and a
\* request that waits for its grant still has a slot.
SlotsReserved ==
  /\ \A i \in Reqs : ~(Fifo!busy_o[i] /\ rdata_outstanding_rev(i))
  /\ valid_req_q => /\ ~rdata_outstanding_q[NUM_REQS - 1]
                    /\ ~valid_q[NUM_REQS]
                    /\ \A i \in Reqs : ~(valid_q[i] /\ rdata_outstanding_rev(i))

\* Valid FIFO entries and outstanding requests each form a prefix of their
\* queue (lowest_free_entry and rdata_outstanding_n rely on it).
Contiguous ==
  /\ \A i \in Fifo!Entries, j \in Fifo!Entries : j < i /\ valid_q[i] => valid_q[j]
  /\ \A i \in Reqs, j \in Reqs :
       j < i /\ rdata_outstanding_q[i] => rdata_outstanding_q[j]

\* The outstanding queue mirrors the memory's queue entry by entry, and the
\* discard bits mark exactly the requests made before the last branch, a
\* request still waiting for its grant included: no word fetched before a
\* branch (a FENCE.I is one) is taken for a new one, none is lost.
QueuesAgree ==
  /\ Len(inflight) =< NUM_REQS
  /\ \A i \in Reqs :
       /\ rdata_outstanding_q[i] <=> i < Len(inflight)
       /\ branch_discard_q[i] <=> i < Len(inflight) /\ inflight[i + 1].stale
  /\ valid_req_q => (discard_req_q <=> req_stale)

\* OBI: once raised, a request and its address stay until the grant, over
\* branches and over the fetch enable going low.
RequestStable ==
  [][instr_req_o /\ ~in.gnt
       => instr_req_o' /\ instr_addr_o' = instr_addr_o]_vars

\* The output ports towards the IF stage.
offered == IF Fifo!out_valid_o
           THEN [lo |-> Fifo!out_rdata_o.lo, hi |-> Fifo!out_rdata_o.hi,
                 err |-> Fifo!out_err_o, plus2 |-> Fifo!out_err_plus2_o]
           ELSE NoInstr

\* What the IF stage sees is the program in order from the last branch
\* target on, each instruction whole, with its own error flags, and held
\* until it is taken (FetchStream.tla).
Stream == INSTANCE FetchStream WITH
  pc    <- instr_addr_q,
  cmd   <- [branch |-> in.branch, addr |-> in.addr, ready |-> in.ready],
  offer <- offered

ImplementsStream == Stream!Spec
-----------------------------------------------------------------------------
(* Liveness.  External: the clock runs, the memory grants a request that   *)
(* stays raised and answers what it granted (no bound on when).            *)

FairSpec == /\ Spec /\ WF_clocked(Clock)
            /\ []<>(instr_req_o => in.gnt)
            /\ []<>(inflight # <<>> => in.rvalid)

\* While fetching stays enabled and no branch intervenes, an instruction is
\* offered again and again: neither the slot accounting nor the discarding
\* of the words fetched before the last branch ever starves the IF stage.
FetchProgress == <>[](in.req /\ ~in.branch) => []<>Fifo!out_valid_o

\* Once fetching is disabled the buffer becomes idle and stays idle, so that
\* the core may go to sleep (busy_o is part of core_busy_o).
Quiesces == <>[](~in.req) => <>[](~busy_o)
=============================================================================
