------------------------- MODULE PrefetchBufferProofs -------------------------
(***************************************************************************)
(* Proofs about the prefetch buffer, for every number of outstanding       *)
(* requests NUM_REQS >= 2, address width, branch behaviour and memory.     *)
(***************************************************************************)
EXTENDS PrefetchBuffer, TLAPS

USE NumReqsAssumption, NWordsAssumption
USE DEF Words, Halfs, Reqs, Fifo!Words, Fifo!Halfs, Fifo!Reqs, Fifo!Entries

\* The memory answers in order, so what was requested before the last branch
\* is at the front of its queue, and a stale request that still waits for its
\* grant is behind stale ones only.
StaleFirst ==
  /\ \A i \in 1 .. Len(inflight), j \in 1 .. Len(inflight) :
       i < j /\ inflight[j].stale => inflight[i].stale
  /\ req_stale => \A i \in 1 .. Len(inflight) : inflight[i].stale

\* The inductive invariant.
IInv == /\ TypeOK /\ BusRules
        /\ Contiguous /\ SlotsReserved /\ QueuesAgree /\ StaleFirst

-----------------------------------------------------------------------------
(* The address arithmetic stays inside the address space.                  *)

LEMMA PlusType ==
  ASSUME NEW h \in Nat, NEW n \in Nat
  PROVE  Fifo!Plus(h, n) \in Halfs
<1>1. 2 * NWords \in Nat /\ 2 * NWords > 0
  OBVIOUS
<1>2. \A a \in Nat, b \in Nat : b > 0 => a % b \in 0 .. b - 1
  OBVIOUS
<1>. QED  BY <1>1, <1>2 DEF Fifo!Plus

LEMMA WordType ==
  ASSUME NEW h \in Halfs
  PROVE  Fifo!Word(h) \in Words
BY DEF Fifo!Word

-----------------------------------------------------------------------------
(* Type correctness.                                                       *)

LEMMA InitType == Init => TypeOK
<1>. SUFFICES ASSUME Init PROVE TypeOK
  OBVIOUS
<1>1. in \in Inputs
  BY DEF Init, Inputs
<1>2. inflight \in Seq(Requests)
  BY DEF Init
<1>. QED  BY <1>1, <1>2 DEF Init, TypeOK, Fifo!FifoInit, Fifo!FifoTypeOK

LEMMA DriveType == Drive => in' \in Inputs
<1>. SUFFICES ASSUME Drive PROVE in' \in Inputs
  OBVIOUS
<1>1. PICK r \in BOOLEAN, b \in BOOLEAN, y \in BOOLEAN, g \in BOOLEAN,
           v \in BOOLEAN :
        \E a \in IF b THEN Targets ELSE {0} :
           in' = [req |-> r, branch |-> b, addr |-> a,
                  ready |-> y, gnt |-> g, rvalid |-> v]
  BY DEF Drive
<1>2. PICK a \in IF b THEN Targets ELSE {0} :
           in' = [req |-> r, branch |-> b, addr |-> a,
                  ready |-> y, gnt |-> g, rvalid |-> v]
  BY <1>1
<1>3. a \in Halfs
  BY TargetsAssumption
<1>. QED  BY <1>2, <1>3 DEF Inputs

LEMMA HeadType ==
  ASSUME TypeOK, BusRules
  PROVE  instr_rdata_i \in Words
<1>1. CASE in.rvalid
  <2>1. Head(inflight) \in Requests
    BY <1>1 DEF TypeOK, BusRules
  <2>. QED  BY <1>1, <2>1 DEF instr_rdata_i, Requests
<1>2. CASE ~in.rvalid
  BY <1>2 DEF instr_rdata_i
<1>. QED  BY <1>1, <1>2

LEMMA StepType == TypeOK /\ BusRules /\ Clock => TypeOK'
<1>. SUFFICES ASSUME TypeOK, BusRules, Clock PROVE TypeOK'
  OBVIOUS
<1>1. in' \in Inputs
  BY DriveType DEF Clock
<1>2. valid_req_q' \in BOOLEAN /\ discard_req_q' \in BOOLEAN
  BY DEF Clock, PrefetchClock, TypeOK, Inputs, valid_req_d, discard_req_d,
         valid_req, valid_new_req
<1>3. instr_addr \in Halfs
  BY DEF TypeOK, Inputs, instr_addr
<1>4. stored_addr_q' \in Halfs
  BY <1>3 DEF Clock, PrefetchClock, TypeOK
<1>5. fetch_addr_q' \in Halfs
  <2>1. 2 * Fifo!Word(fetch_addr_q) \in Nat /\ in.addr \in Nat
    BY WordType DEF TypeOK, Inputs
  <2>2. fetch_addr_d \in Halfs
    BY <2>1, PlusType DEF fetch_addr_d
  <2>. QED  BY <2>2 DEF Clock, PrefetchClock, TypeOK
<1>6. /\ rdata_outstanding_q' \in [Reqs -> BOOLEAN]
      /\ branch_discard_q' \in [Reqs -> BOOLEAN]
  <2>1. /\ \A i \in Reqs : rdata_outstanding_n[i] \in BOOLEAN
        /\ \A i \in Reqs : branch_discard_n[i] \in BOOLEAN
    BY DEF TypeOK, rdata_outstanding_n, branch_discard_n
  <2>. QED  BY <2>1 DEF Clock, PrefetchClock, Shifted
<1>7. Fifo!FifoTypeOK'
  <2>1. valid_q' \in [Fifo!Entries -> BOOLEAN]
    BY DEF Clock, Fifo!FifoClock, Fifo!valid_d
  <2>2. \A i \in Fifo!Entries : Fifo!rdata_d(i) \in Words
    BY HeadType DEF Fifo!rdata_d, TypeOK, Fifo!FifoTypeOK
  <2>3. rdata_q' \in [Fifo!Entries -> Words]
    BY <2>2 DEF Clock, Fifo!FifoClock, TypeOK, Fifo!FifoTypeOK
  <2>4. Fifo!instr_addr_d \in Halfs
    <3>1. instr_addr_q \in Nat /\ in.addr \in Halfs
      BY DEF TypeOK, Fifo!FifoTypeOK, Inputs
    <3>2. Fifo!Plus(instr_addr_q, 1) \in Halfs /\ Fifo!Plus(instr_addr_q, 2) \in Halfs
      BY <3>1, PlusType
    <3>. QED  BY <3>1, <3>2 DEF Fifo!instr_addr_d
  <2>5. instr_addr_q' \in Halfs
    BY <2>4 DEF Clock, Fifo!FifoClock, TypeOK, Fifo!FifoTypeOK
  <2>. QED  BY <2>1, <2>3, <2>5 DEF Fifo!FifoTypeOK
<1>8. mem' \in Programs
  BY DEF Clock, Memory, TypeOK
<1>9. inflight' \in Seq(Requests)
  <2>1. [word |-> instr_addr_o, stale |-> request_stale] \in Requests
    BY <1>3, WordType DEF instr_addr_o, request_stale, TypeOK, Inputs, Requests
  <2>2. aged \in Seq(Requests) /\ Len(aged) = Len(inflight)
    <3>1. \A i \in 1 .. Len(inflight) : inflight[i] \in Requests
      BY DEF TypeOK
    <3>2. \A i \in 1 .. Len(inflight) :
            [word  |-> inflight[i].word,
             stale |-> inflight[i].stale \/ in.branch] \in Requests
      BY <3>1 DEF Requests
    <3>3. Len(inflight) \in Nat
      BY DEF TypeOK
    <3>. QED  BY <3>2, <3>3 DEF aged
  <2>3. in.rvalid => Len(inflight) > 0
    BY DEF BusRules, TypeOK
  <2>4. requested \in Seq(Requests) /\ (in.rvalid => requested # <<>>)
    BY <2>1, <2>2, <2>3 DEF requested
  <2>. QED  BY <2>4 DEF Clock, Memory
<1>10. req_stale' \in BOOLEAN
  BY DEF Clock, Memory
<1>. QED  BY <1>1, <1>2, <1>4, <1>5, <1>6, <1>7, <1>8, <1>9, <1>10 DEF TypeOK
-----------------------------------------------------------------------------
(* Slots.  A request that may be raised has room: laying the reversed      *)
(* outstanding queue over the FIFO leaves a hole above the valid entries.  *)

LEMMA RoomForRequest ==
  ASSUME IInv, valid_req, ~in.branch
  PROVE  /\ ~valid_q[NUM_REQS] /\ ~rdata_outstanding_q[NUM_REQS - 1]
         /\ \A i \in Reqs : ~(valid_q[i] /\ rdata_outstanding_q[NUM_REQS - 1 - i])
<1>1. CASE valid_req_q
  BY <1>1 DEF IInv, SlotsReserved, rdata_outstanding_rev
<1>2. CASE valid_new_req
  <2>1. PICK j \in Reqs : /\ ~valid_q[j + 1]
                          /\ ~rdata_outstanding_q[NUM_REQS - 1 - j]
    BY <1>2 DEF valid_new_req, fifo_ready, Fifo!busy_o, rdata_outstanding_rev
  <2>2. ~rdata_outstanding_q[NUM_REQS - 1]
    BY <1>2 DEF valid_new_req
  <2>3. ~valid_q[NUM_REQS]
    <3>1. CASE j + 1 = NUM_REQS
      BY <2>1, <3>1
    <3>2. CASE j + 1 < NUM_REQS
      BY <2>1, <3>2 DEF IInv, Contiguous
    <3>. QED  BY <3>1, <3>2
  <2>4. ASSUME NEW i \in Reqs, valid_q[i], rdata_outstanding_q[NUM_REQS - 1 - i]
        PROVE  FALSE
    <3>1. CASE j + 1 = i
      BY <2>1, <2>4, <3>1
    <3>2. CASE j + 1 < i
      BY <2>1, <2>4, <3>2 DEF IInv, Contiguous
    <3>3. CASE j = i
      BY <2>1, <2>4, <3>3
    <3>4. CASE j > i
      <4>1. /\ NUM_REQS - 1 - j \in Reqs /\ NUM_REQS - 1 - i \in Reqs
            /\ NUM_REQS - 1 - j < NUM_REQS - 1 - i
        BY <3>4
      <4>. QED  BY <2>1, <2>4, <4>1 DEF IInv, Contiguous
    <3>. QED  BY <3>1, <3>2, <3>3, <3>4
  <2>. QED  BY <2>2, <2>3, <2>4
<1>. QED  BY <1>1, <1>2 DEF valid_req

\* A word arrives only for a request that is outstanding.
LEMMA ArrivalIsOutstanding ==
  ASSUME IInv, in.rvalid
  PROVE  rdata_outstanding_q[0]
<1>1. Len(inflight) > 0
  BY DEF IInv, BusRules, TypeOK
<1>. QED  BY <1>1 DEF IInv, QueuesAgree

\* NoOverflow is a consequence of the invariant.
LEMMA InvNoOverflow == IInv => NoOverflow
<1>. SUFFICES ASSUME IInv, fifo_valid, valid_q[NUM_REQS] PROVE FALSE
  BY DEF NoOverflow, Fifo!PushFull
<1>1. rdata_outstanding_q[0]
  BY ArrivalIsOutstanding DEF fifo_valid
<1>2. ~(Fifo!busy_o[NUM_REQS - 1] /\ rdata_outstanding_rev(NUM_REQS - 1))
  BY DEF IInv, SlotsReserved
<1>. QED  BY <1>1, <1>2 DEF Fifo!busy_o, rdata_outstanding_rev

\* Where an entry of the FIFO comes from: after a step without a branch it
\* was valid, or the entry below it was and a word arrived.
LEMMA EntryOrigin ==
  ASSUME IInv, Clock, NEW i \in Fifo!Entries, valid_q'[i]
  PROVE  /\ ~in.branch
         /\ Fifo!valid_pushed(i)
         /\ valid_q[i] \/ (in.rvalid /\ (i > 0 => valid_q[i - 1]))
<1>1. Fifo!valid_d(i)
  BY DEF Clock, Fifo!FifoClock
<1>2. ~in.branch /\ Fifo!valid_popped(i)
  BY <1>1 DEF Fifo!valid_d
<1>3. Fifo!valid_pushed(i)
  <2>1. CASE ~Fifo!pop_fifo
    BY <1>2, <2>1 DEF Fifo!valid_popped
  <2>2. CASE Fifo!pop_fifo
    <3>1. i < NUM_REQS /\ Fifo!valid_pushed(i + 1)
      BY <1>2, <2>2 DEF Fifo!valid_popped
    <3>2. i + 1 \in Fifo!Entries /\ (i + 1) - 1 = i /\ i + 1 > 0
      BY <3>1
    <3>3. valid_q[i]
      BY <3>1, <3>2 DEF Fifo!valid_pushed, Fifo!lowest_free_entry, IInv, Contiguous
    <3>. QED  BY <3>3 DEF Fifo!valid_pushed
  <2>. QED  BY <2>1, <2>2
<1>. QED  BY <1>2, <1>3 DEF Fifo!valid_pushed, Fifo!lowest_free_entry, fifo_valid

\* Where an outstanding bit comes from: the entry itself or, with the entry
\* below it, a grant, one entry further up when a word arrives.
LEMMA OutstandingOrigin ==
  ASSUME IInv, Clock, NEW i \in Reqs, rdata_outstanding_q'[i]
  PROVE  LET k == IF in.rvalid THEN i + 1 ELSE i
         IN /\ k \in Reqs
            /\ rdata_outstanding_q[k] \/ granted(k)
<1>1. rdata_outstanding_q' = Shifted(rdata_outstanding_n)
  BY DEF Clock, PrefetchClock
<1>2. CASE in.rvalid
  <2>1. i + 1 < NUM_REQS /\ rdata_outstanding_n[i + 1]
    BY <1>1, <1>2, Zenon DEF Shifted
  <2>2. i + 1 \in Reqs
    BY <2>1
  <2>. QED  BY <1>2, <2>1, <2>2 DEF rdata_outstanding_n
<1>3. CASE ~in.rvalid
  BY <1>1, <1>3 DEF Shifted, rdata_outstanding_n
<1>. QED  BY <1>2, <1>3
LEMMA StepContiguous == IInv /\ Clock => Contiguous'
<1>. SUFFICES ASSUME IInv, Clock PROVE Contiguous'
  OBVIOUS
<1>1. ASSUME NEW i \in Fifo!Entries, NEW j \in Fifo!Entries, j < i, valid_q'[i]
      PROVE  valid_q'[j]
  <2>1. ~in.branch /\ Fifo!valid_popped(i)
    BY <1>1 DEF Clock, Fifo!FifoClock, Fifo!valid_d
  <2>2. Fifo!valid_popped(j)
    <3>1. ASSUME NEW m \in Fifo!Entries, NEW n \in Fifo!Entries, n < m,
                 Fifo!valid_pushed(m)
          PROVE  Fifo!valid_pushed(n)
      <4>1. valid_q[m] => valid_q[n]
        BY <3>1 DEF IInv, Contiguous
      <4>2. m > 0 /\ m - 1 \in Fifo!Entries
        BY <3>1
      <4>3. valid_q[m - 1] => valid_q[n]
        <5>1. CASE n = m - 1
          BY <5>1
        <5>2. CASE n < m - 1
          BY <5>2, <4>2 DEF IInv, Contiguous
        <5>. QED  BY <3>1, <5>1, <5>2
      <4>. QED  BY <3>1, <4>1, <4>2, <4>3 DEF Fifo!valid_pushed, Fifo!lowest_free_entry
    <3>2. CASE Fifo!pop_fifo
      <4>1. i < NUM_REQS /\ Fifo!valid_pushed(i + 1)
        BY <2>1, <3>2 DEF Fifo!valid_popped
      <4>2. i + 1 \in Fifo!Entries /\ j + 1 \in Fifo!Entries /\ j + 1 < i + 1
            /\ j < NUM_REQS
        BY <1>1, <4>1
      <4>3. Fifo!valid_pushed(j + 1)
        BY <3>1, <4>1, <4>2
      <4>. QED  BY <3>2, <4>2, <4>3 DEF Fifo!valid_popped
    <3>3. CASE ~Fifo!pop_fifo
      BY <1>1, <2>1, <3>1, <3>3 DEF Fifo!valid_popped
    <3>. QED  BY <3>2, <3>3
  <2>. QED  BY <2>1, <2>2 DEF Clock, Fifo!FifoClock, Fifo!valid_d
<1>2. ASSUME NEW i \in Reqs, NEW j \in Reqs, j < i, rdata_outstanding_q'[i]
      PROVE  rdata_outstanding_q'[j]
  <2>. DEFINE up(n) == IF in.rvalid THEN n + 1 ELSE n
  <2>1. up(i) \in Reqs /\ (rdata_outstanding_q[up(i)] \/ granted(up(i)))
    BY <1>2, OutstandingOrigin
  <2>2. up(j) \in Reqs /\ up(j) < up(i)
    BY <1>2, <2>1
  <2>3. rdata_outstanding_q[up(j)]
    <3>1. CASE rdata_outstanding_q[up(i)]
      BY <2>1, <2>2, <3>1 DEF IInv, Contiguous
    <3>2. CASE granted(up(i))
      <4>1. rdata_outstanding_q[up(i) - 1] /\ up(i) - 1 \in Reqs
        BY <2>1, <2>2, <3>2 DEF granted
      <4>2. CASE up(j) = up(i) - 1
        BY <4>1, <4>2
      <4>3. CASE up(j) < up(i) - 1
        BY <2>2, <4>1, <4>3 DEF IInv, Contiguous
      <4>. QED  BY <2>1, <2>2, <4>2, <4>3
    <3>. QED  BY <2>1, <3>1, <3>2
  <2>4. rdata_outstanding_n[up(j)]
    BY <2>2, <2>3 DEF rdata_outstanding_n
  <2>5. rdata_outstanding_q' = Shifted(rdata_outstanding_n)
    BY DEF Clock, PrefetchClock
  <2>6. CASE in.rvalid
    <3>1. j + 1 < NUM_REQS /\ rdata_outstanding_n[j + 1]
      BY <2>2, <2>4, <2>6
    <3>. QED  BY <2>5, <2>6, <3>1, Zenon DEF Shifted
  <2>7. CASE ~in.rvalid
    <3>1. rdata_outstanding_n[j]
      BY <2>4, <2>7
    <3>. QED  BY <2>5, <2>7, <3>1, Zenon DEF Shifted
  <2>. QED  BY <2>6, <2>7
<1>. QED  BY <1>1, <1>2 DEF Contiguous

\* No slot is claimed twice after a step.  The entry and the outstanding bit
\* that would collide both moved up at most one place, together.
LEMMA StepSlots == IInv /\ Clock => SlotsReserved'
<1>. SUFFICES ASSUME IInv, Clock PROVE SlotsReserved'
  OBVIOUS
<1>1. ASSUME NEW i \in Reqs, valid_q'[i + 1], rdata_outstanding_q'[NUM_REQS - 1 - i]
      PROVE  FALSE
  <2>. DEFINE o == NUM_REQS - 1 - i
  <2>1. /\ i + 1 \in Fifo!Entries /\ (i + 1) - 1 = i /\ i + 1 > 0
        /\ o \in Reqs
    OBVIOUS
  <2>2. /\ ~in.branch
        /\ valid_q[i + 1] \/ (in.rvalid /\ valid_q[i])
    BY <1>1, <2>1, EntryOrigin
  <2>3. valid_q[i]
    BY <2>1, <2>2 DEF IInv, Contiguous
  <2>4. CASE in.rvalid
    <3>1. o + 1 \in Reqs /\ (rdata_outstanding_q[o + 1] \/ granted(o + 1))
      BY <1>1, <2>1, <2>4, OutstandingOrigin
    <3>2. i > 0 /\ i - 1 \in Reqs /\ NUM_REQS - 1 - (i - 1) = o + 1 /\ (i - 1) + 1 = i
      BY <3>1
    <3>3. ~rdata_outstanding_q[o + 1]
      BY <2>3, <3>2 DEF IInv, SlotsReserved, Fifo!busy_o, rdata_outstanding_rev
    <3>4. granted(o + 1)
      BY <3>1, <3>3
    <3>5. valid_req /\ rdata_outstanding_q[o]
      BY <2>1, <3>4 DEF granted
    <3>. QED  BY <2>2, <2>3, <3>5, RoomForRequest
  <2>5. CASE ~in.rvalid
    <3>1. valid_q[i + 1]
      BY <2>2, <2>5
    <3>2. ~rdata_outstanding_q[o]
      BY <3>1 DEF IInv, SlotsReserved, Fifo!busy_o, rdata_outstanding_rev
    <3>3. granted(o)
      BY <1>1, <2>1, <2>5, <3>2, OutstandingOrigin
    <3>4. valid_req
      BY <3>3 DEF granted
    <3>5. CASE o = 0
      BY <2>2, <3>1, <3>4, <3>5, RoomForRequest
    <3>6. CASE o > 0
      <4>1. i + 1 \in Reqs /\ o - 1 = NUM_REQS - 1 - (i + 1)
        BY <3>6
      <4>2. rdata_outstanding_q[o - 1]
        BY <3>3, <3>6 DEF granted
      <4>. QED  BY <2>2, <3>1, <3>4, <4>1, <4>2, RoomForRequest
    <3>. QED  BY <2>1, <3>5, <3>6
  <2>. QED  BY <2>4, <2>5
<1>2. ASSUME valid_req_q'
      PROVE  /\ ~rdata_outstanding_q'[NUM_REQS - 1]
             /\ ~valid_q'[NUM_REQS]
             /\ \A i \in Reqs : ~(valid_q'[i] /\ rdata_outstanding_q'[NUM_REQS - 1 - i])
  <2>1. valid_req /\ ~in.gnt
    BY <1>2 DEF Clock, PrefetchClock, valid_req_d
  <2>2. \A k \in Reqs : ~granted(k)
    BY <2>1 DEF granted
  <2>3. ~rdata_outstanding_q[NUM_REQS - 1]
    BY <2>1 DEF valid_req, valid_new_req, IInv, SlotsReserved
  <2>4. ~rdata_outstanding_q'[NUM_REQS - 1]
    BY <2>2, <2>3, OutstandingOrigin
  <2>5. ~valid_q'[NUM_REQS]
    <3>. SUFFICES ASSUME valid_q'[NUM_REQS] PROVE FALSE
      OBVIOUS
    <3>1. ~in.branch /\ (valid_q[NUM_REQS] \/ (in.rvalid /\ valid_q[NUM_REQS - 1]))
      BY EntryOrigin
    <3>2. in.rvalid /\ valid_q[NUM_REQS - 1]
      BY <2>1, <3>1, RoomForRequest
    <3>3. ~rdata_outstanding_q[NUM_REQS - 1 - (NUM_REQS - 1)]
      BY <2>1, <3>1, <3>2, RoomForRequest
    <3>. QED  BY <3>2, <3>3, ArrivalIsOutstanding
  <2>6. ASSUME NEW i \in Reqs, valid_q'[i], rdata_outstanding_q'[NUM_REQS - 1 - i]
        PROVE  FALSE
    <3>1. /\ ~in.branch
          /\ valid_q[i] \/ (in.rvalid /\ (i > 0 => valid_q[i - 1]))
      BY <2>6, EntryOrigin
    <3>2. CASE in.rvalid
      <4>1. NUM_REQS - i \in Reqs /\ rdata_outstanding_q[NUM_REQS - i]
        <5>1. NUM_REQS - 1 - i \in Reqs /\ (NUM_REQS - 1 - i) + 1 = NUM_REQS - i
          OBVIOUS
        <5>. QED  BY <2>2, <2>6, <3>2, <5>1, OutstandingOrigin
      <4>2. i > 0 /\ i - 1 \in Reqs /\ NUM_REQS - 1 - (i - 1) = NUM_REQS - i
        BY <4>1
      <4>3. valid_q[i - 1]
        BY <3>1, <4>2 DEF IInv, Contiguous
      <4>. QED  BY <2>1, <3>1, <4>1, <4>2, <4>3, RoomForRequest
    <3>3. CASE ~in.rvalid
      <4>1. rdata_outstanding_q[NUM_REQS - 1 - i]
        BY <2>2, <2>6, <3>3, OutstandingOrigin
      <4>. QED  BY <2>1, <3>1, <3>3, <4>1, RoomForRequest
    <3>. QED  BY <3>2, <3>3
  <2>. QED  BY <2>4, <2>5, <2>6
<1>. QED  BY <1>1, <1>2 DEF SlotsReserved, Fifo!busy_o, rdata_outstanding_rev
-----------------------------------------------------------------------------
(* The queue of the buffer against the queue of the memory.                *)

\* The memory's queue of this cycle before the answer is taken off it.
LEMMA RequestedQueue ==
  ASSUME IInv
  PROVE  LET L == Len(inflight) IN
         /\ L \in Nat
         /\ requested \in Seq(Requests)
         /\ Len(requested) = IF in.gnt THEN L + 1 ELSE L
         /\ \A i \in 1 .. L :
              requested[i].stale <=> inflight[i].stale \/ in.branch
         /\ in.gnt => (requested[L + 1].stale <=> request_stale)
         /\ in.rvalid => L > 0
<1>. DEFINE L == Len(inflight)
            new == [word |-> instr_addr_o, stale |-> request_stale]
<1>1. L \in Nat /\ \A i \in 1 .. L : inflight[i] \in Requests
  BY DEF IInv, TypeOK
<1>2. new \in Requests
  <2>1. instr_addr \in Halfs
    BY DEF IInv, TypeOK, Inputs, instr_addr
  <2>. QED  BY <2>1, WordType DEF instr_addr_o, request_stale, IInv, TypeOK,
                                  Inputs, Requests
<1>3. /\ aged \in Seq(Requests) /\ Len(aged) = L
      /\ \A i \in 1 .. L : aged[i].stale <=> inflight[i].stale \/ in.branch
  <2>1. \A i \in 1 .. L : [word  |-> inflight[i].word,
                           stale |-> inflight[i].stale \/ in.branch] \in Requests
    BY <1>1 DEF Requests
  <2>2. aged \in Seq(Requests) /\ Len(aged) = L
    BY <1>1, <2>1 DEF aged
  <2>3. ASSUME NEW i \in 1 .. L
        PROVE  aged[i].stale <=> inflight[i].stale \/ in.branch
    <3>1. aged[i] = [word  |-> inflight[i].word,
                     stale |-> inflight[i].stale \/ in.branch]
      BY <2>3, Zenon DEF aged
    <3>2. aged[i].stale = (inflight[i].stale \/ in.branch)
      BY <3>1
    <3>. QED  BY <3>2, Zenon
  <2>. QED  BY <2>2, <2>3
<1>4. in.rvalid => L > 0
  BY <1>1 DEF IInv, BusRules, TypeOK
<1>5. CASE in.gnt
  <2>1. requested = Append(aged, new)
    BY <1>5 DEF requested
  <2>. HIDE DEF new, aged
  <2>2. /\ requested \in Seq(Requests) /\ Len(requested) = L + 1
        /\ requested[L + 1] = new
        /\ \A i \in 1 .. L : requested[i] = aged[i]
    BY <1>1, <1>2, <1>3, <2>1
  <2>3. new.stale <=> request_stale
    BY DEF new
  <2>. QED  BY <1>1, <1>3, <1>4, <1>5, <2>2, <2>3
<1>6. CASE ~in.gnt
  <2>1. requested = aged
    BY <1>6 DEF requested
  <2>. QED  BY <1>1, <1>3, <1>4, <1>6, <2>1
<1>. QED  BY <1>5, <1>6

LEMMA NextQueue ==
  ASSUME IInv, Clock
  PROVE  /\ Len(inflight') = IF in.rvalid THEN Len(requested) - 1 ELSE Len(requested)
         /\ \A i \in 1 .. Len(inflight') :
              inflight'[i] = requested[IF in.rvalid THEN i + 1 ELSE i]
<1>1. /\ requested \in Seq(Requests)
      /\ in.rvalid => Len(requested) > 0
  BY RequestedQueue
<1>2. inflight' = IF in.rvalid THEN Tail(requested) ELSE requested
  BY DEF Clock, Memory
<1>. QED  BY <1>1, <1>2

\* The two next-state bits of entry k say whether the memory's queue has an
\* entry k, and whether it is stale.
LEMMA NextBits ==
  ASSUME IInv, NEW k \in Reqs
  PROVE  /\ rdata_outstanding_n[k] <=> k < Len(requested)
         /\ branch_discard_n[k] <=> k < Len(requested) /\ requested[k + 1].stale
<1>. DEFINE L == Len(inflight)
<1>1. L \in Nat /\ (rdata_outstanding_q[k] <=> k < L)
      /\ (branch_discard_q[k] <=> k < L /\ inflight[k + 1].stale)
  BY RequestedQueue DEF IInv, QueuesAgree
<1>2. granted(k) <=> in.gnt /\ k =< L
  <2>1. in.gnt => valid_req
    BY DEF IInv, BusRules, instr_req_o
  <2>2. k > 0 => k - 1 \in Reqs
    OBVIOUS
  <2>3. k > 0 => (rdata_outstanding_q[k - 1] <=> k - 1 < L)
    BY <2>2 DEF IInv, QueuesAgree
  <2>. QED  BY <1>1, <2>1, <2>3 DEF granted
<1>3. rdata_outstanding_n[k] <=> k < Len(requested)
  <2>1. rdata_outstanding_n[k] <=> (granted(k) \/ rdata_outstanding_q[k])
    BY Zenon DEF rdata_outstanding_n
  <2>2. Len(requested) = IF in.gnt THEN L + 1 ELSE L
    BY RequestedQueue
  <2>. QED  BY <1>1, <1>2, <2>1, <2>2
<1>4. discard_req_d <=> request_stale
  BY DEF discard_req_d, request_stale, IInv, QueuesAgree, TypeOK, Inputs
<1>5. branch_discard_n[k] <=> \/ granted(k) /\ request_stale
                              \/ in.branch /\ rdata_outstanding_q[k]
                              \/ branch_discard_q[k]
  <2>1. branch_discard_n[k] = ((granted(k) /\ discard_req_d)
                               \/ (in.branch /\ rdata_outstanding_q[k])
                               \/ branch_discard_q[k])
    BY DEF branch_discard_n
  <2>. QED  BY <1>4, <2>1
<1>6. CASE k < L
  <2>1. k + 1 \in 1 .. L
    BY <1>1, <1>6
  <2>2. requested[k + 1].stale <=> inflight[k + 1].stale \/ in.branch
    BY <2>1, RequestedQueue
  <2>3. request_stale => in.branch \/ inflight[k + 1].stale
    BY <2>1 DEF request_stale, IInv, StaleFirst
  <2>4. k < Len(requested)
    BY <1>1, <1>6, RequestedQueue
  <2>. QED  BY <1>1, <1>2, <1>3, <1>5, <1>6, <2>2, <2>3, <2>4
<1>7. CASE k = L
  <2>1. in.gnt => (requested[k + 1].stale <=> request_stale)
    BY <1>7, RequestedQueue
  <2>2. k < Len(requested) <=> in.gnt
    BY <1>1, <1>7, RequestedQueue
  <2>3. ~rdata_outstanding_q[k] /\ ~branch_discard_q[k] /\ (granted(k) <=> in.gnt)
    BY <1>1, <1>2, <1>7
  <2>. QED  BY <1>3, <1>5, <2>1, <2>2, <2>3, Zenon
<1>8. CASE k > L
  <2>1. ~(k < Len(requested))
    BY <1>1, <1>8, RequestedQueue
  <2>. QED  BY <1>1, <1>2, <1>3, <1>5, <1>8, <2>1
<1>. QED  BY <1>1, <1>6, <1>7, <1>8

LEMMA StepQueues == IInv /\ Clock => QueuesAgree'
<1>. SUFFICES ASSUME IInv, Clock PROVE QueuesAgree'
  OBVIOUS
<1>1. Len(inflight) \in Nat /\ Len(requested) \in Nat /\ Len(requested) =< NUM_REQS
  <2>1. Len(inflight) =< NUM_REQS
    BY DEF IInv, QueuesAgree
  <2>2. in.gnt => Len(inflight) < NUM_REQS
    <3>1. in.gnt => ~rdata_outstanding_q[NUM_REQS - 1]
      BY DEF IInv, BusRules, instr_req_o, valid_req, valid_new_req, SlotsReserved
    <3>2. rdata_outstanding_q[NUM_REQS - 1] <=> NUM_REQS - 1 < Len(inflight)
      BY DEF IInv, QueuesAgree
    <3>. QED  BY <3>1, <3>2, RequestedQueue
  <2>. QED  BY <2>1, <2>2, RequestedQueue
<1>2. Len(inflight') =< NUM_REQS
  BY <1>1, NextQueue
<1>3. ASSUME NEW i \in Reqs
      PROVE  /\ rdata_outstanding_q'[i] <=> i < Len(inflight')
             /\ branch_discard_q'[i] <=> i < Len(inflight') /\ inflight'[i + 1].stale
  <2>0. /\ rdata_outstanding_q' = Shifted(rdata_outstanding_n)
        /\ branch_discard_q' = Shifted(branch_discard_n)
    BY DEF Clock, PrefetchClock
  <2>1. CASE in.rvalid
    <3>1. Len(inflight') = Len(requested) - 1
      BY <2>1, NextQueue
    <3>2. CASE i + 1 < NUM_REQS
      <4>1. i + 1 \in Reqs
        BY <3>2
      <4>2. /\ rdata_outstanding_q'[i] <=> i + 1 < Len(requested)
            /\ branch_discard_q'[i] <=> i + 1 < Len(requested)
                                       /\ requested[(i + 1) + 1].stale
        BY <2>0, <2>1, <3>2, <4>1, NextBits DEF Shifted
      <4>3. i < Len(inflight') => inflight'[i + 1] = requested[(i + 1) + 1]
        BY <1>1, <2>1, <3>1, NextQueue
      <4>. QED  BY <1>1, <3>1, <4>2, <4>3
    <3>3. CASE i + 1 = NUM_REQS
      <4>0. ~(i + 1 < NUM_REQS)
        BY <3>3
      <4>1. ~rdata_outstanding_q'[i] /\ ~branch_discard_q'[i]
        BY <2>0, <2>1, <4>0, Zenon DEF Shifted
      <4>. QED  BY <1>1, <3>1, <3>3, <4>1
    <3>. QED  BY <3>2, <3>3
  <2>2. CASE ~in.rvalid
    <3>1. Len(inflight') = Len(requested)
      BY <2>2, NextQueue
    <3>2. /\ rdata_outstanding_q'[i] <=> i < Len(requested)
          /\ branch_discard_q'[i] <=> i < Len(requested) /\ requested[i + 1].stale
      BY <2>0, <2>2, NextBits DEF Shifted
    <3>3. i < Len(inflight') => inflight'[i + 1] = requested[i + 1]
      BY <1>1, <2>2, <3>1, NextQueue
    <3>. QED  BY <3>1, <3>2, <3>3
  <2>. QED  BY <2>1, <2>2
<1>4. valid_req_q' => (discard_req_q' <=> req_stale')
  BY DEF Clock, PrefetchClock, Memory, discard_req_d, request_stale, valid_req_d,
         IInv, QueuesAgree, TypeOK, Inputs
<1>. QED  BY <1>2, <1>3, <1>4 DEF QueuesAgree

LEMMA StepStale == IInv /\ Clock => StaleFirst'
<1>. SUFFICES ASSUME IInv, Clock PROVE StaleFirst'
  OBVIOUS
<1>. DEFINE L == Len(inflight)
<1>1. L \in Nat /\ Len(requested) \in Nat
  BY RequestedQueue
<1>2. request_stale => \A i \in 1 .. L : requested[i].stale
  BY RequestedQueue DEF request_stale, IInv, StaleFirst
<1>3. ASSUME NEW i \in 1 .. Len(requested), NEW j \in 1 .. Len(requested),
             i < j, requested[j].stale
      PROVE  requested[i].stale
  <2>1. i \in 1 .. L
    BY <1>1, <1>3, RequestedQueue
  <2>2. CASE j \in 1 .. L
    BY <1>3, <2>1, <2>2, RequestedQueue DEF IInv, StaleFirst
  <2>3. CASE j = L + 1
    <3>1. in.gnt
      BY <1>1, <2>3, RequestedQueue
    <3>. QED  BY <1>2, <1>3, <2>1, <2>3, <3>1, RequestedQueue
  <2>. QED  BY <1>1, <2>2, <2>3, RequestedQueue
<1>4. ASSUME NEW i \in 1 .. Len(inflight'), NEW j \in 1 .. Len(inflight'),
             i < j, inflight'[j].stale
      PROVE  inflight'[i].stale
  <2>. DEFINE at(k) == IF in.rvalid THEN k + 1 ELSE k
  <2>1. at(i) \in 1 .. Len(requested) /\ at(j) \in 1 .. Len(requested) /\ at(i) < at(j)
    BY <1>1, <1>4, NextQueue
  <2>2. inflight'[i] = requested[at(i)] /\ inflight'[j] = requested[at(j)]
    BY <1>4, NextQueue
  <2>. HIDE DEF at
  <2>3. requested[at(j)].stale
    BY <1>4, <2>2
  <2>4. requested[at(i)].stale
    BY <1>3, <2>1, <2>3
  <2>. QED  BY <2>2, <2>4
<1>5. ASSUME req_stale', NEW i \in 1 .. Len(inflight')
      PROVE  inflight'[i].stale
  <2>1. request_stale /\ ~in.gnt
    BY <1>5 DEF Clock, Memory
  <2>2. \A k \in 1 .. Len(requested) : requested[k].stale
    BY <1>2, <2>1, RequestedQueue
  <2>3. (IF in.rvalid THEN i + 1 ELSE i) \in 1 .. Len(requested)
    BY <1>1, <1>5, NextQueue
  <2>4. inflight'[i] = requested[IF in.rvalid THEN i + 1 ELSE i]
    BY <1>5, NextQueue
  <2>. QED  BY <2>2, <2>3, <2>4
<1>. QED  BY <1>4, <1>5 DEF StaleFirst

-----------------------------------------------------------------------------
(* The invariant and the theorems.                                         *)

LEMMA InitInv == Init => IInv
<1>. SUFFICES ASSUME Init PROVE IInv
  OBVIOUS
<1>1. TypeOK
  BY InitType
<1>2. BusRules
  BY DEF Init, BusRules
<1>3. Contiguous /\ SlotsReserved
  BY DEF Init, Contiguous, SlotsReserved, Fifo!FifoInit, Fifo!busy_o,
         rdata_outstanding_rev
<1>4. QueuesAgree /\ StaleFirst
  BY DEF Init, QueuesAgree, StaleFirst
<1>. QED  BY <1>1, <1>2, <1>3, <1>4 DEF IInv

LEMMA StutterInv == IInv /\ UNCHANGED vars => IInv'
BY DEF IInv, vars, clocked, regs, TypeOK, BusRules, Contiguous, SlotsReserved, QueuesAgree,
       StaleFirst, Fifo!FifoTypeOK, Fifo!busy_o, rdata_outstanding_rev, instr_req_o,
       valid_req, valid_new_req, fifo_ready

THEOREM Invariance == Spec => []IInv
<1>1. IInv /\ [Clock]_vars => IInv'
  <2>1. ASSUME IInv, Clock PROVE IInv'
    <3>1. TypeOK'
      BY <2>1, StepType DEF IInv
    <3>2. BusRules'
      BY <2>1 DEF Clock
    <3>. QED  BY <2>1, <3>1, <3>2, StepContiguous, StepSlots, StepQueues, StepStale
              DEF IInv
  <2>. QED  BY <2>1, StutterInv
<1>. QED  BY <1>1, InitInv, PTL DEF Spec

\* The registers, inputs and queues keep their types.
THEOREM TypeCorrect == Spec => []TypeOK
<1>1. IInv => TypeOK
  BY DEF IInv
<1>. QED  BY <1>1, Invariance, PTL

\* A word that arrives and is not discarded always finds a free FIFO entry:
\* IbexFetchFifoPushFull and IbexFetchFifoPushPopFull never fire.
THEOREM NeverOverflows == Spec => []NoOverflow
BY InvNoOverflow, Invariance, PTL

\* The slots fifo_ready counts on are really there.
THEOREM SlotsAreReserved == Spec => []SlotsReserved
<1>1. IInv => SlotsReserved
  BY DEF IInv
<1>. QED  BY <1>1, Invariance, PTL

\* The valid bits of the FIFO and of the outstanding queue form prefixes.
THEOREM AlwaysContiguous == Spec => []Contiguous
<1>1. IInv => Contiguous
  BY DEF IInv
<1>. QED  BY <1>1, Invariance, PTL

\* The discard bits mark exactly the words requested before the last branch.
THEOREM QueuesAlwaysAgree == Spec => []QueuesAgree
<1>1. IInv => QueuesAgree
  BY DEF IInv
<1>. QED  BY <1>1, Invariance, PTL

\* OBI: a request that is not granted is repeated with the same address.
THEOREM RequestIsStable == Spec => RequestStable
<1>1. ASSUME Clock, instr_req_o, ~in.gnt
      PROVE  instr_req_o' /\ instr_addr_o' = instr_addr_o
  <2>1. valid_req_q'
    BY <1>1 DEF Clock, PrefetchClock, valid_req_d, instr_req_o
  <2>2. stored_addr_q' = instr_addr
    BY <1>1 DEF Clock, PrefetchClock, new_issue, instr_req_o, valid_req, instr_addr
  <2>. QED  BY <2>1, <2>2 DEF instr_req_o, valid_req, instr_addr_o, instr_addr
<1>2. [Clock]_vars => [instr_req_o /\ ~in.gnt
                         => instr_req_o' /\ instr_addr_o' = instr_addr_o]_vars
  BY <1>1
<1>. QED  BY <1>2, PTL DEF Spec, RequestStable

-----------------------------------------------------------------------------
(* Arithmetic of the address space.                                        *)

\* Quotient and remainder, for the lemmas below.
LEMMA DivMod ==
  ASSUME NEW n \in Nat, n > 0, NEW x \in Nat
  PROVE  \E q \in Nat : \E r \in 0 .. n - 1 :
           x \div n = q /\ x % n = r /\ x = n * q + r
<1>1. x \div n \in Nat /\ x % n \in 0 .. n - 1 /\ x = n * (x \div n) + (x % n)
  OBVIOUS
<1>. QED  BY <1>1

\* A number has one remainder.
LEMMA ModUnique ==
  ASSUME NEW n \in Nat, n > 0, NEW q \in Nat, NEW r \in 0 .. n - 1
  PROVE  (n * q + r) % n = r
<1>1. PICK p \in Nat, s \in 0 .. n - 1 :
        (n * q + r) % n = s /\ n * q + r = n * p + s
  <2>. DEFINE x == n * q + r
  <2>1. x \in Nat
    OBVIOUS
  <2>. HIDE DEF x
  <2>2. \E p \in Nat : \E s \in 0 .. n - 1 : x % n = s /\ x = n * p + s
    BY <2>1, DivMod
  <2>. QED  BY <2>2 DEF x
<1>2. p > q => n * (p - q) >= n
  OBVIOUS
<1>3. p < q => n * (q - p) >= n
  OBVIOUS
<1>. QED BY <1>1, <1>2, <1>3

\* A remainder can be taken early.
LEMMA ModPlus ==
  ASSUME NEW n \in Nat, n > 0, NEW x \in Nat, NEW y \in Nat
  PROVE  ((x % n) + y) % n = (x + y) % n
<1>1. PICK q \in Nat, r \in 0 .. n - 1 : x % n = r /\ x = n * q + r
  BY DivMod
<1>2. PICK p \in Nat, s \in 0 .. n - 1 : (r + y) % n = s /\ r + y = n * p + s
  <2>1. r + y \in Nat
    OBVIOUS
  <2>. QED BY <2>1, DivMod
<1>3. x + y = n * (q + p) + s
  BY <1>1, <1>2
<1>4. (n * (q + p) + s) % n = s
  <2>1. q + p \in Nat
    OBVIOUS
  <2>. QED BY <2>1, ModUnique
<1>. QED BY <1>1, <1>2, <1>3, <1>4

\* The word an address is in, after one and after two half-words.
LEMMA WordOfPlus ==
  ASSUME NEW h \in Halfs
  PROVE  /\ Fifo!Word(Fifo!Plus(h, 2)) = (Fifo!Word(h) + 1) % NWords
         /\ Fifo!Word(Fifo!Plus(h, 1)) =
              IF Fifo!Unaligned(h) THEN (Fifo!Word(h) + 1) % NWords ELSE Fifo!Word(h)
         /\ Fifo!Word(2 * Fifo!Word(h)) = Fifo!Word(h)
         /\ Fifo!Word(h) % NWords = Fifo!Word(h)
<1>1. PICK w \in 0 .. NWords - 1, b \in {0, 1} : h = 2 * w + b
  <2>1. /\ h \div 2 \in 0 .. NWords - 1 /\ h % 2 \in {0, 1}
        /\ h = 2 * (h \div 2) + (h % 2)
    OBVIOUS
  <2>. QED  BY <2>1
<1>2. Fifo!Word(h) = w /\ (Fifo!Unaligned(h) <=> b = 1)
  BY <1>1 DEF Fifo!Word, Fifo!Unaligned
<1>3. ASSUME NEW n \in {1, 2}
      PROVE  Fifo!Plus(h, n) = IF h + n < 2 * NWords THEN h + n ELSE h + n - 2 * NWords
  <2>1. 2 * NWords \in Nat /\ 2 * NWords > 0
    OBVIOUS
  <2>2. CASE h + n < 2 * NWords
    <3>1. (h + n) \in 0 .. 2 * NWords - 1 /\ 2 * NWords * 0 + (h + n) = h + n
      BY <2>2
    <3>2. (2 * NWords * 0 + (h + n)) % (2 * NWords) = h + n
      BY <2>1, <3>1, ModUnique
    <3>. QED  BY <2>2, <3>1, <3>2 DEF Fifo!Plus
  <2>3. CASE h + n >= 2 * NWords
    <3>1. (h + n - 2 * NWords) \in 0 .. 2 * NWords - 1
          /\ 2 * NWords * 1 + (h + n - 2 * NWords) = h + n
      BY <2>3
    <3>2. (2 * NWords * 1 + (h + n - 2 * NWords)) % (2 * NWords) = h + n - 2 * NWords
      BY <2>1, <3>1, ModUnique
    <3>. QED  BY <2>3, <3>1, <3>2 DEF Fifo!Plus
  <2>. QED  BY <2>2, <2>3
<1>4. (w + 1) % NWords = IF w + 1 < NWords THEN w + 1 ELSE 0
  <2>1. CASE w + 1 < NWords
    <3>1. NWords * 0 + (w + 1) = w + 1 /\ w + 1 \in 0 .. NWords - 1
      BY <2>1
    <3>2. (NWords * 0 + (w + 1)) % NWords = w + 1
      BY <3>1, ModUnique
    <3>. QED  BY <2>1, <3>1, <3>2
  <2>2. CASE w + 1 = NWords
    <3>1. NWords * 1 + 0 = w + 1 /\ 0 \in 0 .. NWords - 1
      BY <2>2
    <3>2. (NWords * 1 + 0) % NWords = 0
      BY <3>1, ModUnique
    <3>. QED  BY <2>2, <3>1, <3>2
  <2>. QED  BY <2>1, <2>2
<1>5. w % NWords = w
  <2>1. NWords * 0 + w = w
    OBVIOUS
  <2>2. (NWords * 0 + w) % NWords = w
    BY ModUnique
  <2>. QED  BY <2>1, <2>2
<1>6. Fifo!Word(Fifo!Plus(h, 2)) = IF w + 1 < NWords THEN w + 1 ELSE 0
  BY <1>1, <1>3 DEF Fifo!Word
<1>7. Fifo!Word(Fifo!Plus(h, 1)) =
         IF b = 1 THEN (IF w + 1 < NWords THEN w + 1 ELSE 0) ELSE w
  BY <1>1, <1>3 DEF Fifo!Word
<1>8. Fifo!Word(2 * w) = w
  BY DEF Fifo!Word
<1>. QED  BY <1>2, <1>4, <1>5, <1>6, <1>7, <1>8

-----------------------------------------------------------------------------
(* The order of the words.                                                 *)

\* The n-th memory word after word w.
From(w, n) == (w + n) % NWords

\* Where the stream is when fill entries of the FIFO are valid and the first s
\* requests under way are stale: the valid entries, the other requests under
\* way, the request that waits for its grant and the next address to fetch are
\* consecutive words, the first the one instr_addr_q is in.
Position(fill, s) ==
  LET L == Len(inflight)
      word(n) == From(Fifo!Word(instr_addr_q), n)
      pending == valid_req_q /\ ~req_stale
  IN /\ \A i \in Fifo!Entries : /\ valid_q[i] <=> i < fill
                                /\ i < fill => rdata_q[i] = word(i)
     /\ \A j \in 1 .. L : /\ inflight[j].stale <=> j =< s
                          /\ j > s => inflight[j].word = word(fill + (j - s - 1))
     /\ req_stale => valid_req_q /\ s = L
     /\ pending => Fifo!Word(stored_addr_q) = word(fill + (L - s))
     /\ Fifo!Word(fetch_addr_q) = word(fill + (L - s) + IF pending THEN 1 ELSE 0)

InOrder == \E fill \in 0 .. NUM_REQS + 1 : \E s \in 0 .. Len(inflight) :
             Position(fill, s)

\* Counting words twice is counting them once.
LEMMA FromFacts ==
  ASSUME NEW w \in Words, NEW m \in Nat, NEW n \in Nat
  PROVE  /\ From(w, n) \in Words
         /\ From(From(w, m), n) = From(w, m + n)
         /\ From(w, 0) = w
<1>1. w + n \in Nat /\ w + m \in Nat /\ (w + m) + n = w + (m + n)
  OBVIOUS
<1>2. From(w, n) \in Words
  BY <1>1, DivMod DEF From
<1>3. (((w + m) % NWords) + n) % NWords = ((w + m) + n) % NWords
  <2>. DEFINE x == w + m
  <2>1. x \in Nat /\ NWords \in Nat /\ NWords > 0
    OBVIOUS
  <2>. HIDE DEF x
  <2>2. ((x % NWords) + n) % NWords = (x + n) % NWords
    BY <2>1, ModPlus
  <2>. QED  BY <2>2 DEF x
<1>4. w % NWords = w
  <2>1. NWords * 0 + w = w
    OBVIOUS
  <2>2. (NWords * 0 + w) % NWords = w
    BY ModUnique
  <2>. QED  BY <2>1, <2>2
<1>5. w + 0 = w
  OBVIOUS
<1>. QED  BY <1>1, <1>2, <1>3, <1>4, <1>5 DEF From

\* A word that goes into the FIFO is the one after the valid entries.
LEMMA Arrival ==
  ASSUME IInv, NEW fill \in 0 .. NUM_REQS + 1, NEW s \in 0 .. Len(inflight),
         Position(fill, s), in.rvalid
  PROVE  /\ fifo_valid <=> s = 0
         /\ fifo_valid => instr_rdata_i = From(Fifo!Word(instr_addr_q), fill)
<1>1. 1 \in 1 .. Len(inflight) /\ 0 \in Reqs
  BY RequestedQueue
<1>2. branch_discard_q[0] <=> inflight[0 + 1].stale
  BY <1>1 DEF IInv, QueuesAgree
<1>3. /\ inflight[1].stale <=> 1 =< s
      /\ 1 > s => inflight[1].word = From(Fifo!Word(instr_addr_q), fill + (1 - s - 1))
  BY <1>1 DEF Position
<1>4. instr_rdata_i = inflight[1].word
  BY <1>1 DEF instr_rdata_i, IInv, TypeOK
<1>5. fifo_valid <=> s = 0
  BY <1>2, <1>3 DEF fifo_valid
<1>6. s = 0 => fill + (1 - s - 1) = fill
  OBVIOUS
<1>. QED  BY <1>3, <1>4, <1>5, <1>6

\* The words in front of the FIFO, the one on the bus included.
LEMMA Front ==
  ASSUME IInv, InOrder, Fifo!valid
  PROVE  LET lo == Fifo!Word(instr_addr_q)
         IN /\ Fifo!rdata = lo
            /\ valid_q[0] => rdata_q[0] = lo
            /\ valid_q[1] => valid_q[0] /\ rdata_q[1] = From(lo, 1)
            /\ ~valid_q[1] /\ valid_q[0] /\ fifo_valid => instr_rdata_i = From(lo, 1)
<1>. DEFINE lo == Fifo!Word(instr_addr_q)
<1>1. PICK fill \in 0 .. NUM_REQS + 1, s \in 0 .. Len(inflight) : Position(fill, s)
  BY DEF InOrder
<1>2. /\ valid_q[0] <=> 0 < fill
      /\ valid_q[1] <=> 1 < fill
      /\ 0 < fill => rdata_q[0] = From(lo, 0)
      /\ 1 < fill => rdata_q[1] = From(lo, 1)
  <2>1. 0 \in Fifo!Entries /\ 1 \in Fifo!Entries
    OBVIOUS
  <2>. QED  BY <1>1, <2>1 DEF Position
<1>3. fifo_valid => instr_rdata_i = From(lo, fill)
  BY <1>1, Arrival DEF fifo_valid
<1>4. From(lo, 0) = lo
  BY WordType, FromFacts DEF IInv, TypeOK, Fifo!FifoTypeOK
<1>5. (~valid_q[0] => fill = 0) /\ (~valid_q[1] /\ valid_q[0] => fill = 1)
  BY <1>2
<1>. QED  BY <1>2, <1>3, <1>4, <1>5 DEF Fifo!rdata, Fifo!valid

\* Something is offered only if a word is there.
LEMMA ValidFront ==
  ASSUME IInv, Fifo!out_valid_o
  PROVE  Fifo!valid
<1>1. valid_q[1] => valid_q[0]
  BY DEF IInv, Contiguous
<1>. QED  BY <1>1 DEF Fifo!out_valid_o, Fifo!valid_unaligned, Fifo!valid

\* The FIFO in a cycle without a branch: the word that arrives is the one after
\* the valid entries, and the entry in front leaves when instr_addr_q moves on
\* to the next word.
LEMMA StepFifo ==
  ASSUME IInv, Clock, ~in.branch,
         NEW fill \in 0 .. NUM_REQS + 1, NEW s \in 0 .. Len(inflight),
         Position(fill, s)
  PROVE  LET b     == Fifo!Word(instr_addr_q)
             total == IF fifo_valid THEN fill + 1 ELSE fill
             pop   == IF Fifo!pop_fifo THEN 1 ELSE 0
         IN /\ total - pop \in 0 .. NUM_REQS + 1
            /\ fifo_valid <=> in.rvalid /\ s = 0
            /\ Fifo!Word(instr_addr_q') = From(b, pop)
            /\ \A i \in Fifo!Entries :
                 /\ valid_q'[i] <=> i < total - pop
                 /\ i < total - pop => rdata_q'[i] = From(b, pop + i)
<1>. DEFINE b     == Fifo!Word(instr_addr_q)
            total == IF fifo_valid THEN fill + 1 ELSE fill
            pop   == IF Fifo!pop_fifo THEN 1 ELSE 0
<1>1. /\ instr_addr_q \in Halfs /\ b \in Words
      /\ Len(inflight) \in Nat /\ (in.rvalid => Len(inflight) > 0)
  BY WordType, RequestedQueue DEF IInv, TypeOK, Fifo!FifoTypeOK
<1>0. \A i \in Fifo!Entries : valid_q[i] <=> i < fill
  BY DEF Position
<1>2. \A i \in Fifo!Entries : i < fill => rdata_q[i] = From(b, i)
  BY DEF Position
<1>3. /\ fifo_valid <=> in.rvalid /\ s = 0
      /\ fifo_valid => instr_rdata_i = From(b, fill)
  BY Arrival DEF fifo_valid
<1>4. fifo_valid => fill =< NUM_REQS
  <2>1. NoOverflow
    BY InvNoOverflow
  <2>2. NUM_REQS \in Fifo!Entries
    OBVIOUS
  <2>. QED  BY <1>0, <2>1, <2>2 DEF NoOverflow, Fifo!PushFull
<1>5. \A i \in Fifo!Entries :
        /\ Fifo!lowest_free_entry(i) <=> i = fill
        /\ Fifo!valid_pushed(i) <=> i < total
  <2>1. ASSUME NEW i \in Fifo!Entries
        PROVE  Fifo!lowest_free_entry(i) <=> i = fill
    <3>1. i > 0 => i - 1 \in Fifo!Entries
      OBVIOUS
    <3>2. i > 0 => (valid_q[i - 1] <=> i - 1 < fill)
      BY <1>0, <3>1
    <3>. QED  BY <1>0, <3>2 DEF Fifo!lowest_free_entry
  <2>. QED  BY <1>0, <2>1 DEF Fifo!valid_pushed
<1>6. Fifo!pop_fifo => total > 0
  BY <1>0 DEF Fifo!pop_fifo, Fifo!out_valid_o, Fifo!valid, Fifo!valid_unaligned
<1>7. Fifo!Word(instr_addr_q') = From(b, pop)
  <2>1. /\ Fifo!Word(Fifo!Plus(instr_addr_q, 2)) = From(b, 1)
        /\ Fifo!Word(Fifo!Plus(instr_addr_q, 1)) =
              IF Fifo!Unaligned(instr_addr_q) THEN From(b, 1) ELSE b
    BY <1>1, WordOfPlus DEF From
  <2>2. From(b, 0) = b
    BY <1>1, FromFacts
  <2>3. CASE ~(in.ready /\ Fifo!out_valid_o)
    BY <2>2, <2>3 DEF Clock, Fifo!FifoClock, Fifo!pop_fifo
  <2>4. CASE in.ready /\ Fifo!out_valid_o
    <3>1. instr_addr_q' = Fifo!Plus(instr_addr_q, IF Fifo!addr_incr_two THEN 1 ELSE 2)
      BY <2>4 DEF Clock, Fifo!FifoClock, Fifo!instr_addr_d
    <3>2. CASE Fifo!Unaligned(instr_addr_q)
      BY <2>1, <2>4, <3>1, <3>2 DEF Fifo!pop_fifo
    <3>3. CASE ~Fifo!Unaligned(instr_addr_q)
      BY <2>1, <2>2, <2>4, <3>1, <3>3 DEF Fifo!pop_fifo, Fifo!addr_incr_two
    <3>. QED  BY <3>2, <3>3
  <2>. QED  BY <2>3, <2>4
<1>8. ASSUME NEW i \in Fifo!Entries
      PROVE  valid_q'[i] <=> i < total - pop
  <2>1. valid_q'[i] <=> Fifo!valid_popped(i)
    BY DEF Clock, Fifo!FifoClock, Fifo!valid_d
  <2>2. CASE Fifo!pop_fifo
    <3>1. i < NUM_REQS => (Fifo!valid_pushed(i + 1) <=> i + 1 < total)
      BY <1>5
    <3>. QED  BY <1>4, <2>1, <2>2, <3>1 DEF Fifo!valid_popped
  <2>3. CASE ~Fifo!pop_fifo
    BY <1>5, <2>1, <2>3 DEF Fifo!valid_popped
  <2>. QED  BY <2>2, <2>3
<1>9. ASSUME NEW i \in Fifo!Entries, i < total - pop
      PROVE  rdata_q'[i] = From(b, pop + i)
  <2>1. rdata_q'[i] = IF Fifo!entry_en(i) THEN Fifo!rdata_d(i) ELSE rdata_q[i]
    BY DEF Clock, Fifo!FifoClock
  <2>2. /\ i + 1 =< NUM_REQS => (valid_q[i + 1] <=> i + 1 < fill)
        /\ i + 1 < fill => rdata_q[i + 1] = From(b, i + 1)
        /\ i < fill => rdata_q[i] = From(b, i)
    <3>1. i + 1 =< NUM_REQS => i + 1 \in Fifo!Entries
      OBVIOUS
    <3>2. i + 1 < fill => i + 1 =< NUM_REQS
      OBVIOUS
    <3>. QED  BY <1>0, <1>2, <3>1, <3>2
  <2>3. CASE Fifo!pop_fifo
    <3>1. i < NUM_REQS /\ i + 1 < total
      BY <1>4, <1>9, <2>3
    <3>2. Fifo!entry_en(i)
      BY <1>5, <2>3, <3>1 DEF Fifo!entry_en
    <3>3. Fifo!rdata_d(i) = From(b, i + 1)
      <4>1. CASE i + 1 < fill
        BY <2>2, <3>1, <4>1 DEF Fifo!rdata_d
      <4>2. CASE ~(i + 1 < fill)
        <5>1. fifo_valid /\ i + 1 = fill
          BY <3>1, <4>2
        <5>. QED  BY <1>3, <2>2, <3>1, <4>2, <5>1 DEF Fifo!rdata_d
      <4>. QED  BY <4>1, <4>2
    <3>. QED  BY <2>1, <2>3, <3>2, <3>3
  <2>4. CASE ~Fifo!pop_fifo
    <3>1. pop + i = i
      BY <2>4
    <3>2. CASE i < fill
      <4>1. ~Fifo!entry_en(i)
        BY <1>5, <2>4, <3>2 DEF Fifo!entry_en
      <4>. QED  BY <2>1, <2>2, <3>1, <3>2, <4>1
    <3>3. CASE ~(i < fill)
      <4>1. fifo_valid /\ i = fill
        BY <1>9, <2>4, <3>3
      <4>2. Fifo!entry_en(i)
        BY <1>5, <2>4, <4>1 DEF Fifo!entry_en
      <4>3. Fifo!rdata_d(i) = instr_rdata_i
        BY <2>2, <4>1 DEF Fifo!rdata_d
      <4>. QED  BY <1>3, <2>1, <3>1, <4>1, <4>2, <4>3
    <3>. QED  BY <3>2, <3>3
  <2>. QED  BY <2>3, <2>4
<1>10. total - pop \in 0 .. NUM_REQS + 1
  BY <1>4, <1>6
<1>. QED  BY <1>3, <1>7, <1>8, <1>9, <1>10

\* The words of the memory's queue, the request granted in this cycle last.
LEMMA RequestedWords ==
  ASSUME IInv
  PROVE  /\ \A i \in 1 .. Len(inflight) : requested[i].word = inflight[i].word
         /\ in.gnt => requested[Len(inflight) + 1].word = instr_addr_o
<1>. DEFINE L == Len(inflight)
            new == [word |-> instr_addr_o, stale |-> request_stale]
<1>1. L \in Nat
  BY DEF IInv, TypeOK
<1>2. Len(aged) = L /\ aged \in Seq({aged[i] : i \in 1 .. L})
  BY <1>1 DEF aged
<1>3. \A i \in 1 .. L : aged[i].word = inflight[i].word
  BY <1>1 DEF aged
<1>. HIDE DEF new, L
<1>4. CASE in.gnt
  <2>1. requested = Append(aged, new)
    BY <1>4 DEF requested, new
  <2>2. /\ requested[L + 1] = new
        /\ \A i \in 1 .. L : requested[i] = aged[i]
    BY <1>1, <1>2, <2>1
  <2>3. new.word = instr_addr_o
    BY DEF new
  <2>. QED  BY <1>3, <2>2, <2>3 DEF L
<1>5. CASE ~in.gnt
  BY <1>3, <1>5 DEF requested, L
<1>. QED  BY <1>4, <1>5

\* The queue with the request granted in this cycle, the request that waits and
\* the next address: after a branch the stream starts anew at its target, and
\* everything requested before is stale.
LEMMA StepRequests ==
  ASSUME IInv, Clock,
         NEW fill \in 0 .. NUM_REQS + 1, NEW s \in 0 .. Len(inflight),
         Position(fill, s)
  PROVE  LET b == Fifo!Word(IF in.branch THEN in.addr ELSE instr_addr_q)
             f == IF in.branch THEN 0 ELSE fill
             R == Len(requested)
             pending == valid_req_q' /\ ~req_stale'
         IN \E t \in 0 .. R :
              /\ in.rvalid => (t = 0 <=> s = 0 /\ ~in.branch)
              /\ \A j \in 1 .. R :
                   /\ requested[j].stale <=> j =< t
                   /\ j > t => requested[j].word = From(b, f + (j - t - 1))
              /\ req_stale' => valid_req_q' /\ t = R
              /\ pending => Fifo!Word(stored_addr_q') = From(b, f + (R - t))
              /\ Fifo!Word(fetch_addr_q') =
                   From(b, f + (R - t) + IF pending THEN 1 ELSE 0)
<1>. DEFINE b == Fifo!Word(IF in.branch THEN in.addr ELSE instr_addr_q)
            f == IF in.branch THEN 0 ELSE fill
            L == Len(inflight)
            R == Len(requested)
            pending == valid_req_q' /\ ~req_stale'
            waits == valid_req_q /\ ~req_stale
            t == IF in.branch THEN IF in.gnt /\ ~request_stale THEN L ELSE R
                 ELSE IF in.gnt /\ request_stale THEN R ELSE s
            n == IF new_issue THEN 1 ELSE 0
<1>1. /\ instr_addr_q \in Halfs /\ in.addr \in Halfs /\ b \in Words
      /\ L \in Nat /\ R = IF in.gnt THEN L + 1 ELSE L
      /\ in.rvalid => L > 0
      /\ fetch_addr_q \in Halfs /\ stored_addr_q \in Halfs
  BY WordType, RequestedQueue DEF IInv, TypeOK, Fifo!FifoTypeOK, Inputs
<1>2. /\ \A j \in 1 .. L : inflight[j].stale <=> j =< s
      /\ ~in.branch => \A j \in 1 .. L : j > s => inflight[j].word = From(b, f + (j - s - 1))
      /\ req_stale => valid_req_q /\ s = L
      /\ ~in.branch /\ waits => Fifo!Word(stored_addr_q) = From(b, f + (L - s))
      /\ ~in.branch =>
           Fifo!Word(fetch_addr_q) = From(b, f + (L - s) + IF waits THEN 1 ELSE 0)
  BY DEF Position
<1>3. /\ request_stale <=> valid_req_q /\ (req_stale \/ in.branch)
      /\ in.gnt => valid_req_q \/ new_issue
      /\ new_issue => ~valid_req_q
      /\ valid_req_q' <=> (valid_req_q \/ new_issue) /\ ~in.gnt
      /\ req_stale' <=> request_stale /\ ~in.gnt
  BY DEF request_stale, Clock, Memory, PrefetchClock, valid_req_d, valid_req, new_issue,
         IInv, BusRules, instr_req_o, TypeOK, Inputs
<1>4. t \in 0 .. R /\ (in.rvalid => (t = 0 <=> s = 0 /\ ~in.branch))
  BY <1>1, <1>2, <1>3
<1>5. ASSUME NEW j \in 1 .. R
      PROVE  requested[j].stale <=> j =< t
  <2>1. CASE j \in 1 .. L
    <3>1. requested[j].stale <=> inflight[j].stale \/ in.branch
      BY <2>1, RequestedQueue
    <3>. QED  BY <1>1, <1>2, <1>3, <2>1, <3>1
  <2>2. CASE j = L + 1 /\ in.gnt
    <3>1. requested[j].stale <=> request_stale
      BY <2>2, RequestedQueue
    <3>. QED  BY <1>1, <1>2, <1>3, <2>2, <3>1
  <2>. QED  BY <1>1, <2>1, <2>2
<1>6. Fifo!Word(instr_addr) =
        IF valid_req_q THEN Fifo!Word(stored_addr_q)
        ELSE IF in.branch THEN b ELSE Fifo!Word(fetch_addr_q)
  BY DEF instr_addr
<1>7. From(b, 0) = b
  BY <1>1, FromFacts
<1>8. ASSUME ~request_stale, valid_req_q \/ new_issue, NEW k \in Nat,
             k = f + (L - (IF in.branch THEN L ELSE s))
      PROVE  Fifo!Word(instr_addr) = From(b, k)
  <2>1. CASE in.branch
    <3>1. ~valid_req_q /\ k = 0
      BY <1>1, <1>3, <1>8, <2>1
    <3>. QED  BY <1>6, <1>7, <2>1, <3>1
  <2>2. CASE ~in.branch
    <3>1. k = f + (L - s) /\ k = f + (L - s) + 0
      BY <1>1, <1>8, <2>2
    <3>2. CASE valid_req_q
      <4>1. ~req_stale
        BY <1>3, <1>8, <2>2, <3>2
      <4>. QED  BY <1>2, <1>6, <2>2, <3>1, <3>2, <4>1
    <3>3. CASE ~valid_req_q
      <4>. QED  BY <1>2, <1>6, <2>2, <3>1, <3>3
    <3>. QED  BY <3>2, <3>3
  <2>. QED  BY <2>1, <2>2
<1>9. ASSUME NEW j \in 1 .. R, j > t
      PROVE  requested[j].word = From(b, f + (j - t - 1))
  <2>1. CASE j \in 1 .. L
    <3>1. requested[j].word = inflight[j].word
      BY <2>1, RequestedWords
    <3>2. ~in.branch /\ t = s
      BY <1>1, <1>9, <2>1
    <3>3. inflight[j].word = From(b, f + (j - s - 1))
      BY <1>2, <1>9, <2>1, <3>2
    <3>. QED  BY <3>1, <3>2, <3>3
  <2>2. CASE j = L + 1 /\ in.gnt
    <3>1. requested[j].word = Fifo!Word(instr_addr)
      BY <2>2, RequestedWords DEF instr_addr_o
    <3>2. ~request_stale
      BY <1>1, <1>9, <2>2
    <3>3. t = IF in.branch THEN L ELSE s
      BY <2>2, <3>2
    <3>4. valid_req_q \/ new_issue
      BY <1>3, <2>2
    <3>. DEFINE k == f + (j - t - 1)
    <3>5. k \in Nat /\ k = f + (L - (IF in.branch THEN L ELSE s))
      <4>. HIDE DEF t, b, R
      <4>1. CASE in.branch
        BY <1>1, <2>2, <3>3, <4>1
      <4>2. CASE ~in.branch
        BY <1>1, <2>2, <3>3, <4>2
      <4>. QED  BY <4>1, <4>2
    <3>. HIDE DEF k
    <3>6. Fifo!Word(instr_addr) = From(b, k)
      BY <1>8, <3>2, <3>4, <3>5
    <3>. QED  BY <3>1, <3>6 DEF k
  <2>3. j \in 1 .. L \/ (j = L + 1 /\ in.gnt)
    BY <1>1
  <2>. QED  BY <2>1, <2>2, <2>3
<1>10. pending => Fifo!Word(stored_addr_q') = From(b, f + (R - t))
  <2>. SUFFICES ASSUME pending PROVE Fifo!Word(stored_addr_q') = From(b, f + (R - t))
    OBVIOUS
  <2>1. ~in.gnt /\ ~request_stale /\ R = L
    BY <1>1, <1>3
  <2>2. t = IF in.branch THEN L ELSE s
    BY <2>1
  <2>3. stored_addr_q' = IF new_issue THEN instr_addr ELSE stored_addr_q
    BY <2>1 DEF Clock, PrefetchClock
  <2>4. Fifo!Word(stored_addr_q') = Fifo!Word(instr_addr)
    BY <1>3, <1>6, <2>1, <2>3
  <2>5. valid_req_q \/ new_issue
    BY <1>3
  <2>. DEFINE k == f + (R - t)
  <2>6. k \in Nat /\ k = f + (L - (IF in.branch THEN L ELSE s))
    <3>. HIDE DEF t, b, R
    <3>1. CASE in.branch
      BY <1>1, <2>1, <2>2, <3>1
    <3>2. CASE ~in.branch
      BY <1>1, <2>1, <2>2, <3>2
    <3>. QED  BY <3>1, <3>2
  <2>. HIDE DEF k
  <2>7. Fifo!Word(instr_addr) = From(b, k)
    BY <1>8, <2>1, <2>5, <2>6
  <2>. QED  BY <2>4, <2>7 DEF k
<1>11. Fifo!Word(fetch_addr_q') = From(b, f + (R - t) + IF pending THEN 1 ELSE 0)
  <2>. DEFINE base == IF in.branch THEN b ELSE Fifo!Word(fetch_addr_q)
  <2>1. base \in Words
    BY <1>1, WordType
  <2>2. Fifo!Word(fetch_addr_q') = From(base, n)
    <3>. DEFINE a == IF in.branch THEN in.addr ELSE 2 * Fifo!Word(fetch_addr_q)
    <3>1. a \in Halfs /\ Fifo!Word(a) = base
      <4>1. Fifo!Word(2 * Fifo!Word(fetch_addr_q)) = Fifo!Word(fetch_addr_q)
        BY <1>1, WordOfPlus
      <4>2. 2 * Fifo!Word(fetch_addr_q) \in Halfs
        <5>1. Fifo!Word(fetch_addr_q) \in 0 .. NWords - 1
          BY <1>1, WordType
        <5>. QED  BY <5>1
      <4>. QED  BY <1>1, <4>1, <4>2
    <3>. HIDE DEF a, base
    <3>2. fetch_addr_d = Fifo!Plus(a, IF new_issue THEN 2 ELSE 0)
      BY DEF fetch_addr_d, a
    <3>3. Fifo!Word(Fifo!Plus(a, 2)) = From(base, 1)
      BY <3>1, WordOfPlus DEF From
    <3>4. Fifo!Word(Fifo!Plus(a, 0)) = base
      <4>1. /\ 2 * NWords \in Nat /\ 2 * NWords > 0 /\ a \in 0 .. 2 * NWords - 1
            /\ 2 * NWords * 0 + a = a /\ a + 0 = a
        BY <3>1
      <4>2. (2 * NWords * 0 + a) % (2 * NWords) = a
        BY <4>1, ModUnique
      <4>. QED  BY <3>1, <4>1, <4>2 DEF Fifo!Plus
    <3>5. From(base, 0) = base
      BY <2>1, FromFacts
    <3>6. ~in.branch => base = Fifo!Word(fetch_addr_q)
      BY DEF base
    <3>7. fetch_addr_q' = IF in.branch \/ new_issue THEN fetch_addr_d ELSE fetch_addr_q
      BY DEF Clock, PrefetchClock
    <3>. QED  BY <3>2, <3>3, <3>4, <3>5, <3>6, <3>7
  <2>. DEFINE m == IF in.branch THEN 0 ELSE f + (L - s) + IF waits THEN 1 ELSE 0
  <2>3. m \in Nat /\ base = From(b, m)
    <3>1. CASE in.branch
      BY <1>7, <3>1
    <3>2. CASE ~in.branch
      BY <1>1, <1>2, <3>2
    <3>. QED  BY <3>1, <3>2
  <2>4. m + n = f + (R - t) + IF pending THEN 1 ELSE 0
    <3>1. CASE in.branch
      <4>1. /\ m = 0 /\ f = 0
            /\ t = IF in.gnt /\ ~request_stale THEN L ELSE R
        BY <3>1
      <4>2. /\ request_stale <=> valid_req_q
            /\ pending <=> new_issue /\ ~in.gnt
        BY <1>3, <3>1
      <4>. HIDE DEF m, f, t, pending, b, R
      <4>3. CASE in.gnt /\ request_stale
        BY <1>1, <1>3, <4>1, <4>2, <4>3
      <4>4. CASE in.gnt /\ ~request_stale
        BY <1>1, <1>3, <4>1, <4>2, <4>4
      <4>5. CASE ~in.gnt
        <5>1. R = L /\ t = L
          BY <1>1, <4>1, <4>5
        <5>. DEFINE p == IF pending THEN 1 ELSE 0
        <5>2. n = p /\ n \in Nat
          BY <4>2, <4>5
        <5>. HIDE DEF n, p
        <5>3. m + n = f + (R - t) + p
          BY <1>1, <4>1, <5>1, <5>2
        <5>. QED  BY <5>3 DEF p
      <4>. QED  BY <4>3, <4>4, <4>5
    <3>2. CASE ~in.branch
      <4>1. /\ m = f + (L - s) + IF waits THEN 1 ELSE 0
            /\ t = IF in.gnt /\ request_stale THEN R ELSE s
        BY <3>2
      <4>2. /\ request_stale <=> req_stale
            /\ waits <=> valid_req_q /\ ~req_stale
            /\ pending <=> (waits \/ new_issue) /\ ~in.gnt
            /\ req_stale => s = L /\ valid_req_q
        BY <1>2, <1>3, <3>2
      <4>3. f \in Nat
        OBVIOUS
      <4>. HIDE DEF m, f, t, pending, waits, b, R
      <4>4. CASE in.gnt /\ request_stale
        BY <1>1, <1>3, <4>1, <4>2, <4>3, <4>4
      <4>5. CASE in.gnt /\ ~request_stale
        BY <1>1, <1>3, <4>1, <4>2, <4>3, <4>5
      <4>6. CASE ~in.gnt /\ waits
        BY <1>1, <1>3, <4>1, <4>2, <4>3, <4>6
      <4>7. CASE ~in.gnt /\ ~waits
        BY <1>1, <1>3, <4>1, <4>2, <4>3, <4>7
      <4>. QED  BY <4>4, <4>5, <4>6, <4>7
    <3>. QED  BY <3>1, <3>2
  <2>. HIDE DEF m, n, b, base
  <2>5. From(base, n) = From(b, m + n)
    <3>1. n \in Nat /\ b \in Words
      BY <1>1 DEF n
    <3>. QED  BY <2>3, <3>1, FromFacts
  <2>. QED  BY <2>2, <2>4, <2>5
<1>12. req_stale' => valid_req_q' /\ t = R
  BY <1>1, <1>2, <1>3
<1>. QED  BY <1>4, <1>5, <1>9, <1>10, <1>11, <1>12

\* The stream starts at word 0 with nothing under way.
LEMMA InitOrder == Init => InOrder
<1>. SUFFICES ASSUME Init PROVE InOrder
  OBVIOUS
<1>1. /\ Fifo!Word(instr_addr_q) = 0 /\ Fifo!Word(fetch_addr_q) = 0
      /\ Len(inflight) = 0
      /\ ~valid_req_q /\ ~req_stale
      /\ \A i \in Fifo!Entries : ~valid_q[i]
  BY DEF Init, Fifo!FifoInit, Fifo!Word
<1>2. From(0, 0) = 0
  BY FromFacts
<1>3. Position(0, 0)
  BY <1>1, <1>2 DEF Position
<1>. QED  BY <1>1, <1>3 DEF InOrder

\* Every clock cycle keeps the stream in order.
LEMMA StepOrder == IInv /\ InOrder /\ Clock => InOrder'
<1>. SUFFICES ASSUME IInv, InOrder, Clock PROVE InOrder'
  OBVIOUS
<1>1. PICK fill \in 0 .. NUM_REQS + 1, s \in 0 .. Len(inflight) : Position(fill, s)
  BY DEF InOrder
<1>. DEFINE b == Fifo!Word(IF in.branch THEN in.addr ELSE instr_addr_q)
            f == IF in.branch THEN 0 ELSE fill
            R == Len(requested)
            pending == valid_req_q' /\ ~req_stale'
            total == IF fifo_valid THEN fill + 1 ELSE fill
            pop   == IF ~in.branch /\ Fifo!pop_fifo THEN 1 ELSE 0
            filln == IF in.branch THEN 0 ELSE total - pop
            Ln == Len(inflight')
            bn == Fifo!Word(instr_addr_q')
<1>2. PICK t \in 0 .. R :
              /\ in.rvalid => (t = 0 <=> s = 0 /\ ~in.branch)
              /\ \A j \in 1 .. R :
                   /\ requested[j].stale <=> j =< t
                   /\ j > t => requested[j].word = From(b, f + (j - t - 1))
              /\ req_stale' => valid_req_q' /\ t = R
              /\ pending => Fifo!Word(stored_addr_q') = From(b, f + (R - t))
              /\ Fifo!Word(fetch_addr_q') =
                   From(b, f + (R - t) + IF pending THEN 1 ELSE 0)
  BY <1>1, StepRequests
<1>. DEFINE sn == IF in.rvalid /\ t > 0 THEN t - 1 ELSE t
<1>3. /\ b \in Words /\ R \in Nat /\ (in.rvalid => R > 0)
      /\ Ln = IF in.rvalid THEN R - 1 ELSE R
      /\ \A j \in 1 .. Ln : inflight'[j] = requested[IF in.rvalid THEN j + 1 ELSE j]
  <2>1. b \in Words
    BY WordType DEF IInv, TypeOK, Fifo!FifoTypeOK, Inputs
  <2>2. R \in Nat /\ (in.rvalid => R > 0)
    BY RequestedQueue
  <2>. QED  BY <2>1, <2>2, NextQueue
<1>4. /\ filln \in 0 .. NUM_REQS + 1
      /\ bn = From(b, pop)
      /\ \A i \in Fifo!Entries : valid_q'[i] <=> i < filln
      /\ \A i \in Fifo!Entries : i < filln => rdata_q'[i] = From(b, pop + i)
      /\ pop + filln = IF in.rvalid /\ t = 0 THEN f + 1 ELSE f
  <2>1. CASE in.branch
    <3>1. filln = 0 /\ pop = 0 /\ f = 0 /\ ~(in.rvalid /\ t = 0)
      BY <1>2, <2>1
    <3>2. bn = b /\ From(b, 0) = b
      BY <1>3, <2>1, FromFacts DEF Clock, Fifo!FifoClock, Fifo!instr_addr_d
    <3>3. \A i \in Fifo!Entries : ~valid_q'[i]
      BY <2>1 DEF Clock, Fifo!FifoClock, Fifo!valid_d
    <3>. HIDE DEF filln, pop, b, bn, f
    <3>. QED  BY <3>1, <3>2, <3>3
  <2>2. CASE ~in.branch
    <3>1. /\ filln = total - pop /\ f = fill /\ b = Fifo!Word(instr_addr_q)
          /\ pop = IF Fifo!pop_fifo THEN 1 ELSE 0
      BY <2>2
    <3>2. /\ total - pop \in 0 .. NUM_REQS + 1
          /\ fifo_valid <=> in.rvalid /\ s = 0
          /\ bn = From(b, pop)
          /\ \A i \in Fifo!Entries :
               /\ valid_q'[i] <=> i < total - pop
               /\ i < total - pop => rdata_q'[i] = From(b, pop + i)
      BY <1>1, <2>2, <3>1, StepFifo
    <3>3. pop + filln = IF in.rvalid /\ t = 0 THEN f + 1 ELSE f
      BY <1>2, <2>2, <3>1, <3>2
    <3>. HIDE DEF filln, pop, b, bn, f, total
    <3>. QED  BY <3>1, <3>2, <3>3
  <2>. QED  BY <2>1, <2>2
<1>5. PICK F \in 0 .. NUM_REQS + 1, P \in {0, 1}, G \in Nat, N \in Nat, S \in Nat :
        F = filln /\ P = pop /\ G = f /\ N = Ln /\ S = sn
  <2>1. pop \in {0, 1} /\ f \in Nat /\ Ln \in Nat /\ sn \in Nat
    BY <1>3
  <2>. QED  BY <1>4, <2>1
<1>6. /\ P + F = IF in.rvalid /\ t = 0 THEN G + 1 ELSE G
      /\ S = IF in.rvalid /\ t > 0 THEN t - 1 ELSE t
      /\ N = IF in.rvalid THEN R - 1 ELSE R
      /\ S =< N /\ (t = R => S = N)
      /\ bn = From(b, P)
      /\ \A i \in Fifo!Entries : valid_q'[i] <=> i < F
      /\ \A i \in Fifo!Entries : i < F => rdata_q'[i] = From(b, P + i)
      /\ \A j \in 1 .. N : inflight'[j] = requested[IF in.rvalid THEN j + 1 ELSE j]
  BY <1>3, <1>4, <1>5
<1>. HIDE DEF b, pop, f, sn, bn, total, filln, pending
<1>7. \A k \in Nat, m \in Nat : P + k = m => From(bn, k) = From(b, m)
  <2>1. ASSUME NEW k \in Nat
        PROVE  From(From(b, P), k) = From(b, P + k)
    <3>1. P \in Nat /\ b \in Words
      BY <1>3
    <3>. QED  BY <3>1, FromFacts
  <2>. QED  BY <1>6, <2>1
<1>8. P + (F + (N - S)) = G + (R - t)
  <2>1. (P + F) + (N - S) = G + (R - t)
    <3>. HIDE DEF R, Ln
    <3>1. CASE in.rvalid /\ t = 0
      BY <1>3, <1>6, <3>1
    <3>2. CASE in.rvalid /\ t > 0
      BY <1>3, <1>6, <3>2
    <3>3. CASE ~in.rvalid
      BY <1>3, <1>6, <3>3
    <3>. QED  BY <1>3, <3>1, <3>2, <3>3
  <2>. QED  BY <1>3, <2>1
<1>9. ASSUME NEW j \in 1 .. N
      PROVE  /\ inflight'[j].stale <=> j =< S
             /\ j > S => inflight'[j].word = From(bn, F + (j - S - 1))
  <2>. DEFINE at == IF in.rvalid THEN j + 1 ELSE j
  <2>1. /\ at \in 1 .. R /\ inflight'[j] = requested[at]
        /\ at =< t <=> j =< S
    BY <1>3, <1>6
  <2>2. requested[at].stale <=> at =< t
    BY <1>2, <2>1
  <2>3. ASSUME j > S
        PROVE  inflight'[j].word = From(bn, F + (j - S - 1))
    <3>1. at > t
      BY <1>3, <1>6, <2>1, <2>3
    <3>2. requested[at].word = From(b, G + (at - t - 1))
      BY <1>2, <1>5, <2>1, <3>1
    <3>. DEFINE k == F + (j - S - 1)
                m == G + (at - t - 1)
    <3>3. k \in Nat /\ m \in Nat /\ P + k = m
      BY <1>3, <1>6, <2>3, <3>1
    <3>. HIDE DEF k, m
    <3>4. From(bn, k) = From(b, m)
      BY <1>7, <3>3
    <3>. QED  BY <2>1, <3>2, <3>4 DEF k, m
  <2>. QED  BY <2>1, <2>2, <2>3
<1>10. pending => Fifo!Word(stored_addr_q') = From(bn, F + (N - S))
  <2>. DEFINE k == F + (N - S)
              m == G + (R - t)
  <2>1. k \in Nat /\ m \in Nat /\ P + k = m
    BY <1>3, <1>6, <1>8
  <2>. HIDE DEF k, m
  <2>2. From(bn, k) = From(b, m)
    BY <1>7, <2>1
  <2>. QED  BY <1>2, <1>5, <2>2 DEF k, m
<1>11. Fifo!Word(fetch_addr_q') = From(bn, F + (N - S) + IF pending THEN 1 ELSE 0)
  <2>. DEFINE p == IF pending THEN 1 ELSE 0
              k == F + (N - S) + p
              m == G + (R - t) + p
  <2>1. p \in Nat
    OBVIOUS
  <2>2. k \in Nat /\ m \in Nat /\ P + k = m
    <3>. HIDE DEF p
    <3>1. N - S \in Nat /\ R - t \in Nat
      BY <1>3, <1>6
    <3>. QED  BY <1>8, <2>1, <3>1
  <2>. HIDE DEF k, m
  <2>3. From(bn, k) = From(b, m)
    BY <1>7, <2>2
  <2>. QED  BY <1>2, <1>5, <2>3 DEF k, m
<1>12. req_stale' => valid_req_q' /\ S = N
  BY <1>2, <1>6
<1>13. \A i \in Fifo!Entries :
         /\ valid_q'[i] <=> i < F
         /\ i < F => rdata_q'[i] = From(bn, i)
  <2>1. \A i \in Fifo!Entries : From(bn, i) = From(b, P + i)
    BY <1>7
  <2>. QED  BY <1>6, <2>1
<1>14. Position(F, S)'
  <2>1. Len(inflight') = N
    BY <1>5
  <2>. HIDE DEF Ln
  <2>. QED  BY <1>9, <1>10, <1>11, <1>12, <1>13, <2>1 DEF Position, bn, pending
<1>15. S \in 0 .. Len(inflight')
  BY <1>5, <1>6
<1>. QED  BY <1>5, <1>14, <1>15 DEF InOrder

-----------------------------------------------------------------------------
(* The refinement.                                                         *)

\* What the FIFO shows when it has something to show.
LEMMA OfferRenders ==
  IInv /\ InOrder /\ Fifo!out_valid_o => Stream!Renders(offered, instr_addr_q)
<1>. SUFFICES ASSUME IInv, InOrder, Fifo!out_valid_o
              PROVE  Stream!Renders(offered, instr_addr_q)
  OBVIOUS
<1>. DEFINE lo == Fifo!Word(instr_addr_q)
            hi == From(lo, 1)
<1>1. /\ instr_addr_q \in Halfs /\ lo \in Words /\ hi \in Words
      /\ mem \in [Words -> [c0 : BOOLEAN, c1 : BOOLEAN, err : BOOLEAN]]
  <2>1. mem \in Programs /\ instr_addr_q \in Halfs
    BY DEF IInv, TypeOK, Fifo!FifoTypeOK
  <2>. QED  BY <2>1, WordType, FromFacts, ProgramsAssumption
<1>2. /\ Fifo!rdata = lo
      /\ valid_q[0] => rdata_q[0] = lo
      /\ valid_q[1] => valid_q[0] /\ rdata_q[1] = hi
      /\ ~valid_q[1] /\ valid_q[0] /\ fifo_valid => instr_rdata_i = hi
      /\ valid_q[0] \/ fifo_valid
  BY ValidFront, Front DEF Fifo!valid
<1>3. /\ Stream!Lo(instr_addr_q) = lo
      /\ Stream!Unaligned(instr_addr_q) <=> Fifo!Unaligned(instr_addr_q)
      /\ Fifo!Unaligned(instr_addr_q) => Stream!Hi(instr_addr_q) = hi
      /\ ~Fifo!Unaligned(instr_addr_q) => Stream!Hi(instr_addr_q) = lo
  <2>1. Fifo!Word(Fifo!Plus(instr_addr_q, 1)) =
          IF Fifo!Unaligned(instr_addr_q) THEN hi ELSE lo
    BY <1>1, WordOfPlus DEF From
  <2>. QED  BY <2>1 DEF Stream!Lo, Stream!Hi, Stream!FirstWord, Stream!SecondWord,
              Stream!Plus, Fifo!Plus, Fifo!Word, Stream!Unaligned, Fifo!Unaligned
<1>4. Stream!Compressed(instr_addr_q) <=>
        ~mem[lo].err /\ IF Fifo!Unaligned(instr_addr_q) THEN mem[lo].c1 ELSE mem[lo].c0
  BY <1>3 DEF Stream!Compressed, Stream!Lo
<1>5. Fifo!unaligned_is_compressed <=> mem[lo].c1 /\ ~mem[lo].err
  BY <1>2 DEF Fifo!unaligned_is_compressed, Fifo!err
<1>. DEFINE o == offered
<1>6. /\ o.lo = Fifo!out_rdata_o.lo /\ o.hi = Fifo!out_rdata_o.hi
      /\ o.err = Fifo!out_err_o /\ o.plus2 = Fifo!out_err_plus2_o
  BY DEF offered
<1>. HIDE DEF o, lo, hi
<1>9. o.err \in BOOLEAN /\ Stream!Err(instr_addr_q) \in BOOLEAN
  <2>1. mem[lo].err \in BOOLEAN
    BY <1>1
  <2>2. Fifo!err_unaligned \in BOOLEAN /\ Fifo!err \in BOOLEAN
    BY <1>2, <2>1 DEF Fifo!err_unaligned, Fifo!err
  <2>3. Fifo!out_err_o \in BOOLEAN
    BY <2>2 DEF Fifo!out_err_o
  <2>. QED  BY <1>6, <2>3 DEF Stream!Err
<1>7. CASE Fifo!Unaligned(instr_addr_q)
  <2>. DEFINE comp == mem[lo].c1 /\ ~mem[lo].err
  <2>1. ~comp => valid_q[1] \/ (valid_q[0] /\ fifo_valid)
    BY <1>5, <1>7 DEF Fifo!out_valid_o, Fifo!valid_unaligned
  <2>2. o.lo = lo
    BY <1>2, <1>6, <1>7 DEF Fifo!out_rdata_o
  <2>3. ~comp => o.hi = hi
    BY <1>2, <1>6, <1>7, <2>1 DEF Fifo!out_rdata_o, Fifo!rdata1
  <2>4. Fifo!err_unaligned <=> mem[lo].err \/ (~comp /\ mem[hi].err)
    <3>1. CASE valid_q[1]
      BY <1>2, <1>5, <3>1 DEF Fifo!err_unaligned
    <3>2. CASE ~valid_q[1] /\ valid_q[0]
      BY <1>2, <1>5, <2>1, <3>2 DEF Fifo!err_unaligned
    <3>3. CASE ~valid_q[0]
      <4>1. comp /\ ~valid_q[1]
        BY <1>2, <2>1, <3>3
      <4>2. instr_rdata_i = lo
        BY <1>2, <3>3 DEF Fifo!rdata
      <4>. QED  BY <1>5, <3>3, <4>1, <4>2 DEF Fifo!err_unaligned
    <3>. QED  BY <1>2, <3>1, <3>2, <3>3
  <2>5. ~comp => (Fifo!err_plus2 <=> mem[hi].err /\ ~mem[lo].err)
    BY <1>2, <2>1 DEF Fifo!err_plus2
  <2>6. /\ o.err = Stream!Err(instr_addr_q)
        /\ o.err => (o.plus2 <=> ~mem[lo].err)
    <3>1. Fifo!out_err_o <=> Fifo!err_unaligned
      BY <1>7 DEF Fifo!out_err_o
    <3>2. Fifo!out_err_plus2_o <=> Fifo!err_plus2
      BY <1>7 DEF Fifo!out_err_plus2_o
    <3>3. Stream!Err(instr_addr_q) <=> mem[lo].err \/ (~comp /\ mem[hi].err)
      BY <1>3, <1>4, <1>7 DEF Stream!Err
    <3>4. o.err <=> Stream!Err(instr_addr_q)
      BY <1>6, <2>4, <3>1, <3>3
    <3>5. o.err = Stream!Err(instr_addr_q)
      BY <1>9, <3>4
    <3>6. o.err => (o.plus2 <=> ~mem[lo].err)
      BY <1>6, <2>4, <2>5, <3>1, <3>2
    <3>. QED  BY <3>5, <3>6
  <2>. QED  BY <1>3, <1>4, <1>7, <2>2, <2>3, <2>6 DEF Stream!Renders, o
<1>8. CASE ~Fifo!Unaligned(instr_addr_q)
  <2>1. o.lo = lo /\ o.hi = lo
    BY <1>2, <1>6, <1>8 DEF Fifo!out_rdata_o
  <2>2. o.err <=> mem[lo].err
    BY <1>2, <1>6, <1>8 DEF Fifo!out_err_o, Fifo!err
  <2>3. Stream!Err(instr_addr_q) <=> mem[lo].err
    BY <1>3, <1>8 DEF Stream!Err
  <2>4. o.err = Stream!Err(instr_addr_q)
    BY <1>9, <2>2, <2>3
  <2>5. o.err => (o.plus2 <=> ~mem[lo].err)
    BY <1>6, <1>8, <2>2 DEF Fifo!out_err_plus2_o
  <2>. QED  BY <1>3, <1>8, <2>1, <2>4, <2>5 DEF Stream!Renders, o
<1>. QED  BY <1>7, <1>8

\* "Nothing on offer" is never taken for an instruction.
LEMMA OfferedIsValid ==
  ASSUME IInv
  PROVE  Stream!Offered <=> Fifo!out_valid_o
<1>1. mem \in [Words -> [c0 : BOOLEAN, c1 : BOOLEAN, err : BOOLEAN]]
  BY ProgramsAssumption DEF IInv, TypeOK
<1>2. /\ valid_q \in [Fifo!Entries -> BOOLEAN] /\ rdata_q \in [Fifo!Entries -> Words]
      /\ instr_rdata_i \in Words
      /\ fifo_valid \in BOOLEAN
  BY HeadType DEF IInv, TypeOK, Fifo!FifoTypeOK, fifo_valid, Inputs
<1>3. Fifo!rdata \in Words /\ Fifo!rdata1 \in Words
  BY <1>2 DEF Fifo!rdata, Fifo!rdata1
<1>4. Fifo!out_rdata_o.lo \in Words /\ Fifo!out_rdata_o.hi \in Words
  BY <1>3 DEF Fifo!out_rdata_o
<1>5. Fifo!out_err_o \in BOOLEAN /\ Fifo!out_err_plus2_o \in BOOLEAN
  <2>1. mem[Fifo!rdata].err \in BOOLEAN
    BY <1>1, <1>3
  <2>. QED  BY <1>2, <2>1 DEF Fifo!out_err_o, Fifo!err_unaligned, Fifo!err, Fifo!out_err_plus2_o
<1>. DEFINE o == [lo |-> Fifo!out_rdata_o.lo, hi |-> Fifo!out_rdata_o.hi,
                  err |-> Fifo!out_err_o, plus2 |-> Fifo!out_err_plus2_o]
<1>6. o \in [lo : Words, hi : Words, err : BOOLEAN, plus2 : BOOLEAN]
  <2>. HIDE DEF Words
  <2>. QED  BY <1>4, <1>5
<1>7. o # NoInstr
  <2>. HIDE DEF o, Words
  <2>. QED  BY <1>6, NoInstrAssumption
<1>. QED  BY <1>7 DEF Stream!Offered, offered

\* Front and OfferRenders in the next state.
LEMMA FrontNext ==
  (IInv /\ InOrder /\ Fifo!valid => Fifo!rdata = Fifo!Word(instr_addr_q))'
<1>1. IInv /\ InOrder /\ Fifo!valid => Fifo!rdata = Fifo!Word(instr_addr_q)
  BY Front
<1>. QED  BY <1>1, PTL

LEMMA OfferNext ==
  (IInv /\ InOrder
     => /\ Stream!Offered <=> Fifo!out_valid_o
        /\ Fifo!out_valid_o => Stream!Renders(offered, instr_addr_q))'
<1>1. IInv /\ InOrder
        => /\ Stream!Offered <=> Fifo!out_valid_o
           /\ Fifo!out_valid_o => Stream!Renders(offered, instr_addr_q)
  BY OfferRenders, OfferedIsValid
<1>. QED  BY <1>1, PTL

\* What the IF stage has not taken stays on offer.
LEMMA OfferKept ==
  ASSUME IInv, InOrder, Clock, InOrder', IInv', Fifo!out_valid_o, ~in.ready, ~in.branch
  PROVE  Fifo!out_valid_o' /\ instr_addr_q' = instr_addr_q
<1>1. ~Fifo!pop_fifo /\ instr_addr_q' = instr_addr_q
  BY DEF Fifo!pop_fifo, Clock, Fifo!FifoClock
<1>2. PICK fill \in 0 .. NUM_REQS + 1, s \in 0 .. Len(inflight) : Position(fill, s)
  BY DEF InOrder
<1>. DEFINE total == IF fifo_valid THEN fill + 1 ELSE fill
            lo == Fifo!Word(instr_addr_q)
<1>3. /\ \A i \in Fifo!Entries : valid_q'[i] <=> i < total - 0
      /\ fifo_valid <=> in.rvalid /\ s = 0
  BY <1>1, <1>2, StepFifo
<1>4. 0 \in Fifo!Entries /\ 1 \in Fifo!Entries
  OBVIOUS
<1>5. \A i \in Fifo!Entries : valid_q[i] <=> i < fill
  BY <1>2 DEF Position
<1>6. Fifo!valid => valid_q'[0]
  <2>1. Fifo!valid => 0 < total - 0
    BY <1>4, <1>5 DEF Fifo!valid
  <2>. HIDE DEF total
  <2>. QED  BY <1>3, <1>4, <2>1
<1>7. Fifo!valid_unaligned => valid_q'[1]
  <2>1. Fifo!valid_unaligned => 1 < total - 0
    BY <1>4, <1>5 DEF Fifo!valid_unaligned
  <2>. HIDE DEF total
  <2>. QED  BY <1>3, <1>4, <2>1
<1>8. Fifo!valid' /\ Fifo!valid
  BY <1>6, ValidFront DEF Fifo!valid
<1>9. Fifo!rdata' = Fifo!Word(instr_addr_q)'
  BY <1>8, FrontNext
<1>10. Fifo!rdata' = Fifo!rdata
  BY <1>1, <1>8, <1>9, Front
<1>11. Fifo!unaligned_is_compressed' <=> Fifo!unaligned_is_compressed
  BY <1>10 DEF Fifo!unaligned_is_compressed, Fifo!err, Clock, Memory
<1>. QED  BY <1>1, <1>6, <1>7, <1>8, <1>11
          DEF Fifo!out_valid_o, Fifo!valid, Fifo!valid_unaligned

\* Reset offers nothing and expects the instruction at address 0.
LEMMA InitStream == Init => Stream!Init
<1>. SUFFICES ASSUME Init PROVE Stream!Init
  OBVIOUS
<1>1. IInv
  BY InitInv
<1>2. ~Fifo!out_valid_o
  <2>1. ~valid_q[0] /\ ~valid_q[1]
    BY DEF Init, Fifo!FifoInit
  <2>2. ~in.rvalid
    BY DEF Init
  <2>. QED  BY <2>1, <2>2 DEF Fifo!out_valid_o, Fifo!valid, Fifo!valid_unaligned, fifo_valid
<1>. QED  BY <1>1, <1>2, OfferedIsValid DEF Init, Fifo!FifoInit, Stream!Init

\* A clock cycle is a step of the stream.
LEMMA StepStream ==
  IInv /\ InOrder /\ IInv' /\ InOrder' /\ Clock => Stream!Next
<1>. SUFFICES ASSUME IInv, InOrder, IInv', InOrder', Clock PROVE Stream!Next
  OBVIOUS
<1>1. Stream!PcStep
  <2>. DEFINE cmd == [branch |-> in.branch, addr |-> in.addr, ready |-> in.ready]
  <2>1. cmd.branch = in.branch /\ cmd.addr = in.addr /\ cmd.ready = in.ready
    OBVIOUS
  <2>2. Stream!Offered <=> Fifo!out_valid_o
    BY OfferedIsValid
  <2>3. Fifo!out_valid_o => (Fifo!addr_incr_two <=> Stream!Compressed(instr_addr_q))
    <3>. SUFFICES ASSUME Fifo!out_valid_o
                  PROVE  Fifo!addr_incr_two <=> Stream!Compressed(instr_addr_q)
      OBVIOUS
    <3>1. Fifo!rdata = Fifo!Word(instr_addr_q)
      BY ValidFront, Front
    <3>. QED  BY <3>1 DEF Fifo!addr_incr_two, Fifo!unaligned_is_compressed,
                Fifo!aligned_is_compressed, Fifo!err, Stream!Compressed, Stream!FirstWord,
                Fifo!Word, Stream!Unaligned, Fifo!Unaligned
  <2>. QED  BY <2>1, <2>2, <2>3 DEF Stream!PcStep, Stream!Next32, Stream!Plus, Fifo!Plus,
              Clock, Fifo!FifoClock, Fifo!instr_addr_d
<1>2. Stream!OfferStep
  <2>1. /\ Stream!Offered <=> Fifo!out_valid_o
        /\ Stream!Offered' <=> Fifo!out_valid_o'
    BY OfferedIsValid, OfferNext
  <2>2. Fifo!out_valid_o' => Stream!Renders(offered', instr_addr_q')
    <3>1. mem' = mem
      BY DEF Clock, Memory
    <3>. QED  BY <3>1, OfferNext DEF Stream!Renders, Stream!Err, Stream!Compressed
  <2>. QED  BY <2>1, <2>2, OfferKept DEF Stream!OfferStep
<1>3. UNCHANGED mem
  BY DEF Clock, Memory
<1>. QED  BY <1>1, <1>2, <1>3 DEF Stream!Next

\* A cycle in which nothing moves shows the IF stage nothing new.
LEMMA StutterStream ==
  UNCHANGED vars => UNCHANGED Stream!vars /\ (InOrder => InOrder')
<1>. SUFFICES ASSUME UNCHANGED vars PROVE UNCHANGED Stream!vars /\ (InOrder => InOrder')
  OBVIOUS
<1>1. /\ in' = in /\ mem' = mem /\ instr_addr_q' = instr_addr_q
      /\ valid_q' = valid_q /\ rdata_q' = rdata_q /\ inflight' = inflight
      /\ branch_discard_q' = branch_discard_q
      /\ valid_req_q' = valid_req_q /\ req_stale' = req_stale
      /\ stored_addr_q' = stored_addr_q /\ fetch_addr_q' = fetch_addr_q
  BY DEF vars, clocked, regs
<1>2. InOrder => InOrder'
  BY <1>1 DEF InOrder, Position
<1>3. fifo_valid' = fifo_valid /\ instr_rdata_i' = instr_rdata_i
  BY <1>1 DEF fifo_valid, instr_rdata_i
<1>4. Fifo!rdata' = Fifo!rdata /\ Fifo!rdata1' = Fifo!rdata1
  BY <1>1, <1>3 DEF Fifo!rdata, Fifo!rdata1
<1>5. Fifo!out_rdata_o' = Fifo!out_rdata_o
  BY <1>1, <1>4 DEF Fifo!out_rdata_o
<1>6. /\ Fifo!err' = Fifo!err
      /\ Fifo!unaligned_is_compressed' = Fifo!unaligned_is_compressed
      /\ Fifo!valid' = Fifo!valid /\ Fifo!valid_unaligned' = Fifo!valid_unaligned
  BY <1>1, <1>3, <1>4 DEF Fifo!err, Fifo!unaligned_is_compressed, Fifo!valid,
                          Fifo!valid_unaligned
<1>7. Fifo!err_unaligned' = Fifo!err_unaligned /\ Fifo!err_plus2' = Fifo!err_plus2
  BY <1>1, <1>3, <1>6 DEF Fifo!err_unaligned, Fifo!err_plus2
<1>8. /\ Fifo!out_valid_o' = Fifo!out_valid_o
      /\ Fifo!out_err_o' = Fifo!out_err_o
      /\ Fifo!out_err_plus2_o' = Fifo!out_err_plus2_o
  BY <1>1, <1>6, <1>7 DEF Fifo!out_valid_o, Fifo!out_err_o, Fifo!out_err_plus2_o
<1>. QED  BY <1>1, <1>2, <1>5, <1>8 DEF Stream!vars, offered

\* The valid entries of the FIFO, the words under way that are not stale, the
\* request that waits for its grant and the next fetch address are consecutive
\* words from the one instr_addr_q is in.
THEOREM AlwaysInOrder == Spec => []InOrder
<1>1. IInv /\ InOrder /\ [Clock]_vars => InOrder'
  BY StepOrder, StutterStream
<1>. QED  BY <1>1, InitOrder, Invariance, PTL DEF Spec

\* What the IF stage sees is the program in order from the last branch target
\* on, each instruction whole, with its own error flags, and held until taken.
THEOREM Implementation == Spec => ImplementsStream
<1>1. IInv /\ InOrder /\ IInv' /\ InOrder' /\ [Clock]_vars
        => [Stream!Next]_(Stream!vars)
  BY StepStream, StutterStream
<1>. QED  BY <1>1, InitStream, Invariance, AlwaysInOrder, PTL
          DEF Spec, ImplementsStream, Stream!Spec
=============================================================================
