---------------------------- MODULE MCScalarMemory ----------------------------
(***************************************************************************)
(* Model checking ScalarMemory: two words of memory, so that an access to  *)
(* the last word wraps around to the first, all sizes at all alignments,   *)
(* each part of an access blocked by the PMP or not.                       *)
(***************************************************************************)
EXTENDS ScalarMemory

MCNWords == 2

Other == [mem |-> FALSE, we |-> FALSE, type |-> "word", sext |-> FALSE,
          addr |-> [word |-> 0, lane |-> 0], blocked |-> {}]

MCAccesses ==
  { i \in InstrType :
      /\ i.mem
      /\ i.sext => ~i.we /\ i.type # "word"
      /\ i.addr.word = 1 => i.addr.lane \in {0, 3}
      /\ \A w \in i.blocked : w = i.addr.word \/ Crosses(i) }

MCInstrs == MCAccesses \cup {Other}
=============================================================================
