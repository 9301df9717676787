------------------------------ MODULE MCPipeline ------------------------------
(***************************************************************************)
(* Model checking Pipeline: a ring of two addresses, so that the return    *)
(* address, the target of a jump and the next address differ, and handlers *)
(* at either of them.  Addresses, breakpoint and instructions differ from  *)
(* run to run; any instruction may be fetched from any address.            *)
(***************************************************************************)
EXTENDS Pipeline, Naturals

MCPcs   == {0, 1}
MCSucc  == [p \in MCPcs |-> 1 - p]
MCEntry == [e \in {"EXC", "IRQ", "NM", "DBG", "DBG_EXC"} |->
              IF e \in {"EXC", "DBG"} THEN 1 ELSE 0]

Plain(k) == [kind |-> k, err |-> FALSE, illegal |-> FALSE, group |-> FALSE,
             fails |-> FALSE, taken |-> FALSE, op |-> "READ", csr |-> "none", arg |-> 0]

Csr1(csr, op, arg) ==
  [Plain("csr") EXCEPT !.csr = csr, !.op = op, !.arg = arg]

MieBits == [mie |-> TRUE, mpie |-> FALSE, mpp |-> "S"]
AllBits == [mie |-> TRUE, mpie |-> FALSE, mpp |-> "M"]

AsyncLines == {"irq", "nm"}
DebugLines == {"debug", "irq"}

NoTriggers == {}
OneTrigger == {1}

\* Traps, interrupts and NMIs at both levels.
TrapInstrs ==
  { Plain(k) : k \in {"load", "vec", "wfi", "mret"} }
  \cup { [Plain("load") EXCEPT !.fails = TRUE],
         [Plain("branch") EXCEPT !.taken = TRUE, !.arg = 0],
         [Plain("jump") EXCEPT !.err = TRUE, !.arg = 0],
         Csr1("mstatus", "SET", MieBits), Csr1("mstatus", "CLEAR", AllBits) }

\* Debug mode: requests, single steps, breakpoints and EBREAK.
StepBits == [step |-> TRUE, ebreakm |-> FALSE, ebreaku |-> FALSE, prv |-> "M"]
HaltBits == [step |-> FALSE, ebreakm |-> TRUE, ebreaku |-> FALSE, prv |-> "M"]

DebugInstrs ==
  { Plain(k) : k \in {"op", "muldiv", "wfi", "ebreak", "dret"} }
  \cup { [Plain("store") EXCEPT !.fails = TRUE],
         [Plain("jump") EXCEPT !.arg = 0],
         [Plain("branch") EXCEPT !.taken = TRUE, !.arg = 1],
         Csr1("mstatus", "SET", MieBits),
         [Plain("ebreak") EXCEPT !.illegal = TRUE],
         Csr1("dcsr", "WRITE", StepBits), Csr1("dcsr", "SET", HaltBits),
         Csr1("dcsr", "CLEAR", StepBits) }
=============================================================================
