-------------------------------- MODULE Hart --------------------------------
(***************************************************************************)
(* What the pipeline promises software and debugger: a sequential machine  *)
(* that executes one instruction after the other, each either completely   *)
(* or, when it traps, not at all, and takes interrupts and debug requests  *)
(* between instructions.  It has no stages and no signals: ir is the       *)
(* instruction under way, or NoInstr between two, and pc its address, or   *)
(* that of the next one.                                                   *)
(*                                                                         *)
(* What an instruction is (Instrs) and the addresses are those of Pipeline. *)
(***************************************************************************)
CONSTANTS Pcs, Succ, Boot, Entry, Triggers, Tw, Instrs, NoInstr

VARIABLES pc, ir,
          priv, mstatus, mepc,
          mstack,         \* mstatus and mepc before the last trap
          nmi,            \* in an NMI handler
          debug,          \* in debug mode
          dcsr, dpc,
          stepped         \* the one instruction of a single step is done

csrs == <<mstatus, mepc, mstack, dcsr, dpc>>
mode == <<priv, nmi, debug>>
vars == <<pc, ir, csrs, mode, stepped>>

Init ==
  /\ pc = Boot /\ ir = NoInstr
  /\ priv = "M" /\ nmi = FALSE /\ debug = FALSE /\ stepped = FALSE
  /\ mstatus = [mie |-> FALSE, mpie |-> FALSE, mpp |-> "M"]
  /\ mstack.mpie = TRUE /\ mstack.mpp = "U"
  /\ dcsr = [step |-> FALSE, ebreakm |-> FALSE, ebreaku |-> FALSE, prv |-> "M"]

-----------------------------------------------------------------------------
\* An instruction may begin whenever the one before has ended, but none
\* begins at a breakpoint or after a single step: debug mode comes first.
Begin == \/ ir' = NoInstr
         \/ ir' \in Instrs /\ ~stepped' /\ (pc' \in Triggers => debug')

\* The instruction in ir ends, and execution goes on at a.
EndAt(a) == /\ ir # NoInstr
            /\ pc' = a
            /\ stepped' = (dcsr.step /\ ~debug)
            /\ Begin

Illegal ==
  \/ ir.illegal \/ ir.group
  \/ ir.kind = "dret" /\ ~debug
  \/ ir.kind = "mret" /\ priv # "M"
  \/ ir.kind = "wfi"  /\ priv # "M" /\ Tw
  \/ ir.kind = "csr"  /\ \/ priv # "M"
                         \/ ir.csr \in {"dcsr", "dpc"} /\ ~debug
                         \/ ir.csr = "none"

Halts == \/ debug
         \/ priv = "M" /\ dcsr.ebreakm
         \/ priv = "U" /\ dcsr.ebreaku

Faults == ir.err \/ Illegal

Traps == \/ Faults
         \/ ir.kind = "ecall"
         \/ ir.kind = "ebreak" /\ ~Halts
         \/ ir.kind \in {"load", "store", "vec"} /\ ir.fails

Legal(kinds) == ir.kind \in kinds /\ ~Faults

-----------------------------------------------------------------------------
(* The steps.                                                              *)

Fetch == /\ ir = NoInstr
         /\ ir' # NoInstr /\ Begin
         /\ UNCHANGED <<pc, csrs, mode, stepped>>

Complete ==
  /\ Legal({"op", "muldiv", "load", "store", "vec", "wfi", "branch", "jump"})
  /\ ~Traps
  /\ EndAt(IF ir.kind = "jump" \/ (ir.kind = "branch" /\ ir.taken)
           THEN ir.arg ELSE Succ[pc])
  /\ UNCHANGED <<csrs, mode>>

Apply(old, w) == CASE ir.op = "WRITE" -> w
                   [] ir.op = "SET"   -> old \/ w
                   [] ir.op = "CLEAR" -> old /\ ~w

\* The levels S and H, which the core does not have, are written as M.
High(l) == l \in {"M", "H"}
Low(l)  == l \in {"M", "S"}
ApplyLevel(old, w) ==
  IF Apply(High(old), High(w)) \/ Apply(Low(old), Low(w)) THEN "M" ELSE "U"

Csr ==
  /\ Legal({"csr"})
  /\ EndAt(Succ[pc])
  /\ LET set(csr) == ir.csr = csr /\ ir.op # "READ"
     IN /\ mstatus' = IF set("mstatus")
                      THEN [mie  |-> Apply(mstatus.mie, ir.arg.mie),
                            mpie |-> Apply(mstatus.mpie, ir.arg.mpie),
                            mpp  |-> ApplyLevel(mstatus.mpp, ir.arg.mpp)]
                      ELSE mstatus
        /\ dcsr' = IF set("dcsr")
                   THEN [step    |-> Apply(dcsr.step, ir.arg.step),
                         ebreakm |-> Apply(dcsr.ebreakm, ir.arg.ebreakm),
                         ebreaku |-> Apply(dcsr.ebreaku, ir.arg.ebreaku),
                         prv     |-> ApplyLevel(dcsr.prv, ir.arg.prv)]
                   ELSE dcsr
        /\ mepc' = IF set("mepc") THEN ir.arg ELSE mepc
        /\ dpc'  = IF set("dpc")  THEN ir.arg ELSE dpc
  /\ UNCHANGED <<mode, mstack>>

\* A trap saves where and in which state it was taken, and one level of
\* what was saved before.
SaveState ==
  /\ mepc' = pc
  /\ mstatus' = [mie |-> FALSE, mpie |-> mstatus.mie, mpp |-> priv]
  /\ mstack' = [mpie |-> mstatus.mpie, mpp |-> mstatus.mpp, epc |-> mepc]
  /\ priv' = "M"
  /\ UNCHANGED <<dcsr, dpc, debug>>

Exception ==
  /\ ir # NoInstr /\ Traps /\ ~debug
  /\ EndAt(Entry["EXC"])
  /\ SaveState
  /\ UNCHANGED nmi

\* In debug mode an exception leaves no trace.
DebugException ==
  /\ ir # NoInstr /\ Traps /\ debug
  /\ EndAt(Entry["DBG_EXC"])
  /\ priv' = "M"
  /\ UNCHANGED <<csrs, nmi, debug>>

Mret ==
  /\ Legal({"mret"})
  /\ EndAt(mepc)
  /\ priv' = mstatus.mpp
  /\ IF nmi
     THEN /\ mstatus' = [mie |-> mstatus.mpie, mpie |-> mstack.mpie, mpp |-> mstack.mpp]
          /\ mepc' = mstack.epc
     ELSE /\ mstatus' = [mie |-> mstatus.mpie, mpie |-> TRUE, mpp |-> "U"]
          /\ UNCHANGED mepc
  /\ nmi' = FALSE
  /\ UNCHANGED <<mstack, dcsr, dpc, debug>>

Dret ==
  /\ Legal({"dret"})
  /\ EndAt(dpc)
  /\ priv' = dcsr.prv /\ debug' = FALSE
  /\ UNCHANGED <<csrs, nmi>>

Interrupt ==
  /\ ir = NoInstr /\ ~debug /\ ~nmi /\ ~stepped
  /\ \/ pc' = Entry["NM"] /\ nmi' = TRUE
     \/ mstatus.mie /\ pc' = Entry["IRQ"] /\ UNCHANGED nmi
  /\ SaveState
  /\ UNCHANGED <<ir, stepped>>

\* Into debug mode, saving what DRET needs.
EnterDebug == /\ debug' = TRUE /\ priv' = "M"
              /\ dcsr' = [dcsr EXCEPT !.prv = priv] /\ dpc' = pc

\* A debug request, the end of a single step or a breakpoint.
Halt == /\ ir = NoInstr /\ ~debug
        /\ EnterDebug
        /\ pc' = Entry["DBG"] /\ ir' = NoInstr /\ stepped' = FALSE
        /\ UNCHANGED <<mstatus, mepc, mstack, nmi>>

\* EBREAK, when it halts; in debug mode it only starts the debugger's code
\* over.
Ebreak == /\ Legal({"ebreak"}) /\ Halts
          /\ IF debug THEN UNCHANGED <<debug, priv, dcsr, dpc>> ELSE EnterDebug
          /\ pc' = Entry["DBG"] /\ ir' = NoInstr /\ stepped' = FALSE
          /\ UNCHANGED <<mstatus, mepc, mstack, nmi>>

Next == \/ Fetch \/ Complete \/ Csr
        \/ Exception \/ DebugException \/ Mret \/ Dret
        \/ Interrupt \/ Halt \/ Ebreak

Spec == Init /\ [][Next]_vars
=============================================================================
