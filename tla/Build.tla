-------------------------------- MODULE Build --------------------------------
(***************************************************************************)
(* The builds of the core: the CI job, or the formal targets that are made *)
(* at the same time.                                                       *)
(***************************************************************************)
EXTENDS Ci, Sv2vInPlace

buildVars == <<ciVars, fVars>>

NoJob == /\ file = Unparsable /\ table = Malformed /\ installed = None
         /\ job = None /\ n = 1 /\ step = 1
         /\ opts = {} /\ simulator = None /\ ran = {} /\ issues = {}

Init == (CiInit \/ NoJob) /\ FormalInit

Next == \/ job = "running" /\ CiNext /\ UNCHANGED fVars
        \/ job = None /\ FormalNext /\ UNCHANGED ciVars

Spec == Init /\ [][Next]_buildVars
=============================================================================
