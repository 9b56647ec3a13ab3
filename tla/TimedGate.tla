------------------------------- MODULE TimedGate -------------------------------
(***************************************************************************)
(* Gate with a memory for lateness: whether any receipt or timeout has     *)
(* been overdue so far. Nothing reads it but the property below.           *)
(***************************************************************************)
EXTENDS GateInv

VARIABLE late        \* history: some receipt or timeout has been overdue

timedVars == <<vars, late>>

TimedInit == Init /\ late = FALSE

TimedNext == Next /\ late' = (late \/ ~Prompt')

TimedSpec == TimedInit /\ [][TimedNext]_timedVars

(***************************************************************************)
(* Invariant 4 of docs/verification.md to the letter: up to the first late *)
(* receipt, continue_chain brings on the target of the next member exactly *)
(* three receipts behind the one before it.                                *)
(***************************************************************************)
ExactUntilLate == late \/ ExactQuantum
=============================================================================
