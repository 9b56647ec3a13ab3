------------------------------- MODULE Register -------------------------------
(***************************************************************************)
(* The register target (contracts/register/src/lib.rs): a last-writer-wins *)
(* value with the log of all writes. Neither call is access-controlled.    *)
(***************************************************************************)
EXTENDS Naturals, Sequences

VARIABLES current, log, set_count

registerVars == <<current, log, set_count>>

RegisterInit == current = 0 /\ log = <<>> /\ set_count = 0

SetUncounted(value) ==
    current' = value /\ log' = Append(log, value) /\ UNCHANGED set_count

Set(value) ==
    /\ current' = value
    /\ log' = Append(log, value)
    /\ set_count' = set_count + 1

Get == <<current, log, set_count>>

Reset == current' = 0 /\ log' = <<>> /\ set_count' = 0
=============================================================================
