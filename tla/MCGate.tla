------------------------------- MODULE MCGate -------------------------------
(***************************************************************************)
(* Gate for TLC: one account that is relayer and approver at once (two     *)
(* where a cfg says so), delegates with distinct nonces.                   *)
(***************************************************************************)
EXTENDS GateInv, TLC

CONSTANTS Nonces, Sender

Sound(n, expiry, gas, deposit) ==
    [sender |-> Sender, nonce |-> n, max_block_height |-> expiry,
     decodes |-> TRUE, verifies |-> TRUE, actions |-> 1,
     gas |-> gas, deposit |-> deposit]

FreeLadder == <<[cap |-> MaxBatch, fee |-> 0]>>

\* A ladder where the pair costs more than the single.
PaidLadder == <<[cap |-> 1, fee |-> 1], [cap |-> 2, fee |-> 2]>>

\* Calls that fit in the callback with continue_chain behind them.
SmallDelegates == {Sound(n, 1, 1, 0) : n \in Nonces}

\* The same, valid for as long as the model runs.
LastingDelegates == {Sound(n, MaxHeight + 1, 1, 0) : n \in Nonces}

NonceSymmetry == Permutations(Nonces)
=============================================================================
