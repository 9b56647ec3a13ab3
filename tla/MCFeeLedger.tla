---------------------------- MODULE MCFeeLedger ----------------------------
(***************************************************************************)
(* FeeLedger for TLC. The width is small enough that charges overflow it   *)
(* and that withdrawals use it up. Ladders: the default, one with a single *)
(* free tier, one where large batches are cheaper, and one that is refused *)
(* because its caps descend.                                               *)
(***************************************************************************)
EXTENDS FeeLedger

T(cap, fee) == [cap |-> cap, fee |-> fee]

MCDefaultFeeTiers == <<T(1, 1), T(2, 3)>>
MCTierChoices ==
    {<<T(3, 0)>>, <<T(1, 2), T(3, 1)>>, <<T(2, 2), T(1, 1)>>, <<>>, <<T(0, 1)>>}

\* The account's NEAR only grows with charges, which the width bounds, and
\* with what they attach above the fee, which this bounds.
BalanceBound == balance <= 10
=============================================================================
