------------------------------- MODULE MCRunner -------------------------------
(***************************************************************************)
(* SequenceRun for TLC: two runs of two jobs each, in every combination.   *)
(***************************************************************************)
EXTENDS RunnerInv, TLC

Sequence(target, order) == [kind |-> "sequence", target |-> target, order |-> order]
Single(kind, target) == [kind |-> kind, target |-> target, order |-> <<1>>]

\* A swapped pair for each target, a batch no tier admits, and one rejection.
MixedJobs ==
    {Sequence("register", <<2, 1>>), Sequence("ftShim", <<2, 1>>),
     Sequence("register", <<1, 3, 2>>), Single("claim", "ftShim"),
     Single("reject", "register")}

RegisterJobs == {Sequence("register", <<2, 1>>)}

RunDelegates ==
    {JobDelegate(r, j, k) : r \in 1..MaxRuns, j \in Jobs, k \in 1..3}

\* The mirrored ladder, and a dearer one the owner may install.
PairLadder == <<[cap |-> 1, fee |-> 1], [cap |-> 2, fee |-> 2]>>
DearLadder == <<[cap |-> 1, fee |-> 1], [cap |-> 2, fee |-> 3]>>
Ladders == {DearLadder}
=============================================================================
