---------------------------- MODULE IntentPromise ----------------------------
(***************************************************************************)
(* What the gate promises of its intents, without receipts, yields or a    *)
(* tail: an intent goes through its stages one way and is settled once,    *)
(* and a member of a batch has its turn only after the member before it    *)
(* has run. Gate is shown to implement this (GateInv, GateChainProofs).    *)
(***************************************************************************)
EXTENDS Naturals, Sequences

CONSTANTS Intents, MaxBatch

VARIABLES
    stage,    \* how far an intent has come
    batches,  \* the batches opened so far
    turn      \* [batch, seq] of an intent that had its turn in a batch

promiseVars == <<stage, batches, turn>>

\* The stages an intent may come to next.
After == [new |-> {"held"}, held |-> {"resumed", "rejected"},
          resumed |-> {"called", "rejected", "lost"}, called |-> {"ran"},
          ran |-> {}, rejected |-> {}, lost |-> {}]

Init ==
    /\ stage = [i \in Intents |-> "new"]
    /\ batches = <<>>
    /\ turn = [i \in Intents |-> [batch |-> 0, seq |-> 0]]

Move(i) ==
    /\ UNCHANGED <<batches, turn>>
    /\ stage'[i] \in After[stage[i]]
    /\ stage' = [stage EXCEPT ![i] = stage'[i]]

\* An intent has its turn as member k + 1 of batch b.
TakesTurn(i, b, k) ==
    /\ turn' = [turn EXCEPT ![i] = [batch |-> b, seq |-> k]]
    /\ stage[i] = "held"
    /\ stage' = [stage EXCEPT ![i] = "resumed"]

\* A batch of held intents opens with the turn of its first member.
Open(ids) ==
    /\ batches' = Append(batches, ids)
    /\ \A k \in 1..Len(ids) : stage[ids[k]] = "held"
    /\ TakesTurn(ids[1], Len(batches) + 1, 0)

\* Only the latest batch goes on, and only behind a target that has run.
Follow(k) ==
    LET ids == batches[Len(batches)]
    IN  /\ UNCHANGED batches
        /\ TakesTurn(ids[k + 1], Len(batches), k)
        /\ stage[ids[k]] = "ran"

\* That batches change is implied, and spares TLC the enumeration where not.
Next ==
    \/ \E i \in Intents : Move(i)
    \/ batches' # batches /\ \E n \in 1..MaxBatch : \E ids \in [1..n -> Intents] : Open(ids)
    \/ batches # <<>> /\ \E k \in 1..(Len(batches[Len(batches)]) - 1) : Follow(k)

Spec == Init /\ [][Next]_promiseVars
=============================================================================
