-------------------------------- MODULE MCTimed --------------------------------
(***************************************************************************)
(* TimedGate for TLC. The constraint cuts what a pace does not depend on,  *)
(* and no late receipt of a batch.                                         *)
(***************************************************************************)
EXTENDS TimedGate, MCGate

CONSTANT LastStart   \* the last block in which a batch may start

\* All intents are submitted in the first block, by a relayer that stays.
SubmittedAtOnce ==
    /\ height > 0 => next_intent_id = MaxIntents
    /\ next_intent_id > 0 => relayers = Accounts

(***************************************************************************)
(* The first batch starts in the first block, where single resumes fall    *)
(* too. A later one starts by LastStart: its tail may have been reset.     *)
(***************************************************************************)
StartedEarly ==
    \A r \in resumes :
        \/ Follows(r.id)
        \/ r.at = 0
        \/ slot[r.id].batch > 1 /\ r.at <= LastStart

\* Intents of one block are alike but for their ids, so the first batch lists
\* them as they were submitted (with repeats).
InSubmissionOrder ==
    batches # <<>> =>
        \A k \in 1..Len(batches[1]) : \A i \in 0..(batches[1][k] - 1) :
            \E j \in 1..(k - 1) : batches[1][j] = i

Listed(i) == \E b \in 1..Len(batches) : \E k \in 1..Len(batches[b]) : batches[b][k] = i

\* What belongs to no batch has no pace, and is not late.
OnlyBatchesLate ==
    /\ \A m \in resumes \cup calls : Listed(m.id) \/ height <= m.at + ReceiptDelay
    /\ \A i \in yields : Listed(i) \/ height <= intents[i].at + YieldTimeout

TimedBound ==
    SubmittedAtOnce /\ StartedEarly /\ InSubmissionOrder /\ OnlyBatchesLate
=============================================================================
