------------------------------- MODULE GateInv -------------------------------
(***************************************************************************)
(* The inductive invariants behind Gate's properties: what GateProofs and  *)
(* GateChainProofs prove, and what the runs of MCGate check beforehand.    *)
(***************************************************************************)
EXTENDS Gate

\* Whoever still needs the arguments of an intent finds them.
Known ==
    /\ \A i \in yields : intents[i] \in Held
    /\ \A c \in calls : intents[c.id] \in Held

(***************************************************************************)
(* The life of an intent goes one way: held, resumed, called, run. An id   *)
(* not yet allocated is in none of these, a payload is only ever sent for  *)
(* an intent that has left the pending map, and no stage holds an id twice.*)
(***************************************************************************)
LifeInv ==
    /\ pending \subseteq yields
    /\ \A i \in yields : i < next_intent_id /\ ran_at[i] = None /\ i \notin lost
    /\ \A r \in resumes : r.id < next_intent_id /\ r.id \notin pending
    /\ \A r, q \in resumes : r.id = q.id => r = q
    /\ \A c \in calls :
          c.id < next_intent_id /\ c.id \notin yields /\ ran_at[c.id] = None
    /\ \A c, d \in calls : c.id = d.id => c = d
    /\ \A i \in Ids : i >= next_intent_id =>
          ran_at[i] = None /\ intents[i] = None /\ slot[i].batch = 0 /\ i \notin lost
    /\ \A i \in pending : slot[i].batch = 0

\* Every nonce of an accepted intent is burnt.
NonceInv ==
    /\ \A i \in Ids : intents[i] # None => NonceKey(Delegate(i)) \in used_nonces
    /\ NoReplay

(***************************************************************************)
(* The batch whose tail is in storage, and how many of its members have    *)
(* had their turn.                                                         *)
(***************************************************************************)
Members == batches[active_batch_id]
Cursor == Len(Members) - Len(batch_chain_tail)

\* The tail is what the cursor has not reached of the latest batch.
TailInv ==
    /\ Len(batches) = active_batch_id
    /\ batch_chain_tail # <<>> =>
          /\ active_batch_id > 0
          /\ Cursor > 0
          /\ \A j \in 1..Len(batch_chain_tail) :
                batch_chain_tail[j] = Members[Cursor + j]

(***************************************************************************)
(* A link stands at the cursor, whatever its form: it was made by the      *)
(* member whose turn is on and is meant for the head of the tail.          *)
(***************************************************************************)
LinkInv ==
    /\ \A r \in ChainResumes :
          /\ batch_chain_tail # <<>> /\ r.next = Head(batch_chain_tail)
          /\ r.seq = Cursor - 1 /\ r.id = Members[Cursor]
    /\ \A c \in ChainCalls :
          /\ batch_chain_tail # <<>> /\ c.next = Head(batch_chain_tail)
          /\ c.seq = Cursor /\ c.id = Members[Cursor]
    /\ \A t \in thens :
          /\ batch_chain_tail # <<>> /\ t.next = Head(batch_chain_tail)
          /\ t.seq = Cursor /\ t.from = Members[Cursor]
          /\ ran_at[t.from] # None

\* There is never more than one link.
OneLink ==
    /\ \A r, q \in ChainResumes : r = q
    /\ \A c, d \in ChainCalls : c = d
    /\ \A t, u \in thens : t = u
    /\ ChainResumes = {} \/ ChainCalls = {}
    /\ thens = {} \/ (ChainResumes = {} /\ ChainCalls = {})

ChainInv == CoordinatorOrder /\ TailInv /\ LinkInv /\ OneLink

(***************************************************************************)
(* Why a tail is not for ever: some link will bring the chain to its head, *)
(* and a payload among these is one of the batch's earlier members.        *)
(***************************************************************************)
Reached(i) == \E j \in 1..Cursor : Members[j] = i

Advancing ==
    \/ \E r \in ChainResumes : r.next = Head(batch_chain_tail) /\ Reached(r.id)
    \/ \E c \in ChainCalls : c.next = Head(batch_chain_tail)
    \/ \E t \in thens : t.next = Head(batch_chain_tail)

Excused(b) == ListsTwice(batches[b]) \/ Abandoned(b)

\* Whoever took a turn in the latest batch stands before its cursor.
TurnsInv ==
    /\ \A i \in Ids : slot[i].batch <= active_batch_id
    /\ batch_chain_tail # <<>> =>
          /\ \A i \in Ids : slot[i].batch = active_batch_id => Reached(i)
          /\ \A j \in 1..Len(Members) : Members[j] < next_intent_id

StuckInv ==
    /\ TailInv /\ TurnsInv
    /\ batch_chain_tail # <<>> => Advancing \/ Excused(active_batch_id)

(***************************************************************************)
(* Where a chain may be after the owner has reset the tail under it: its   *)
(* link still stands between two neighbours of the batch it comes from. If *)
(* no id is listed twice, in one batch or in two, such a link can only     *)
(* continue its own batch.                                                 *)
(***************************************************************************)
ListedOnce ==
    \A b, c \in 1..Len(batches) :
        \A j \in 1..Len(batches[b]), k \in 1..Len(batches[c]) :
            batches[b][j] = batches[c][k] => b = c /\ j = k

Neighbours(i, n, k) ==
    \E b \in 1..Len(batches) :
        k \in 1..(Len(batches[b]) - 1) /\ batches[b][k] = i /\ batches[b][k + 1] = n

LooseInv ==
    /\ CoordinatorOrder
    /\ \A r \in resumes : r.next # None =>
          r.seq \in Nat /\ Neighbours(r.id, r.next, r.seq + 1)
    /\ \A c \in ChainCalls : Neighbours(c.id, c.next, c.seq)
    /\ \A t \in thens : Neighbours(t.from, t.next, t.seq) /\ ran_at[t.from] # None

(***************************************************************************)
(* The pace of a batch: each receipt on the way from one target to the     *)
(* next was created one delay after the one before, or later; to the block *)
(* (exact) where no receipt is late.                                       *)
(***************************************************************************)
Follows(i) == slot[i].batch > 0 /\ slot[i].seq > 0
Pred(i) == batches[slot[i].batch][slot[i].seq]

Apart(late, early, exact) == late >= early /\ (exact => late = early)

Paced(exact) ==
    /\ \A t \in thens : Apart(t.at, ran_at[t.from], exact)
    /\ \A r \in resumes : Follows(r.id) =>
          Apart(r.at, ran_at[Pred(r.id)] + ReceiptDelay, exact)
    /\ \A c \in calls : Follows(c.id) =>
          Apart(c.at, ran_at[Pred(c.id)] + 2 * ReceiptDelay, exact)
    /\ \A i \in Ids : Follows(i) /\ ran_at[i] # None =>
          Apart(ran_at[i], ran_at[Pred(i)] + 3 * ReceiptDelay, exact)

PaceInv == Paced(FALSE)

\* No receipt or timeout is overdue.
Prompt ==
    /\ \A m \in resumes \cup calls \cup thens : height <= m.at + ReceiptDelay
    /\ \A i \in yields : height <= intents[i].at + YieldTimeout

(***************************************************************************)
(* Invariant 4 of docs/verification.md to the letter: with no receipt      *)
(* late, the quantum between neighbours of a batch is exactly three        *)
(* receipts.                                                               *)
(***************************************************************************)
ExactQuantum ==
    \A i \in Ids : LET b == slot[i].batch
                       k == slot[i].seq
                   IN  (b > 0 /\ k > 0 /\ ran_at[i] # None)
                         => ran_at[i] = ran_at[batches[b][k]] + 3 * ReceiptDelay
-----------------------------------------------------------------------------

(***************************************************************************)
(* Where an intent stands, read off the contract and the receipts. One     *)
(* that left its yield without a call was rejected, by the approver or by  *)
(* the timeout.                                                            *)
(***************************************************************************)
Called(i) == \E c \in calls : c.id = i

StageOf(i) ==
    IF i >= next_intent_id THEN "new"
    ELSE IF i \in pending THEN "held"
    ELSE IF i \in yields THEN "resumed"
    ELSE IF Called(i) THEN "called"
    ELSE IF ran_at[i] # None THEN "ran"
    ELSE IF i \in lost THEN "lost"
    ELSE "rejected"

Promise == INSTANCE IntentPromise
           WITH Intents <- Ids, stage <- [i \in Ids |-> StageOf(i)], turn <- slot

(***************************************************************************)
(* The gate implements IntentPromise while the owner resets only a dead    *)
(* chain: no race of resumes, timeouts and chains settles an intent twice, *)
(* and every turn in a batch is given behind a target that has run.        *)
(***************************************************************************)
KeepsPromise == Promise!Spec
=============================================================================
