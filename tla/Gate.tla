-------------------------------- MODULE Gate --------------------------------
(***************************************************************************)
(* The gate contract (contracts/gate/src/lib.rs) and the part of the NEAR  *)
(* runtime it stands on. A relayer submits signed intents; each is held    *)
(* under a yielded callback until the approver resumes it, alone or as a   *)
(* member of a chained batch, or the yield times out. The callback turns   *)
(* an approved intent into a call of its target, and inside a batch the    *)
(* call's completion runs continue_chain, which resumes the next member.   *)
(*                                                                         *)
(* One action is one receipt: it runs atomically, and one that panics      *)
(* leaves the contract as it was. Receipts in flight are sets, executed    *)
(* ReceiptDelay or more blocks after their creation, in any order.         *)
(*                                                                         *)
(* Assumed of the outside: a target is a contract other than the gate, and *)
(* the NEAR that storage staking locks is not counted.                     *)
(***************************************************************************)
EXTENDS FeeLedger

CONSTANTS
    None,          \* absent value (Option::None)
    Accounts,      \* accounts that may be relayers or the approver
    InitApprover,  \* the approver new() names
    Delegates,     \* the signed delegates a relayer may submit
    MaxIntents,    \* bound on submitted intents
    MaxHeight,     \* bound on the block height
    ReceiptDelay,  \* blocks between a receipt's creation and its execution
    YieldTimeout,  \* blocks after which an unresumed yield times out
    CallbackGas,   \* GAS_YIELD_CALLBACK
    ContinueGas,   \* GAS_CONTINUE_CHAIN
    EarlyReset     \* the owner may reset the tail while its chain is alive

Ids == 0..(MaxIntents - 1)

\* The arguments baked into a yielded callback: the call, and when it was held.
Held == [delegate : Delegates, at : Nat]

(***************************************************************************)
(* A delegate is what submit_intent reads of the SignedDelegateAction: its *)
(* sender, nonce, max_block_height, whether the bytes decode and the       *)
(* signature verifies, how many actions it has, and the gas and deposit of *)
(* the call.                                                               *)
(***************************************************************************)
ASSUME GateAssumption ==
    /\ None \notin Nat
    /\ InitApprover \in Accounts
    /\ MaxIntents \in Nat /\ MaxHeight \in Nat
    /\ ReceiptDelay \in Nat /\ YieldTimeout \in Nat
    /\ CallbackGas \in Nat /\ ContinueGas \in Nat
    /\ EarlyReset \in BOOLEAN
    /\ None \notin Held
    /\ \A d \in Delegates : d.max_block_height \in Nat /\ d.deposit \in Nat

VARIABLES
    \* The contract's state.
    approver_id, relayers,
    pending,             \* ids with an entry in the pending map
    used_nonces,
    next_intent_id, intents_submitted, intents_dispatched, intents_rejected,
    batch_chain_tail, active_batch_id,
    \* The runtime.
    height,
    yields,              \* yielded callbacks that wait for a result
    intents,             \* arguments baked into each yielded callback
    resumes,             \* resume payloads on their way to a callback
    calls,               \* function calls on their way to a target
    thens,               \* continue_chain receipts whose call has completed
    \* History.
    batches,             \* the id lists of all batches, by batch id
    slot,                \* [batch, seq] of a resumed batch member
    ran_at,              \* height at which an intent's target ran
    lost                 \* intents whose callback panicked

accessVars == <<approver_id, relayers>>
submitVars == <<used_nonces, next_intent_id, intents_submitted, intents>>
countVars == <<intents_dispatched, intents_rejected>>
batchVars == <<batch_chain_tail, active_batch_id, batches>>
receiptVars == <<yields, resumes, calls, thens>>
traceVars == <<slot, ran_at, lost>>
gateVars == <<accessVars, pending, submitVars, countVars, batchVars, height,
              receiptVars, traceVars>>
vars == <<feeVars, gateVars>>

Resume == [id : Ids, approve : BOOLEAN, seq : Nat \cup {None},
           next : Ids \cup {None}, at : Nat]
Call == [id : Ids, next : Ids \cup {None}, seq : Nat, at : Nat]
Then == [next : Ids, seq : Nat, from : Ids, at : Nat]

Init ==
    /\ FeeInit
    /\ approver_id = InitApprover
    /\ relayers = {}
    /\ pending = {}
    /\ used_nonces = {}
    /\ next_intent_id = 0
    /\ intents_submitted = 0 /\ intents_dispatched = 0 /\ intents_rejected = 0
    /\ batch_chain_tail = <<>>
    /\ active_batch_id = 0
    /\ height = 0
    /\ yields = {} /\ resumes = {} /\ calls = {} /\ thens = {}
    /\ intents = [i \in Ids |-> None]
    /\ batches = <<>>
    /\ slot = [i \in Ids |-> [batch |-> 0, seq |-> 0]]
    /\ ran_at = [i \in Ids |-> None]
    /\ lost = {}

-----------------------------------------------------------------------------
\* Owner's calls. Those on fees are FeeLedger's.

AddRelayer(a) ==
    /\ relayers' = relayers \cup {a}
    /\ UNCHANGED <<feeVars, approver_id, pending, submitVars, countVars,
                   batchVars, height, receiptVars, traceVars>>

RemoveRelayer(a) ==
    /\ relayers' = relayers \ {a}
    /\ UNCHANGED <<feeVars, approver_id, pending, submitVars, countVars,
                   batchVars, height, receiptVars, traceVars>>

SetApprover(a) ==
    /\ approver_id' = a
    /\ UNCHANGED <<feeVars, relayers, pending, submitVars, countVars,
                   batchVars, height, receiptVars, traceVars>>

ResetBatchTail ==
    /\ batch_chain_tail' = <<>>
    /\ UNCHANGED <<feeVars, accessVars, pending, submitVars, countVars,
                   active_batch_id, batches, height, receiptVars, traceVars>>

-----------------------------------------------------------------------------
\* submit_intent

NonceKey(d) == <<d.sender, d.nonce>>

NonceNeverUsed(d) == FALSE

NonceUsed(d) == NonceKey(d) \in used_nonces

(***************************************************************************)
(* Verify, burn the nonce, allocate an id, yield a callback that carries   *)
(* the call, and enter the id in the pending map.                          *)
(***************************************************************************)
SubmitIntent(by, d) ==
    /\ by \in relayers
    /\ d.decodes
    /\ d.verifies
    /\ d.max_block_height > height
    /\ ~NonceUsed(d)
    /\ d.actions = 1
    /\ next_intent_id \in Ids
    /\ next_intent_id' = next_intent_id + 1
    /\ used_nonces' = used_nonces \cup {NonceKey(d)}
    /\ intents_submitted' = intents_submitted + 1
    /\ intents' = [intents EXCEPT ![next_intent_id] =
                      [delegate |-> d, at |-> height]]
    /\ yields' = yields \cup {next_intent_id}
    /\ pending' = pending \cup {next_intent_id}
    /\ UNCHANGED <<feeVars, accessVars, countVars, batchVars, height,
                   resumes, calls, thens, traceVars>>

-----------------------------------------------------------------------------
\* The approver's calls

FirstOf(ids) == IF ids = <<>> THEN None ELSE Head(ids)

\* yield_id.resume(payload), accepted while the yield waits for a result.
ResumeYield(i, approve, seq, next) ==
    /\ i \in yields
    /\ resumes' = resumes \cup {[id |-> i, approve |-> approve, seq |-> seq,
                                 next |-> next, at |-> height]}

ResumeIntent(by, i, approve, attached) ==
    /\ by = approver_id
    /\ ChargeFee(1, attached)
    /\ i \in pending
    /\ pending' = pending \ {i}
    /\ ResumeYield(i, approve, None, None)
    /\ UNCHANGED <<accessVars, submitVars, countVars, batchVars, height,
                   yields, calls, thens, traceVars>>

NoTailCheck == TRUE

ChainIdle == batch_chain_tail = <<>>

(***************************************************************************)
(* resume_batch_chained: every listed id must be pending, which does not   *)
(* keep one id from being listed twice. Only the first is resumed here;    *)
(* the rest become the tail that continue_chain consumes.                  *)
(***************************************************************************)
ResumeBatchChained(by, ids, attached) ==
    /\ by = approver_id
    /\ ids # <<>>
    /\ ChainIdle
    /\ ChargeFee(Len(ids), attached)
    /\ \A k \in 1..Len(ids) : ids[k] \in pending
    /\ active_batch_id' = active_batch_id + 1
    /\ batch_chain_tail' = Tail(ids)
    /\ pending' = pending \ {ids[1]}
    /\ ResumeYield(ids[1], TRUE, 0, FirstOf(Tail(ids)))
    /\ batches' = Append(batches, ids)
    /\ slot' = [slot EXCEPT ![ids[1]] =
                   [batch |-> active_batch_id + 1, seq |-> 0]]
    /\ UNCHANGED <<accessVars, submitVars, countVars, height, yields, calls,
                   thens, ran_at, lost>>

-----------------------------------------------------------------------------
\* on_intent_resumed, the yielded callback

Due(receipt) == height >= receipt.at + ReceiptDelay

Delegate(i) == intents[i].delegate

\* The callback consumes the yield and drops the pending entry, if any.
ResolveKeepingEntry(i) == yields' = yields \ {i} /\ UNCHANGED pending

Resolve(i) == yields' = yields \ {i} /\ pending' = pending \ {i}

CountNothing == UNCHANGED intents_rejected

CountRejected == intents_rejected' = intents_rejected + 1

(***************************************************************************)
(* A payload meets its yield if that still waits; a payload overtaken by   *)
(* the timeout is dropped by the runtime.                                  *)
(***************************************************************************)
Delivered(r) == Due(r) /\ r.id \in yields /\ resumes' = resumes \ {r}

DropStale(r) ==
    /\ Due(r) /\ r.id \notin yields
    /\ resumes' = resumes \ {r}
    /\ UNCHANGED <<feeVars, accessVars, pending, submitVars, countVars, batchVars,
                   height, yields, calls, thens, traceVars>>

DeliverReject(r) ==
    /\ ~r.approve
    /\ Delivered(r)
    /\ Resolve(r.id)
    /\ CountRejected
    /\ UNCHANGED <<feeVars, accessVars, submitVars, intents_dispatched, batchVars,
                   height, calls, thens, traceVars>>

\* The yield times out (the Err arm); a resume may already be on its way.
TimeoutFires(i) ==
    /\ i \in yields
    /\ height >= intents[i].at + YieldTimeout
    /\ Resolve(i)
    /\ CountRejected
    /\ UNCHANGED <<feeVars, accessVars, submitVars, intents_dispatched, batchVars,
                   height, resumes, calls, thens, traceVars>>

(***************************************************************************)
(* The callback can create the target's call only within its own gas, of   *)
(* which a chained intent also reserves continue_chain's, and only with a  *)
(* deposit the account can fund. Otherwise the runtime aborts it. This is  *)
(* the static gas; the callback's leftover gas, which the default weight   *)
(* gives to the call and to its .then, decides no outcome here.            *)
(***************************************************************************)
GasSuffices(r) ==
    Delegate(r.id).gas + (IF r.next = None THEN 0 ELSE ContinueGas) <= CallbackGas

CanDispatch(r) == GasSuffices(r) /\ Delegate(r.id).deposit <= balance

NextSeq(seq) == IF seq = None THEN 1 ELSE seq + 1

DeliverApprove(r) ==
    /\ r.approve
    /\ CanDispatch(r)
    /\ Delivered(r)
    /\ Resolve(r.id)
    /\ intents_dispatched' = intents_dispatched + 1
    /\ balance' = balance - Delegate(r.id).deposit
    /\ calls' = calls \cup
          {[id |-> r.id, next |-> r.next, seq |-> NextSeq(r.seq), at |-> height]}
    /\ UNCHANGED <<fee_tiers, fees_collected_total, fees_withdrawn_total, payouts,
                   paid_out, accessVars, submitVars, intents_rejected, batchVars,
                   height, thens, traceVars>>

\* The aborted callback has consumed its yield and changed nothing else.
CallbackPanics(r) ==
    /\ r.approve
    /\ ~CanDispatch(r)
    /\ Delivered(r)
    /\ yields' = yields \ {r.id}
    /\ lost' = lost \cup {r.id}
    /\ UNCHANGED <<feeVars, accessVars, pending, submitVars, countVars, batchVars,
                   height, calls, thens, slot, ran_at>>

-----------------------------------------------------------------------------
\* The target, and continue_chain behind it

\* .then fires when the call has completed, whatever its outcome.
ThenOnSuccess(c, ok) ==
    IF c.next = None \/ ~ok THEN {}
    ELSE {[next |-> c.next, seq |-> c.seq, from |-> c.id, at |-> height]}

ThenFromDispatch(c, ok) ==
    IF c.next = None THEN {}
    ELSE {[next |-> c.next, seq |-> c.seq, from |-> c.id, at |-> c.at]}

ThenOf(c, ok) ==
    IF c.next = None THEN {}
    ELSE {[next |-> c.next, seq |-> c.seq, from |-> c.id, at |-> height]}

(***************************************************************************)
(* The target executes the call. A failed call gives its deposit back      *)
(* (a receipt of its own, here in the same step).                          *)
(***************************************************************************)
TargetExecutes(c, ok) ==
    /\ Due(c)
    /\ calls' = calls \ {c}
    /\ ran_at' = [ran_at EXCEPT ![c.id] = height]
    /\ thens' = thens \cup ThenOf(c, ok)
    /\ balance' = IF ok THEN balance ELSE balance + Delegate(c.id).deposit
    /\ UNCHANGED <<fee_tiers, fees_collected_total, fees_withdrawn_total, payouts,
                   paid_out, accessVars, pending, submitVars, countVars, batchVars,
                   height, yields, resumes, slot, lost>>

ContinuableAnyHead(t) == batch_chain_tail # <<>> /\ t.next \in pending

\* What continue_chain requires: the tail starts with the id it was made for.
Continuable(t) ==
    FirstOf(batch_chain_tail) = t.next /\ t.next \in pending

ContinueChain(t) ==
    /\ Due(t)
    /\ Continuable(t)
    /\ thens' = thens \ {t}
    /\ batch_chain_tail' = Tail(batch_chain_tail)
    /\ pending' = pending \ {t.next}
    /\ ResumeYield(t.next, TRUE, t.seq, FirstOf(Tail(batch_chain_tail)))
    /\ slot' = [slot EXCEPT ![t.next] = [batch |-> active_batch_id, seq |-> t.seq]]
    /\ UNCHANGED <<feeVars, accessVars, submitVars, countVars, active_batch_id,
                   batches, height, yields, calls, ran_at, lost>>

ContinueChainPanics(t) ==
    /\ Due(t)
    /\ ~(Continuable(t) /\ t.next \in yields)
    /\ thens' = thens \ {t}
    /\ UNCHANGED <<feeVars, accessVars, pending, submitVars, countVars, batchVars,
                   height, yields, resumes, calls, traceVars>>

NextBlock ==
    /\ height < MaxHeight
    /\ height' = height + 1
    /\ UNCHANGED <<feeVars, accessVars, pending, submitVars, countVars, batchVars,
                   receiptVars, traceVars>>

-----------------------------------------------------------------------------

(***************************************************************************)
(* The receipts that will still bring the chain to its next member: a      *)
(* payload that will be delivered, a call with a .then, a .then.           *)
(***************************************************************************)
ChainResumes == {r \in resumes : r.id \in yields /\ r.next # None}
ChainCalls == {c \in calls : c.next # None}

Links == ChainResumes \cup ChainCalls \cup thens

ChainAlive == Links # {}

OwnerNext ==
    \/ \E a \in Accounts : AddRelayer(a) \/ RemoveRelayer(a) \/ SetApprover(a)
    \/ OwnerFeeNext /\ UNCHANGED gateVars
    \/ (EarlyReset \/ ~ChainAlive) /\ ResetBatchTail

ApproverNext ==
    \E by \in Accounts, attached \in Deposits :
        \/ \E i \in pending, approve \in BOOLEAN :
               ResumeIntent(by, i, approve, attached)
        \/ \E n \in 1..MaxBatch : \E ids \in [1..n -> pending] :
               ResumeBatchChained(by, ids, attached)

RuntimeNext ==
    \/ \E r \in resumes :
           DeliverReject(r) \/ DeliverApprove(r) \/ CallbackPanics(r) \/ DropStale(r)
    \/ \E c \in calls, ok \in BOOLEAN : TargetExecutes(c, ok)
    \/ \E t \in thens : ContinueChain(t) \/ ContinueChainPanics(t)
    \/ \E i \in yields : TimeoutFires(i)
    \/ PayoutNext /\ UNCHANGED gateVars
    \/ NextBlock

Next ==
    \/ \E by \in Accounts, d \in Delegates : SubmitIntent(by, d)
    \/ OwnerNext
    \/ ApproverNext
    \/ RuntimeNext

Spec == Init /\ [][Next]_vars

(***************************************************************************)
(* The runtime executes every receipt it holds. Nobody owes the gate a     *)
(* call, and a timeout may come at any moment or not at all.               *)
(***************************************************************************)
Fairness ==
    /\ \A i \in Ids :
        /\ WF_vars(\E r \in resumes : r.id = i /\
                      (DeliverReject(r) \/ DeliverApprove(r)
                         \/ CallbackPanics(r) \/ DropStale(r)))
        /\ WF_vars(\E c \in calls, ok \in BOOLEAN : c.id = i /\ TargetExecutes(c, ok))
        /\ WF_vars(\E t \in thens : t.next = i /\
                      (ContinueChain(t) \/ ContinueChainPanics(t)))
    /\ WF_vars(NextBlock)

\* What NEP-519 adds: a yield that is not resumed does time out.
TimeoutsFire == \A i \in Ids : WF_vars(i \in yields /\ TimeoutFires(i))

LiveSpec == Spec /\ Fairness

-----------------------------------------------------------------------------

GateTypeOK ==
    /\ approver_id \in Accounts /\ relayers \subseteq Accounts
    /\ pending \subseteq Ids
    /\ used_nonces \subseteq {NonceKey(d) : d \in Delegates}
    /\ next_intent_id \in 0..MaxIntents
    /\ intents_submitted \in Nat
    /\ intents_dispatched \in Nat /\ intents_rejected \in Nat
    /\ batch_chain_tail \in Seq(Ids) /\ active_batch_id \in Nat
    /\ height \in Nat
    /\ yields \subseteq Ids
    /\ intents \in [Ids -> Held \cup {None}]
    /\ resumes \subseteq Resume /\ calls \subseteq Call /\ thens \subseteq Then
    /\ batches \in Seq(Seq(Ids))
    /\ slot \in [Ids -> [batch : Nat, seq : Nat]]
    /\ ran_at \in [Ids -> Nat \cup {None}]
    /\ lost \subseteq Ids

\* Types of the ledger, the contract, the runtime and the history.
TypeOK == LedgerTypeOK /\ GateTypeOK

(***************************************************************************)
(* No resume is ever refused as "not found or expired": an intent in the   *)
(* pending map still has its yield, and no payload is on its way to it,    *)
(* although resumes, timeouts and continue_chain race for it.              *)
(***************************************************************************)
ResumableYields ==
    /\ pending \subseteq yields
    /\ \A r \in resumes : r.id \notin pending
    /\ \A r, q \in resumes : r.id = q.id => r = q

(***************************************************************************)
(* stats(): every submitted intent is held or was counted exactly once, as *)
(* dispatched or as rejected, except those whose callback was aborted.     *)
(***************************************************************************)
CountersAccount ==
    /\ intents_submitted = next_intent_id
    /\ intents_dispatched + intents_rejected + Cardinality(yields)
          + Cardinality(lost) = intents_submitted

(***************************************************************************)
(* No replay: two accepted intents never carry the same sender and nonce,  *)
(* also after the first was rejected, timed out or failed.                 *)
(***************************************************************************)
NoReplay ==
    \A i, j \in Ids :
        (i # j /\ intents[i] # None /\ intents[j] # None)
            => NonceKey(Delegate(i)) # NonceKey(Delegate(j))

(***************************************************************************)
(* At most one receipt carries the chain, and it is for the head of the    *)
(* tail: continue_chain's panics "chain tail mismatch" and "tail empty"    *)
(* are unreachable while the owner resets only a dead chain.               *)
(***************************************************************************)
ChainCursor ==
    /\ \A k, l \in Links : k = l
    /\ \A l \in Links : l.next = FirstOf(batch_chain_tail)

(***************************************************************************)
(* Coordinator ordering (docs/verification.md, invariants 2 and 3): a      *)
(* member of a batch stands where the approver put it, and is resumed only *)
(* after the target of the member before it has run.                       *)
(***************************************************************************)
CoordinatorOrder ==
    \A i \in Ids : LET b == slot[i].batch
                       k == slot[i].seq
                   IN  b > 0 =>
                         /\ b <= Len(batches) /\ k < Len(batches[b])
                         /\ batches[b][k + 1] = i
                         /\ k > 0 => ran_at[batches[b][k]] # None

(***************************************************************************)
(* Dispatches of a batch are block-monotonic (invariant 4): three receipts *)
(* lie between the targets of two neighbours, and each takes its time.     *)
(***************************************************************************)
BlockMonotonic ==
    \A i \in Ids : LET b == slot[i].batch
                       k == slot[i].seq
                   IN  (b > 0 /\ k > 0 /\ ran_at[i] # None)
                         => ran_at[i] >= ran_at[batches[b][k]] + 3 * ReceiptDelay

(***************************************************************************)
(* A member of batch b left the chain before its turn was over: it was     *)
(* resumed alone or timed out while pending, or it was resumed in b but    *)
(* timed out or lost its callback before it was called.                    *)
(***************************************************************************)
LeftChain(i, b) ==
    /\ i \notin pending
    /\ \/ slot[i].batch # b
       \/ i \notin yields /\ ran_at[i] = None /\ \A c \in calls : c.id # i

ListsTwice(ids) == \E j, k \in 1..Len(ids) : j < k /\ ids[j] = ids[k]

Stuck == batch_chain_tail # <<>> /\ ~ChainAlive

Abandoned(b) == \E k \in 1..Len(batches[b]) : LeftChain(batches[b][k], b)

BatchFinished(b) ==
    \/ \A k \in 1..Len(batches[b]) : ran_at[batches[b][k]] # None
    \/ ListsTwice(batches[b]) \/ Abandoned(b)

(***************************************************************************)
(* A chain stops short only for one of two reasons: the batch lists an id  *)
(* twice, or a member left it. In particular no outcome of a target stops  *)
(* it ("a failed inner dispatch does NOT abort the rest").                 *)
(***************************************************************************)
StuckExplained ==
    Stuck => ListsTwice(batches[active_batch_id]) \/ Abandoned(active_batch_id)

(***************************************************************************)
(* Refuted: the pre-validation of resume_batch_chained "catches typos in   *)
(* the approver's batch list without leaving batch_chain_tail dirty". An   *)
(* id listed twice passes it, and the second turn of that id panics.       *)
(***************************************************************************)
OnlyAbandonedStuck == Stuck => Abandoned(active_batch_id)

(***************************************************************************)
(* Refuted: an empty tail means "prior batch completed or was cleared".    *)
(* The tail is empty as soon as the last member is resumed, so a member of *)
(* the next batch can run while the last of the one before is on its way.  *)
(***************************************************************************)
BatchesInTurn ==
    \A i \in Ids : (slot[i].batch > 1 /\ ran_at[i] # None)
        => BatchFinished(slot[i].batch - 1)

(***************************************************************************)
(* Refuted: an intent is dispatched only while its max_block_height is in  *)
(* the future. Expiry is checked when it is submitted, not when the        *)
(* approver resumes it.                                                    *)
(***************************************************************************)
DispatchedBeforeExpiry ==
    \A c \in calls : c.at < Delegate(c.id).max_block_height

(***************************************************************************)
(* No orphans: where yields time out, every entry of the pending map is    *)
(* eventually removed, whatever the approver does.                         *)
(***************************************************************************)
PendingCleared ==
    TimeoutsFire => \A i \in Ids : i \in pending ~> i \notin pending

(***************************************************************************)
(* Every batch runs to its end, whatever its targets return, unless it     *)
(* lists an id twice or a member leaves it. That timeouts come late is no  *)
(* part of this: without any, a chain still has to move.                   *)
(***************************************************************************)
BatchesFinish ==
    \A b \in 1..MaxIntents : Len(batches) >= b ~> Len(batches) >= b /\ BatchFinished(b)
=============================================================================
