------------------------------ MODULE GateProofs ------------------------------
(***************************************************************************)
(* Types and the life of a single intent, for every number of intents and  *)
(* accounts, every delay and timeout, and an owner who may do as they      *)
(* like. GateChainProofs builds the order of chained batches on top.       *)
(*                                                                         *)
(* TypeInv is inductive: TypeOK by itself is not, because a callback takes *)
(* a deposit off the balance and a failed call gives one back, and both    *)
(* read it from the arguments stored with the intent (Known).              *)
(***************************************************************************)
EXTENDS GateInv, FeeLedgerProofs, FiniteSetTheorems

TypeInv == LedgerInv /\ GateTypeOK /\ Known

LEMMA IdsAreNat == \A i \in Ids : i \in Nat
BY GateAssumption DEF Ids, GateAssumption

\* The deposit a callback attaches is a natural number.
LEMMA DepositType ==
    ASSUME NEW i, intents[i] \in Held
    PROVE  Delegate(i).deposit \in Nat
BY GateAssumption DEF Held, Delegate, GateAssumption

\* intents is a function on the ids.
LEMMA IntentsType ==
    ASSUME TypeInv PROVE intents = [i \in Ids |-> intents[i]]
BY DEF TypeInv, GateTypeOK

\* A stored intent is told from an absent one.
LEMMA NoneIsNoIntent == None \notin Held
BY GateAssumption DEF GateAssumption

\* A list picked from the pending map, and what is left of it, are lists of ids.
LEMMA BatchType ==
    ASSUME GateTypeOK, NEW n \in 1..MaxBatch, NEW ids \in [1..n -> pending]
    PROVE  /\ ids \in Seq(Ids) /\ Len(ids) = n /\ ids # <<>>
           /\ Tail(ids) \in Seq(Ids)
           /\ FirstOf(Tail(ids)) \in Ids \cup {None}
<1>1. n \in Nat /\ n > 0
  BY FeeAssumption DEF FeeAssumption
<1>2. ids \in Seq(Ids) /\ Len(ids) = n
  <2>1. ids \in [1..n -> Ids]
    BY DEF GateTypeOK
  <2>2. QED
    BY <1>1, <2>1
<1>3. ids # <<>>
  BY <1>1, <1>2
<1>4. Tail(ids) \in Seq(Ids)
  BY <1>2, <1>3
<1>5. QED
  BY <1>2, <1>3, <1>4 DEF FirstOf

LEMMA TypeInit == Init => TypeInv
<1> SUFFICES ASSUME Init PROVE TypeInv
  OBVIOUS
<1>1. LedgerInv
  BY LedgerInvInit, FeeAssumption DEF Init
<1>2. GateTypeOK
  BY GateAssumption DEF Init, GateTypeOK, GateAssumption, Ids
<1>3. QED
  BY <1>1, <1>2 DEF TypeInv, Known, Init

LEMMA TypeStep == TypeInv /\ [Next]_vars => TypeInv'
<1> SUFFICES ASSUME TypeInv, [Next]_vars PROVE TypeInv'
  OBVIOUS
<1> USE GateAssumption, FeeAssumption
<1>a. LedgerInv /\ GateTypeOK /\ Known
  BY DEF TypeInv
<1>1. ASSUME NEW by \in Accounts, NEW d \in Delegates, SubmitIntent(by, d)
      PROVE  TypeInv'
  <2>1. LedgerInv'
    BY <1>a, <1>1, LedgerInvStutter DEF SubmitIntent
  <2>2. [delegate |-> d, at |-> height] \in Held
    BY <1>a DEF Held, GateTypeOK
  <2>3. next_intent_id + 1 \in 0..MaxIntents
    <3>1. next_intent_id \in 0..(MaxIntents - 1) /\ MaxIntents \in Nat
      BY <1>1 DEF SubmitIntent, Ids, GateAssumption
    <3>2. QED
      BY <3>1
  <2>4. used_nonces' \subseteq {NonceKey(e) : e \in Delegates}
    BY <1>a, <1>1 DEF SubmitIntent, GateTypeOK
  <2>5. intents' \in [Ids -> Held \cup {None}]
    BY <1>a, <1>1, <2>2 DEF SubmitIntent, GateTypeOK
  <2>6. pending' \subseteq Ids /\ yields' \subseteq Ids /\ intents_submitted' \in Nat
    <3>1. /\ next_intent_id \in Ids
          /\ pending' = pending \cup {next_intent_id}
          /\ yields' = yields \cup {next_intent_id}
          /\ intents_submitted' = intents_submitted + 1
      BY <1>1 DEF SubmitIntent
    <3>2. pending \subseteq Ids /\ yields \subseteq Ids /\ intents_submitted \in Nat
      BY <1>a DEF GateTypeOK
    <3>3. QED
      BY <3>1, <3>2
  <2>7. /\ next_intent_id' \in 0..MaxIntents
        /\ UNCHANGED <<approver_id, relayers, intents_dispatched, intents_rejected,
                       batch_chain_tail, active_batch_id, batches, height,
                       resumes, calls, thens, slot, ran_at, lost>>
    BY <1>1, <2>3 DEF SubmitIntent, accessVars, countVars, batchVars, traceVars
  <2>8. GateTypeOK'
    BY <1>a, <2>4, <2>5, <2>6, <2>7 DEF GateTypeOK
  <2>9. Known'
    BY <1>a, <1>1, <2>2 DEF SubmitIntent, GateTypeOK, Known, Call
  <2>10. QED
    BY <2>1, <2>8, <2>9 DEF TypeInv
<1>2. ASSUME NEW a \in Accounts, AddRelayer(a) \/ RemoveRelayer(a) \/ SetApprover(a)
      PROVE  TypeInv'
  <2>1. LedgerInv'
    BY <1>a, <1>2, LedgerInvStutter DEF AddRelayer, RemoveRelayer, SetApprover
  <2>2. GateTypeOK' /\ Known'
    BY <1>a, <1>2 DEF AddRelayer, RemoveRelayer, SetApprover, GateTypeOK, Known,
          submitVars, countVars, batchVars, receiptVars, traceVars
  <2>3. QED
    BY <2>1, <2>2 DEF TypeInv
<1>3. CASE ResetBatchTail
  <2>1. LedgerInv'
    BY <1>a, <1>3, LedgerInvStutter DEF ResetBatchTail
  <2>2. GateTypeOK' /\ Known'
    BY <1>a, <1>3 DEF ResetBatchTail, GateTypeOK, Known,
          accessVars, submitVars, countVars, receiptVars, traceVars
  <2>3. QED
    BY <2>1, <2>2 DEF TypeInv
<1>4. CASE OwnerFeeNext /\ UNCHANGED gateVars
  <2>1. LedgerInv'
    BY <1>a, <1>4, SetFeeTiersInv, WithdrawFeesInv DEF OwnerFeeNext
  <2>2. GateTypeOK' /\ Known'
    BY <1>a, <1>4 DEF gateVars, GateTypeOK, Known,
          accessVars, submitVars, countVars, batchVars, receiptVars, traceVars
  <2>3. QED
    BY <2>1, <2>2 DEF TypeInv
<1>5. ASSUME NEW by \in Accounts, NEW attached \in Deposits, NEW i \in pending,
             NEW approve \in BOOLEAN, ResumeIntent(by, i, approve, attached)
      PROVE  TypeInv'
  <2>1. LedgerInv'
    BY <1>a, <1>5, ChargeFeeInv DEF ResumeIntent
  <2>2. [id |-> i, approve |-> approve, seq |-> None, next |-> None, at |-> height]
          \in Resume
    BY <1>a DEF Resume, GateTypeOK
  <2>3. GateTypeOK' /\ Known'
    BY <1>a, <1>5, <2>2 DEF ResumeIntent, ResumeYield, GateTypeOK, Known,
          accessVars, submitVars, countVars, batchVars, traceVars
  <2>4. QED
    BY <2>1, <2>3 DEF TypeInv
<1>6. ASSUME NEW by \in Accounts, NEW attached \in Deposits, NEW n \in 1..MaxBatch,
             NEW ids \in [1..n -> pending], ResumeBatchChained(by, ids, attached)
      PROVE  TypeInv'
  <2>1. /\ ids \in Seq(Ids) /\ Len(ids) = n /\ Tail(ids) \in Seq(Ids)
        /\ FirstOf(Tail(ids)) \in Ids \cup {None}
    BY <1>a, BatchType
  <2>2. LedgerInv'
    BY <1>a, <1>6, <2>1, ChargeFeeInv DEF ResumeBatchChained, FeeAssumption
  <2>3. ids[1] \in Ids
    BY <2>1, FeeAssumption DEF FeeAssumption
  <2>4. [id |-> ids[1], approve |-> TRUE, seq |-> 0, next |-> FirstOf(Tail(ids)),
         at |-> height] \in Resume
    BY <1>a, <2>1, <2>3 DEF Resume, GateTypeOK
  <2>5. slot' \in [Ids -> [batch : Nat, seq : Nat]]
    BY <1>a, <1>6, <2>3 DEF ResumeBatchChained, GateTypeOK
  <2>6. batches' \in Seq(Seq(Ids))
    BY <1>a, <1>6, <2>1 DEF ResumeBatchChained, GateTypeOK
  <2>7. GateTypeOK'
    BY <1>a, <1>6, <2>1, <2>4, <2>5, <2>6 DEF ResumeBatchChained, ResumeYield,
          GateTypeOK, accessVars, submitVars, countVars
  <2>8. Known'
    BY <1>a, <1>6 DEF ResumeBatchChained, Known, submitVars
  <2>9. QED
    BY <2>2, <2>7, <2>8 DEF TypeInv
<1>7. ASSUME NEW r \in resumes, DeliverReject(r) PROVE TypeInv'
  <2>1. LedgerInv'
    BY <1>a, <1>7, LedgerInvStutter DEF DeliverReject
  <2>2. GateTypeOK' /\ Known'
    BY <1>a, <1>7 DEF DeliverReject, Delivered, Resolve, CountRejected, GateTypeOK,
          Known, accessVars, submitVars, batchVars, traceVars
  <2>3. QED
    BY <2>1, <2>2 DEF TypeInv
<1>8. ASSUME NEW r \in resumes, DeliverApprove(r) PROVE TypeInv'
  <2>1. r \in Resume /\ r.id \in Ids /\ intents[r.id] \in Held
    BY <1>a, <1>8 DEF DeliverApprove, Delivered, GateTypeOK, Known, Resume
  <2>2. Delegate(r.id).deposit \in Nat
    BY <2>1, DepositType
  <2>3. LedgerInv'
    BY <1>a, <1>8, <2>2 DEF DeliverApprove, CanDispatch, LedgerInv, LedgerTypeOK,
          LadderInv, ValidLadder, LedgerBounded
  <2>4. NextSeq(r.seq) \in Nat
    BY <2>1 DEF NextSeq, Resume
  <2>5. [id |-> r.id, next |-> r.next, seq |-> NextSeq(r.seq), at |-> height] \in Call
    BY <1>a, <2>1, <2>4 DEF Call, Resume, GateTypeOK
  <2>6. GateTypeOK'
    BY <1>a, <1>8, <2>5 DEF DeliverApprove, Delivered, Resolve, GateTypeOK,
          accessVars, submitVars, batchVars, traceVars
  <2>7. Known'
    BY <1>a, <1>8, <2>1 DEF DeliverApprove, Resolve, Known, submitVars
  <2>8. QED
    BY <2>3, <2>6, <2>7 DEF TypeInv
<1>9. ASSUME NEW r \in resumes, CallbackPanics(r) PROVE TypeInv'
  <2>1. LedgerInv'
    BY <1>a, <1>9, LedgerInvStutter DEF CallbackPanics
  <2>2. r.id \in Ids
    BY <1>a DEF GateTypeOK, Resume
  <2>3. GateTypeOK' /\ Known'
    BY <1>a, <1>9, <2>2 DEF CallbackPanics, Delivered, GateTypeOK, Known,
          accessVars, submitVars, countVars, batchVars
  <2>4. QED
    BY <2>1, <2>3 DEF TypeInv
<1>10. ASSUME NEW r \in resumes, DropStale(r) PROVE TypeInv'
  <2>1. LedgerInv'
    BY <1>a, <1>10, LedgerInvStutter DEF DropStale
  <2>2. GateTypeOK' /\ Known'
    BY <1>a, <1>10 DEF DropStale, GateTypeOK, Known,
          accessVars, submitVars, countVars, batchVars, traceVars
  <2>3. QED
    BY <2>1, <2>2 DEF TypeInv
<1>11. ASSUME NEW c \in calls, NEW ok \in BOOLEAN, TargetExecutes(c, ok) PROVE TypeInv'
  <2>1. c \in Call /\ c.id \in Ids /\ intents[c.id] \in Held
    BY <1>a DEF GateTypeOK, Known, Call
  <2>2. Delegate(c.id).deposit \in Nat
    BY <2>1, DepositType
  <2>3. LedgerInv'
    BY <1>a, <1>11, <2>2 DEF TargetExecutes, LedgerInv, LedgerTypeOK, LadderInv,
          ValidLadder, LedgerBounded
  <2>4. ThenOf(c, ok) \subseteq Then
    BY <1>a, <2>1 DEF ThenOf, Then, Call, GateTypeOK
  <2>5. GateTypeOK' /\ Known'
    BY <1>a, <1>11, <2>4 DEF TargetExecutes, GateTypeOK, Known,
          accessVars, submitVars, countVars, batchVars
  <2>6. QED
    BY <2>3, <2>5 DEF TypeInv
<1>12. ASSUME NEW t \in thens, ContinueChain(t) PROVE TypeInv'
  <2>1. LedgerInv'
    BY <1>a, <1>12, LedgerInvStutter DEF ContinueChain
  <2>2. t \in Then /\ t.next \in Ids /\ t.seq \in Nat
    BY <1>a DEF GateTypeOK, Then
  <2>3. batch_chain_tail # <<>>
    BY <1>12, <2>2, IdsAreNat DEF ContinueChain, Continuable, FirstOf, GateAssumption
  <2>4. /\ Tail(batch_chain_tail) \in Seq(Ids)
        /\ FirstOf(Tail(batch_chain_tail)) \in Ids \cup {None}
    BY <1>a, <2>3 DEF GateTypeOK, FirstOf
  <2>5. [id |-> t.next, approve |-> TRUE, seq |-> t.seq,
         next |-> FirstOf(Tail(batch_chain_tail)), at |-> height] \in Resume
    BY <1>a, <2>2, <2>4 DEF Resume, GateTypeOK
  <2>6. slot' \in [Ids -> [batch : Nat, seq : Nat]]
    BY <1>a, <1>12, <2>2 DEF ContinueChain, GateTypeOK
  <2>7. GateTypeOK' /\ Known'
    BY <1>a, <1>12, <2>4, <2>5, <2>6 DEF ContinueChain, ResumeYield, GateTypeOK,
          Known, accessVars, submitVars, countVars
  <2>8. QED
    BY <2>1, <2>7 DEF TypeInv
<1>13. ASSUME NEW t \in thens, ContinueChainPanics(t) PROVE TypeInv'
  <2>1. LedgerInv'
    BY <1>a, <1>13, LedgerInvStutter DEF ContinueChainPanics
  <2>2. GateTypeOK' /\ Known'
    BY <1>a, <1>13 DEF ContinueChainPanics, GateTypeOK, Known,
          accessVars, submitVars, countVars, batchVars, traceVars
  <2>3. QED
    BY <2>1, <2>2 DEF TypeInv
<1>14. ASSUME NEW i \in yields, TimeoutFires(i) PROVE TypeInv'
  <2>1. LedgerInv'
    BY <1>a, <1>14, LedgerInvStutter DEF TimeoutFires
  <2>2. GateTypeOK' /\ Known'
    BY <1>a, <1>14 DEF TimeoutFires, Resolve, CountRejected, GateTypeOK, Known,
          accessVars, submitVars, batchVars, traceVars
  <2>3. QED
    BY <2>1, <2>2 DEF TypeInv
<1>15. CASE PayoutNext /\ UNCHANGED gateVars
  <2>1. LedgerInv'
    BY <1>a, <1>15, PayoutSettlesInv DEF PayoutNext
  <2>2. GateTypeOK' /\ Known'
    BY <1>a, <1>15 DEF gateVars, GateTypeOK, Known,
          accessVars, submitVars, countVars, batchVars, receiptVars, traceVars
  <2>3. QED
    BY <2>1, <2>2 DEF TypeInv
<1>16. CASE NextBlock
  <2>1. LedgerInv'
    BY <1>a, <1>16, LedgerInvStutter DEF NextBlock
  <2>2. GateTypeOK' /\ Known'
    BY <1>a, <1>16 DEF NextBlock, GateTypeOK, Known,
          accessVars, submitVars, countVars, batchVars, receiptVars, traceVars
  <2>3. QED
    BY <2>1, <2>2 DEF TypeInv
<1>17. CASE UNCHANGED vars
  <2>1. LedgerInv'
    BY <1>a, <1>17, LedgerInvStutter DEF vars
  <2>2. GateTypeOK' /\ Known'
    BY <1>a, <1>17 DEF vars, gateVars, GateTypeOK, Known,
          accessVars, submitVars, countVars, batchVars, receiptVars, traceVars
  <2>3. QED
    BY <2>1, <2>2 DEF TypeInv
<1>18. QED
  BY <1>1, <1>2, <1>3, <1>4, <1>5, <1>6, <1>7, <1>8, <1>9, <1>10, <1>11, <1>12,
     <1>13, <1>14, <1>15, <1>16, <1>17 DEF Next, OwnerNext, ApproverNext, RuntimeNext

(***************************************************************************)
(* Every state is well typed, and what a callback or a failed call reads   *)
(* from the arguments stored with its intent is there.                     *)
(***************************************************************************)
THEOREM TypeInvariant == Spec => []TypeInv
BY TypeInit, TypeStep, PTL DEF Spec

(***************************************************************************)
(* Type correctness of the gate, its ledger, its receipts and its history. *)
(***************************************************************************)
THEOREM TypeCorrect == Spec => []TypeOK
<1>1. TypeInv => TypeOK
  BY DEF TypeInv, TypeOK, LedgerInv
<1>2. QED
  BY <1>1, TypeInvariant, PTL

(***************************************************************************)
(* The owner never withdraws more than the gate collected, also while      *)
(* dispatched calls take deposits off the same account and return them.    *)
(***************************************************************************)
THEOREM GateNeverOverdrawn == Spec => []LedgerBounded
<1>1. TypeInv => LedgerBounded
  BY DEF TypeInv, LedgerInv
<1>2. QED
  BY <1>1, TypeInvariant, PTL

-----------------------------------------------------------------------------

\* What the steps below need of GateTypeOK.
LEMMA IdFacts ==
    ASSUME GateTypeOK
    PROVE  /\ next_intent_id \in Nat /\ \A i \in Ids : i \in Nat
           /\ pending \subseteq Ids /\ yields \subseteq Ids /\ lost \subseteq Ids
           /\ \A r \in resumes : r.id \in Ids
           /\ \A c \in calls : c.id \in Ids
           /\ \A t \in thens : t.next \in Ids
           /\ DOMAIN ran_at = Ids /\ DOMAIN slot = Ids
           /\ ran_at = [i \in Ids |-> ran_at[i]] /\ slot = [i \in Ids |-> slot[i]]
           /\ height \in Nat
<1>1. next_intent_id \in Nat
  BY GateAssumption DEF GateTypeOK, GateAssumption
<1>2. \A r \in resumes : r.id \in Ids
  BY DEF GateTypeOK, Resume
<1>3. \A c \in calls : c.id \in Ids
  BY DEF GateTypeOK, Call
<1>4. \A t \in thens : t.next \in Ids
  BY DEF GateTypeOK, Then
<1>5. QED
  BY <1>1, <1>2, <1>3, <1>4, IdsAreNat DEF GateTypeOK

LEMMA LifeInit == Init => LifeInv
BY GateAssumption DEF Init, LifeInv, Ids

LEMMA LifeStep == TypeInv /\ LifeInv /\ [Next]_vars => LifeInv'
<1> SUFFICES ASSUME TypeInv, LifeInv, [Next]_vars PROVE LifeInv'
  OBVIOUS
<1>a. /\ next_intent_id \in Nat /\ \A i \in Ids : i \in Nat
      /\ pending \subseteq Ids /\ yields \subseteq Ids /\ lost \subseteq Ids
      /\ \A r \in resumes : r.id \in Ids
      /\ \A c \in calls : c.id \in Ids
      /\ \A t \in thens : t.next \in Ids
      /\ ran_at = [i \in Ids |-> ran_at[i]] /\ slot = [i \in Ids |-> slot[i]]
      /\ height \in Nat
  BY IdFacts DEF TypeInv
<1>b. None \notin Nat
  BY GateAssumption DEF GateAssumption
<1>1. ASSUME NEW by \in Accounts, NEW d \in Delegates, SubmitIntent(by, d)
      PROVE  LifeInv'
  <2>1. /\ next_intent_id \in Ids /\ next_intent_id' = next_intent_id + 1
        /\ yields' = yields \cup {next_intent_id}
        /\ pending' = pending \cup {next_intent_id}
        /\ \A i \in Ids : i # next_intent_id => intents'[i] = intents[i]
        /\ UNCHANGED <<resumes, calls, slot, ran_at, lost>>
    BY <1>1, IntentsType DEF SubmitIntent, traceVars
  <2>2. \A i \in Ids : i # next_intent_id /\ i >= next_intent_id' => i >= next_intent_id
    BY <1>a, <2>1
  <2>3. \A i \in Ids : i >= next_intent_id' => i # next_intent_id
    BY <1>a, <2>1
  <2>4. ran_at[next_intent_id] = None /\ next_intent_id \notin lost
    BY <1>a, <2>1 DEF LifeInv
  <2>5. /\ pending' \subseteq yields'
        /\ \A i \in yields' : i < next_intent_id' /\ ran_at'[i] = None /\ i \notin lost'
    BY <1>a, <2>1, <2>4 DEF LifeInv
  <2>6. /\ \A r \in resumes' : r.id < next_intent_id' /\ r.id \notin pending'
        /\ \A c \in calls' :
              c.id < next_intent_id' /\ c.id \notin yields' /\ ran_at'[c.id] = None
    BY <1>a, <2>1 DEF LifeInv
  <2>7. /\ \A i \in Ids : i >= next_intent_id' =>
              ran_at'[i] = None /\ intents'[i] = None /\ slot'[i].batch = 0 /\ i \notin lost'
        /\ \A i \in pending' : slot'[i].batch = 0
    BY <1>a, <2>1, <2>2, <2>3 DEF LifeInv
  <2>8. QED
    BY <2>1, <2>5, <2>6, <2>7 DEF LifeInv
<1>2. ASSUME NEW i \in pending, NEW approve \in BOOLEAN, NEW by, NEW attached,
             ResumeIntent(by, i, approve, attached)
      PROVE  LifeInv'
  BY <1>a, <1>2 DEF ResumeIntent, ResumeYield, LifeInv, submitVars, traceVars
<1>3. ASSUME NEW n \in 1..MaxBatch, NEW ids \in [1..n -> pending], NEW by, NEW attached,
             ResumeBatchChained(by, ids, attached)
      PROVE  LifeInv'
  <2>1. ids[1] \in pending
    BY FeeAssumption DEF FeeAssumption
  <2>2. \A i \in Ids : i # ids[1] => slot'[i] = slot[i]
    BY <1>a, <1>3 DEF ResumeBatchChained
  <2>3. /\ ids[1] < next_intent_id /\ ids[1] \in yields
        /\ pending' = pending \ {ids[1]}
        /\ \A r \in resumes' : r \in resumes \/ r.id = ids[1]
        /\ \A r, q \in resumes' : r.id = ids[1] /\ q.id = ids[1] => r = q
        /\ UNCHANGED <<next_intent_id, intents, yields, calls, ran_at, lost>>
    <3> DEFINE new == [id |-> ids[1], approve |-> TRUE, seq |-> 0,
                       next |-> FirstOf(Tail(ids)), at |-> height]
    <3>1. /\ resumes' = resumes \cup {new} /\ pending' = pending \ {ids[1]}
          /\ ids[1] \in yields
          /\ UNCHANGED <<next_intent_id, intents, yields, calls, ran_at, lost>>
      BY <1>3 DEF ResumeBatchChained, ResumeYield, submitVars
    <3>2. new.id = ids[1]
      OBVIOUS
    <3>3. \A r \in resumes : r.id # ids[1]
      BY <2>1 DEF LifeInv
    <3> HIDE DEF new
    <3>4. QED
      BY <2>1, <3>1, <3>2, <3>3 DEF LifeInv
  <2>4. /\ \A r \in resumes' : r.id < next_intent_id' /\ r.id \notin pending'
        /\ \A r, q \in resumes' : r.id = q.id => r = q
    BY <2>3 DEF LifeInv
  <2>5. \A i \in Ids : i >= next_intent_id => slot'[i].batch = 0
    BY <1>a, <2>1, <2>2, <2>3 DEF LifeInv
  <2>6. \A i \in pending' : slot'[i].batch = 0
    BY <1>a, <2>2, <2>3 DEF LifeInv
  <2>7. QED
    BY <2>3, <2>4, <2>5, <2>6 DEF LifeInv
<1>4. ASSUME NEW r \in resumes, DeliverReject(r) PROVE LifeInv'
  BY <1>a, <1>4 DEF DeliverReject, Delivered, Resolve, LifeInv, submitVars, traceVars
<1>5. ASSUME NEW r \in resumes, DeliverApprove(r) PROVE LifeInv'
  BY <1>a, <1>5 DEF DeliverApprove, Delivered, Resolve, LifeInv, submitVars, traceVars
<1>6. ASSUME NEW r \in resumes, CallbackPanics(r) PROVE LifeInv'
  BY <1>a, <1>6 DEF CallbackPanics, Delivered, LifeInv, submitVars
<1>7. ASSUME NEW r \in resumes, DropStale(r) PROVE LifeInv'
  BY <1>a, <1>7 DEF DropStale, LifeInv, submitVars, traceVars
<1>8. ASSUME NEW c \in calls, NEW ok \in BOOLEAN, TargetExecutes(c, ok) PROVE LifeInv'
  <2>1. \A i \in Ids : i # c.id => ran_at'[i] = ran_at[i]
    BY <1>a, <1>8 DEF TargetExecutes
  <2>2. /\ calls' = calls \ {c} /\ c.id < next_intent_id /\ c.id \notin yields
        /\ \A d \in calls' : d.id # c.id
        /\ UNCHANGED <<next_intent_id, intents, pending, yields, resumes, slot, lost>>
    BY <1>8 DEF TargetExecutes, LifeInv, submitVars
  <2>3. QED
    BY <1>a, <2>1, <2>2 DEF LifeInv
<1>9. ASSUME NEW t \in thens, ContinueChain(t) PROVE LifeInv'
  <2>1. \A i \in Ids : i # t.next => slot'[i] = slot[i]
    BY <1>a, <1>9 DEF ContinueChain
  <2>2. /\ t.next \in pending /\ t.next < next_intent_id /\ t.next \in yields
        /\ pending' = pending \ {t.next}
        /\ \A r \in resumes' : r \in resumes \/ r.id = t.next
        /\ \A r, q \in resumes' : r.id = t.next /\ q.id = t.next => r = q
        /\ UNCHANGED <<next_intent_id, intents, yields, calls, ran_at, lost>>
    <3> DEFINE new == [id |-> t.next, approve |-> TRUE, seq |-> t.seq,
                       next |-> FirstOf(Tail(batch_chain_tail)), at |-> height]
    <3>1. /\ resumes' = resumes \cup {new} /\ pending' = pending \ {t.next}
          /\ t.next \in pending /\ t.next \in yields
          /\ UNCHANGED <<next_intent_id, intents, yields, calls, ran_at, lost>>
      BY <1>9 DEF ContinueChain, Continuable, ResumeYield, submitVars
    <3>2. new.id = t.next
      OBVIOUS
    <3>3. \A r \in resumes : r.id # t.next
      BY <3>1 DEF LifeInv
    <3> HIDE DEF new
    <3>4. QED
      BY <3>1, <3>2, <3>3 DEF LifeInv
  <2>3. QED
    BY <1>a, <2>1, <2>2 DEF LifeInv
<1>10. ASSUME NEW i \in yields, TimeoutFires(i) PROVE LifeInv'
  BY <1>a, <1>10 DEF TimeoutFires, Resolve, LifeInv, submitVars, traceVars
<1>11. ASSUME UNCHANGED <<pending, submitVars, receiptVars, traceVars>> PROVE LifeInv'
  BY <1>11 DEF LifeInv, submitVars, receiptVars, traceVars
<1>12. ASSUME NEW t \in thens, ContinueChainPanics(t) PROVE LifeInv'
  BY <1>12 DEF ContinueChainPanics, LifeInv, submitVars, traceVars
<1>13. ASSUME NEW a, AddRelayer(a) \/ RemoveRelayer(a) \/ SetApprover(a) PROVE LifeInv'
  BY <1>11, <1>13 DEF AddRelayer, RemoveRelayer, SetApprover
<1>14. CASE ResetBatchTail \/ NextBlock \/ UNCHANGED gateVars
  BY <1>11, <1>14 DEF ResetBatchTail, NextBlock, gateVars
<1>15. QED
  BY <1>1, <1>2, <1>3, <1>4, <1>5, <1>6, <1>7, <1>8, <1>9, <1>10, <1>12, <1>13, <1>14
     DEF Next, OwnerNext, ApproverNext, RuntimeNext, vars

(***************************************************************************)
(* An intent moves one way through pending, yield, payload, call and run,  *)
(* and no stage holds it twice.                                            *)
(***************************************************************************)
THEOREM LifeInvariant == Spec => []LifeInv
BY LifeInit, LifeStep, TypeInvariant, PTL DEF Spec

(***************************************************************************)
(* No resume is ever refused as "not found or expired".                    *)
(***************************************************************************)
THEOREM AlwaysResumable == Spec => []ResumableYields
<1>1. LifeInv => ResumableYields
  BY DEF LifeInv, ResumableYields
<1>2. QED
  BY <1>1, LifeInvariant, PTL

\* A step other than submit_intent leaves what submit_intent writes.
LEMMA SubmitOnly ==
    ASSUME [Next]_vars, \A by \in Accounts, d \in Delegates : ~SubmitIntent(by, d)
    PROVE  UNCHANGED submitVars
BY DEF Next, OwnerNext, ApproverNext, RuntimeNext, vars, gateVars, submitVars,
       AddRelayer, RemoveRelayer, SetApprover, ResetBatchTail, ResumeIntent,
       ResumeBatchChained, DeliverReject, DeliverApprove, CallbackPanics, DropStale,
       TargetExecutes, ContinueChain, ContinueChainPanics, TimeoutFires, NextBlock

LEMMA NonceStep == TypeInv /\ LifeInv /\ NonceInv /\ [Next]_vars => NonceInv'
<1> SUFFICES ASSUME TypeInv, LifeInv, NonceInv, [Next]_vars PROVE NonceInv'
  OBVIOUS
<1>1. ASSUME NEW by \in Accounts, NEW d \in Delegates, SubmitIntent(by, d)
      PROVE  NonceInv'
  <2> PICK new \in Ids : new = next_intent_id
    BY <1>1 DEF SubmitIntent
  <2>1. /\ NonceKey(d) \notin used_nonces
        /\ used_nonces' = used_nonces \cup {NonceKey(d)}
        /\ intents' = [intents EXCEPT ![new] = [delegate |-> d, at |-> height]]
    BY <1>1 DEF SubmitIntent, NonceUsed
  <2>2. intents'[new] = [delegate |-> d, at |-> height]
    BY <2>1, IntentsType
  <2>3. \A i \in Ids : i # new => intents'[i] = intents[i]
    BY <2>1, IntentsType
  <2>4. NonceKey(Delegate(new))' = NonceKey(d)
    BY <2>2 DEF NonceKey, Delegate
  <2>5. \A i \in Ids : i # new => NonceKey(Delegate(i))' = NonceKey(Delegate(i))
    BY <2>3 DEF NonceKey, Delegate
  <2>6. \A i \in Ids : (i # new /\ intents'[i] # None)
          => NonceKey(Delegate(i)) \in used_nonces
    BY <2>3 DEF NonceInv
  <2>7. (\A i \in Ids : intents[i] # None => NonceKey(Delegate(i)) \in used_nonces)'
    BY <2>1, <2>4, <2>5, <2>6
  <2>8. NoReplay'
    BY <2>1, <2>3, <2>4, <2>5, <2>6 DEF NonceInv, NoReplay
  <2>9. QED
    BY <2>7, <2>8 DEF NonceInv
<1>2. CASE UNCHANGED submitVars
  BY <1>2 DEF NonceInv, NoReplay, submitVars, Delegate, NonceKey
<1>3. QED
  BY <1>1, <1>2, SubmitOnly

(***************************************************************************)
(* No signed delegate is accepted twice.                                   *)
(***************************************************************************)
THEOREM NeverReplayed == Spec => []NoReplay
<1>1. Init => NonceInv
  BY DEF Init, NonceInv, NoReplay
<1>2. NonceInv => NoReplay
  BY DEF NonceInv
<1>3. QED
  BY <1>1, <1>2, NonceStep, TypeInvariant, LifeInvariant, PTL DEF Spec

-----------------------------------------------------------------------------

\* Sets of ids are finite, and adding or taking one counts for one.
LEMMA IdSetsFinite ==
    ASSUME NEW S, S \subseteq Ids
    PROVE  IsFiniteSet(S) /\ Cardinality(S) \in Nat
<1>1. IsFiniteSet(Ids)
  BY FS_Interval, GateAssumption DEF Ids, GateAssumption
<1>2. IsFiniteSet(S)
  BY <1>1, FS_Subset
<1>3. QED
  BY <1>2, FS_CardinalityType

LEMMA OneMore ==
    ASSUME NEW S, S \subseteq Ids, NEW i, i \notin S
    PROVE  Cardinality(S \cup {i}) = Cardinality(S) + 1
BY IdSetsFinite, FS_AddElement

LEMMA OneLess ==
    ASSUME NEW S, S \subseteq Ids, NEW i \in S
    PROVE  Cardinality(S \ {i}) = Cardinality(S) - 1
BY IdSetsFinite, FS_RemoveElement

LEMMA CountStep == TypeInv /\ LifeInv /\ CountersAccount /\ [Next]_vars => CountersAccount'
<1> SUFFICES ASSUME TypeInv, LifeInv, CountersAccount, [Next]_vars
             PROVE  CountersAccount'
  OBVIOUS
<1>a. /\ yields \subseteq Ids /\ lost \subseteq Ids /\ next_intent_id \in Nat
      /\ \A i \in Ids : i \in Nat
  BY IdFacts DEF TypeInv
<1>b. /\ intents_submitted \in Nat /\ intents_dispatched \in Nat /\ intents_rejected \in Nat
      /\ Cardinality(yields) \in Nat /\ Cardinality(lost) \in Nat
  BY <1>a, IdSetsFinite DEF TypeInv, GateTypeOK
<1>1. ASSUME NEW by \in Accounts, NEW d \in Delegates, SubmitIntent(by, d)
      PROVE  CountersAccount'
  <2>1. next_intent_id \notin yields
    BY <1>a DEF LifeInv
  <2>2. Cardinality(yields') = Cardinality(yields) + 1
    BY <1>1, <1>a, <2>1, OneMore DEF SubmitIntent
  <2>3. QED
    BY <1>1, <1>b, <2>2 DEF SubmitIntent, CountersAccount, countVars, traceVars
<1>2. ASSUME NEW r \in resumes, DeliverReject(r) PROVE CountersAccount'
  <2>1. Cardinality(yields') = Cardinality(yields) - 1
    BY <1>2, <1>a, OneLess DEF DeliverReject, Delivered, Resolve
  <2>2. QED
    BY <1>2, <1>b, <2>1 DEF DeliverReject, CountRejected, CountersAccount, submitVars,
                            traceVars
<1>3. ASSUME NEW i \in yields, TimeoutFires(i) PROVE CountersAccount'
  <2>1. Cardinality(yields') = Cardinality(yields) - 1
    BY <1>3, <1>a, OneLess DEF TimeoutFires, Resolve
  <2>2. QED
    BY <1>3, <1>b, <2>1 DEF TimeoutFires, CountRejected, CountersAccount, submitVars,
                            traceVars
<1>4. ASSUME NEW r \in resumes, DeliverApprove(r) PROVE CountersAccount'
  <2>1. Cardinality(yields') = Cardinality(yields) - 1
    BY <1>4, <1>a, OneLess DEF DeliverApprove, Delivered, Resolve
  <2>2. QED
    BY <1>4, <1>b, <2>1 DEF DeliverApprove, CountersAccount, submitVars, traceVars
<1>5. ASSUME NEW r \in resumes, CallbackPanics(r) PROVE CountersAccount'
  <2>1. r.id \in yields /\ r.id \notin lost
    BY <1>5 DEF CallbackPanics, Delivered, LifeInv
  <2>2. Cardinality(yields') = Cardinality(yields) - 1
    BY <1>5, <1>a, <2>1, OneLess DEF CallbackPanics
  <2>3. Cardinality(lost') = Cardinality(lost) + 1
    BY <1>5, <1>a, <2>1, OneMore DEF CallbackPanics
  <2>4. QED
    BY <1>5, <1>b, <2>2, <2>3 DEF CallbackPanics, CountersAccount, submitVars, countVars
<1>6. ASSUME UNCHANGED <<submitVars, countVars, yields, lost>> PROVE CountersAccount'
  BY <1>6 DEF CountersAccount, submitVars, countVars
<1>7. ASSUME NEW a, AddRelayer(a) \/ RemoveRelayer(a) \/ SetApprover(a)
      PROVE  CountersAccount'
  BY <1>6, <1>7 DEF AddRelayer, RemoveRelayer, SetApprover, receiptVars, traceVars
<1>8. ASSUME NEW by, NEW i, NEW approve, NEW attached,
             ResumeIntent(by, i, approve, attached)
      PROVE  CountersAccount'
  BY <1>6, <1>8 DEF ResumeIntent, traceVars
<1>9. ASSUME NEW by, NEW ids, NEW attached, ResumeBatchChained(by, ids, attached)
      PROVE  CountersAccount'
  BY <1>6, <1>9 DEF ResumeBatchChained
<1>10. ASSUME NEW r, DropStale(r) PROVE CountersAccount'
  BY <1>6, <1>10 DEF DropStale, traceVars
<1>11. ASSUME NEW c, NEW ok, TargetExecutes(c, ok) PROVE CountersAccount'
  BY <1>6, <1>11 DEF TargetExecutes
<1>12. ASSUME NEW t, ContinueChain(t) \/ ContinueChainPanics(t) PROVE CountersAccount'
  BY <1>6, <1>12 DEF ContinueChain, ContinueChainPanics, traceVars
<1>13. CASE ResetBatchTail \/ NextBlock \/ UNCHANGED gateVars
  BY <1>6, <1>13 DEF ResetBatchTail, NextBlock, gateVars, receiptVars, traceVars
<1>14. QED
  BY <1>1, <1>2, <1>3, <1>4, <1>5, <1>7, <1>8, <1>9, <1>10, <1>11, <1>12, <1>13
     DEF Next, OwnerNext, ApproverNext, RuntimeNext, vars

(***************************************************************************)
(* The counters account for every submitted intent.                        *)
(***************************************************************************)
THEOREM CountersCorrect == Spec => []CountersAccount
<1>1. Init => CountersAccount
  BY FS_EmptySet DEF Init, CountersAccount
<1>2. QED
  BY <1>1, CountStep, TypeInvariant, LifeInvariant, PTL DEF Spec
=============================================================================
