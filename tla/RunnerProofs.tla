----------------------------- MODULE RunnerProofs -----------------------------
(***************************************************************************)
(* The runner against the whole system, for any number of runs, jobs,      *)
(* intents and disturbances. The composition implements the gate and the   *)
(* deployment it is made of, so their theorems hold in it; on top come the *)
(* runner's own: it never lists an intent twice, intents run in the order  *)
(* asked for, and a MATCH is earned.                                       *)
(***************************************************************************)
EXTENDS RunnerInv, GateChainProofs, DeployProofs

-----------------------------------------------------------------------------
\* The composition implements the gate

\* Only the runner's relayer is ever on the gate's list.
LEMMA RelayersStep == [RunNext]_allVars => relayers' \subseteq relayers \cup {"relayer"}
<1> SUFFICES ASSUME [RunNext]_allVars PROVE relayers' \subseteq relayers \cup {"relayer"}
  OBVIOUS
<1> USE DEF vars, gateVars, accessVars
<1>1. CASE Deployment
  BY <1>1 DEF Deployment, DeployStep, DeployDisturbed, DeployChanges
<1>2. CASE RunnerStep \/ RunInterrupted \/ TransactionLost
  BY <1>2 DEF RunnerStep, RunInterrupted, TransactionLost
<1>3. CASE TransactionStep
  BY <1>3 DEF TransactionStep, SubmitIncluded, ResumeIncluded, Refused, NonceTaken,
              SubmitIntent, ResumeIntent, ResumeBatchChained
<1>4. CASE ChainStep
  <2>1. CASE GateStep
    BY <2>1 DEF GateStep, DeliverApprove, DeliverReject, DropStale, ContinueChain,
                ContinueChainPanics
  <2>2. CASE TargetStep
    BY <2>2 DEF TargetStep, CallSucceeds, CallFails, TargetExecutes
  <2>3. CASE GateDisturbed
    BY <2>3 DEF GateDisturbed, TimeoutFires, ResetBatchTail, RemoveRelayer
  <2>4. CASE StrayCall
    BY <2>4 DEF StrayCall
  <2>5. QED
    BY <1>4, <2>1, <2>2, <2>3, <2>4 DEF ChainStep
<1>5. CASE UNCHANGED allVars
  BY <1>5 DEF allVars
<1>6. QED
  BY <1>1, <1>2, <1>3, <1>4, <1>5 DEF RunNext

\* A resume that is included is one of the approver's calls.
LEMMA ResumeIsApprovers ==
    ASSUME NEW tx \in Tx, Valid(tx), ResumeIncluded(tx)
    PROVE  ApproverNext
<1>1. "approver" \in Accounts
  BY RunAssumption DEF RunAssumption, Senders
<1>2. tx.list \in Seq(Ids) /\ tx.attached \in Deposits /\ Len(tx.list) \in 1..MaxBatch
  BY DEF ResumeIncluded, Valid, Tx
<1>3. CASE ResumeBatchChained("approver", tx.list, tx.attached)
  <2>1. tx.list \in [1..Len(tx.list) -> pending]
    BY <1>2, <1>3 DEF ResumeBatchChained
  <2>2. QED
    BY <1>1, <1>2, <1>3, <2>1 DEF ApproverNext
<1>4. CASE ResumeIntent("approver", tx.list[1], TRUE, tx.attached)
  <2>1. tx.list[1] \in pending
    BY <1>4 DEF ResumeIntent
  <2>2. QED
    BY <1>1, <1>2, <1>4, <2>1 DEF ApproverNext
<1>5. CASE ResumeIntent("approver", tx.list[1], FALSE, tx.attached)
  <2>1. tx.list[1] \in pending
    BY <1>5 DEF ResumeIntent
  <2>2. QED
    BY <1>1, <1>2, <1>5, <2>1 DEF ApproverNext
<1>6. QED
  BY <1>3, <1>4, <1>5 DEF ResumeIncluded

\* While it deploys, the runner changes nothing of the gate but its relayers.
LEMMA DeploymentAtGate ==
    ASSUME relayers \subseteq {"relayer"}, Deployment
    PROVE  [Next]_vars
<1>1. UNCHANGED <<feeVars, approver_id, pending, submitVars, countVars, batchVars, height,
                  receiptVars, traceVars>>
  BY DEF Deployment
<1>2. relayers' = relayers \/ relayers' = relayers \cup {"relayer"} \/ relayers' = {}
  BY DEF Deployment, DeployStep, DeployDisturbed, DeployChanges
<1>3. CASE relayers' = relayers
  BY <1>1, <1>3 DEF vars, gateVars, accessVars
<1>4. CASE relayers' = relayers \cup {"relayer"}
  <2>1. AddRelayer("relayer")
    BY <1>1, <1>4 DEF AddRelayer
  <2>2. QED
    BY <2>1, RunAssumption DEF RunAssumption, Senders, Next, OwnerNext
<1>5. CASE relayers' = {}
  <2>1. RemoveRelayer("relayer")
    BY <1>1, <1>5 DEF RemoveRelayer
  <2>2. QED
    BY <2>1, RunAssumption DEF RunAssumption, Senders, Next, OwnerNext
<1>6. QED
  BY <1>2, <1>3, <1>4, <1>5

LEMMA RunStepAtGate == RunTypeInv /\ [RunNext]_allVars => [Next]_vars
<1> SUFFICES ASSUME RunTypeInv, [RunNext]_allVars PROVE [Next]_vars
  OBVIOUS
<1>1. CASE Deployment
  BY <1>1, DeploymentAtGate DEF RunTypeInv
<1>2. CASE RunnerStep \/ RunInterrupted \/ TransactionLost \/ StrayCall
  BY <1>2 DEF RunnerStep, RunInterrupted, TransactionLost, StrayCall
<1>3. CASE TransactionStep
  <2>1. PICK tx \in sent :
           SubmitIncluded(tx) \/ ResumeIncluded(tx) \/ Refused(tx) \/ NonceTaken(tx)
    BY <1>3 DEF TransactionStep
  <2>2. tx \in Tx /\ Valid(tx)
    BY DEF RunTypeInv
  <2>3. CASE SubmitIncluded(tx)
    <3>1. tx.delegate \in Delegates /\ SubmitIntent("relayer", tx.delegate)
      BY <2>2, <2>3 DEF SubmitIncluded, Valid
    <3>2. QED
      BY <3>1, RunAssumption DEF RunAssumption, Senders, Next
  <2>4. CASE ResumeIncluded(tx)
    BY <2>2, <2>4, ResumeIsApprovers DEF Next
  <2>5. CASE Refused(tx) \/ NonceTaken(tx)
    BY <2>5 DEF Refused, NonceTaken
  <2>6. QED
    BY <2>1, <2>3, <2>4, <2>5
<1>4. CASE GateStep
  BY <1>4 DEF GateStep, Next, RuntimeNext
<1>5. CASE TargetStep
  <2>1. PICK c \in calls : TargetExecutes(c, TRUE) \/ TargetExecutes(c, FALSE)
    BY <1>5 DEF TargetStep, CallSucceeds, CallFails
  <2>2. QED
    BY <2>1 DEF Next, RuntimeNext
<1>6. CASE GateDisturbed
  BY <1>6, RunAssumption
     DEF RunAssumption, Senders, GateDisturbed, Next, OwnerNext, OwnerFeeNext, RuntimeNext
<1>7. CASE UNCHANGED allVars
  BY <1>7 DEF allVars
<1>8. QED
  BY <1>1, <1>2, <1>3, <1>4, <1>5, <1>6, <1>7 DEF RunNext, ChainStep

-----------------------------------------------------------------------------
\* Types

\* The facts of RunAssumption about a job.
LEMMA JobFacts ==
    ASSUME NEW j \in Jobs
    PROVE  /\ j.kind \in {"sequence", "claim", "reject"}
           /\ j.target \in {"register", "ftShim"}
           /\ j.order \in Seq(Nat) /\ IsPermutation(j.order)
           /\ Len(j.order) \in 1..MaxBatch
           /\ j.kind = "sequence" \/ Len(j.order) = 1
           /\ \A r \in 1..MaxRuns, k \in 1..Len(j.order) : JobDelegate(r, j, k) \in Delegates
           /\ j # None
BY RunAssumption DEF RunAssumption

LEMMA MirrorFeeType ==
    ASSUME NEW n \in Nat, MirrorCovers(n)
    PROVE  MirrorFee(n) \in Deposits
<1> DEFINE Fit == {k \in 1..Len(DefaultFeeTiers) : n <= DefaultFeeTiers[k].cap}
<1>1. /\ Len(DefaultFeeTiers) \in Nat
      /\ \A k \in 1..Len(DefaultFeeTiers) : DefaultFeeTiers[k].cap \in Nat
  <2>1. \A k \in 1..Len(DefaultFeeTiers) : DefaultFeeTiers[k] \in Tier
    BY FeeAssumption DEF FeeAssumption
  <2>2. QED
    BY <2>1, FeeAssumption DEF FeeAssumption, Tier
<1>2. Fit \subseteq Nat /\ Fit # {}
  BY DEF MirrorCovers
<1>3. PICK k \in Fit : \A l \in Fit : ~(<<l, k>> \in OpToRel(<, Nat))
  BY <1>2, NatLessThanWellFounded, WFMin, Zenon
<1>4. \A l \in Fit : ~(l < k)
  BY <1>2, <1>3 DEF OpToRel
<1>5. \A l \in 1..(k - 1) : n > DefaultFeeTiers[l].cap
  <2> TAKE l \in 1..(k - 1)
  <2>1. l \in 1..Len(DefaultFeeTiers) /\ l < k
    BY <1>1
  <2>2. QED
    BY <1>1, <1>4, <2>1
<1>6. k \in 1..Len(DefaultFeeTiers) /\ n <= DefaultFeeTiers[k].cap
  OBVIOUS
<1> DEFINE first == CHOOSE m \in 1..Len(DefaultFeeTiers) :
                       /\ n <= DefaultFeeTiers[m].cap
                       /\ \A l \in 1..(m - 1) : n > DefaultFeeTiers[l].cap
<1>7. first \in 1..Len(DefaultFeeTiers)
  BY <1>5, <1>6, Zenon
<1>8. MirrorFee(n) = DefaultFeeTiers[first].fee
  BY DEF MirrorFee
<1> HIDE DEF first
<1>9. QED
  BY <1>7, <1>8, RunAssumption DEF RunAssumption

\* A run that is over, in the record of all runs.
LEMMA OneMoreRun ==
    ASSUME RunTypeInv, NEW j, NEW verdict, Finish(j, verdict)
    PROVE  /\ Len(done') = Len(done) + 1
           /\ \A r \in 1..Len(done) : done'[r] = done[r]
           /\ done'[Run].job = j /\ done'[Run].ids = ids
           /\ done'[Run].verdict = verdict /\ done'[Run].seen = entries[j.target]
           /\ done' \in Seq({done'[r] : r \in 1..Len(done')})
<1> PICK end : end =
          [job |-> j, ids |-> ids, verdict |-> verdict, seen |-> entries[j.target],
           settled |-> sent = {} /\ resumes = {} /\ calls = {} /\ thens = {},
           failed |-> failed, mishaps |-> mishaps, strays |-> strays]
  OBVIOUS
<1>1. done' = Append(done, end)
  BY DEF Finish
<1>2. PICK S : done \in Seq(S)
  BY DEF RunTypeInv
<1>3. done \in Seq(S \cup {end}) /\ Len(done) \in Nat
  BY <1>2
<1>4. /\ done' \in Seq(S \cup {end}) /\ Len(done') = Len(done) + 1
      /\ \A r \in 1..Len(done) : done'[r] = done[r]
      /\ done'[Len(done) + 1] = end
  BY <1>1, <1>3
<1>5. done' \in Seq({done'[r] : r \in 1..Len(done')})
  BY <1>4
<1>6. QED
  BY <1>4, <1>5 DEF Run

\* What becomes of the transactions in flight: they leave, with their nonce used or not.
LEMMA TransactionFate ==
    ASSUME RunTypeInv, TransactionStep \/ TransactionLost
    PROVE  /\ sent' \subseteq sent /\ key_nonce' \in [Senders -> Nat]
           /\ UNCHANGED <<runVars, done>>
<1>1. CASE TransactionLost
  BY <1>1 DEF TransactionLost, RunTypeInv
<1>2. CASE TransactionStep
  <2>1. PICK tx \in sent :
           SubmitIncluded(tx) \/ ResumeIncluded(tx) \/ Refused(tx) \/ NonceTaken(tx)
    BY <1>2 DEF TransactionStep
  <2>2. tx.by \in Senders /\ tx.nonce \in Nat
    BY DEF RunTypeInv, Tx
  <2>3. Included(tx) \/ NonceTaken(tx)
    BY <2>1 DEF SubmitIncluded, ResumeIncluded, Refused
  <2>4. sent' = sent \ {tx}
    BY <2>3 DEF Included, NonceTaken
  <2>5. key_nonce' \in [Senders -> Nat]
    BY <2>2, <2>3 DEF Included, NonceTaken, RunTypeInv
  <2>6. QED
    BY <1>2, <2>4, <2>5 DEF TransactionStep
<1>3. QED
  BY <1>1, <1>2

LEMMA BatchIdsType ==
    ASSUME RunTypeInv, step # "idle", Len(ids) = Len(job.order)
    PROVE  BatchIds \in Seq(Ids) /\ Len(BatchIds) = Len(job.order)
<1>1. ids \in Seq(Ids) /\ job \in Jobs
  BY DEF RunTypeInv, Learnt
<1>2. Len(job.order) \in Nat /\ \A k \in 1..Len(job.order) : job.order[k] \in 1..Len(ids)
  BY <1>1, JobFacts DEF IsPermutation
<1>3. \A k \in 1..Len(job.order) : ids[job.order[k]] \in Ids
  BY <1>1, <1>2
<1>4. QED
  BY <1>2, <1>3 DEF BatchIds

LEMMA RunTypeStep == RunTypeInv /\ [RunNext]_allVars => RunTypeInv'
<1> SUFFICES ASSUME RunTypeInv, [RunNext]_allVars PROVE RunTypeInv'
  OBVIOUS
<1>a. relayers' \subseteq {"relayer"}
  BY RelayersStep DEF RunTypeInv
<1>b. Len(done) \in Nat /\ MaxRuns \in Nat /\ Run = Len(done) + 1
  BY RunAssumption DEF RunTypeInv, RunAssumption, Run
<1>c. \A a \in Senders : next_nonce[a] \in Nat /\ key_nonce[a] \in Nat
  BY DEF RunTypeInv
<1>1. CASE UNCHANGED <<runVars, chainVars, done>>
  BY <1>1, <1>a DEF RunTypeInv, runVars, chainVars, Run
<1>2. CASE TransactionStep \/ TransactionLost
  <2>1. /\ sent' \subseteq sent /\ key_nonce' \in [Senders -> Nat]
        /\ UNCHANGED <<runVars, done>>
    BY <1>2, TransactionFate
  <2>2. QED
    BY <1>a, <2>1 DEF RunTypeInv, runVars, Run
<1>3. ASSUME NEW j, NEW verdict, Finish(j, verdict), Learnt(ids, j), Run <= MaxRuns,
             UNCHANGED <<sent, key_nonce>>
      PROVE  RunTypeInv'
  <2>1. /\ Len(done') = Len(done) + 1
        /\ \A r \in 1..Len(done) : done'[r] = done[r]
        /\ done'[Len(done) + 1].job = j /\ done'[Len(done) + 1].ids = ids
        /\ done' \in Seq({done'[r] : r \in 1..Len(done')})
    BY <1>3, OneMoreRun DEF Run
  <2>2. \A r \in 1..Len(done') : Learnt(done'[r].ids, done'[r].job)
    BY <1>3, <1>b, <2>1 DEF RunTypeInv
  <2>3. step' = "idle" /\ job' = None /\ ids' = <<>> /\ next_nonce' \in [Senders -> Nat]
    BY <1>3 DEF Finish
  <2>4. QED
    BY <1>3, <1>a, <1>b, <2>1, <2>2, <2>3 DEF RunTypeInv
<1>4. CASE RunnerStep
  <2>0. UNCHANGED key_nonce
    BY <1>4 DEF RunnerStep
  <2>1. ASSUME NEW j \in Jobs, Start(j)
        PROVE  RunTypeInv'
    <3>1. /\ step' = "submit" /\ job' = j /\ ids' = ids /\ ids = <<>>
          /\ Run <= MaxRuns /\ UNCHANGED <<sent, done, key_nonce>>
      BY <2>0, <2>1 DEF Start, RunTypeInv
    <3>2. next_nonce' \in [Senders -> Nat]
      BY <1>c, <2>1 DEF Start
    <3>3. Learnt(ids', job')
      BY <3>1, JobFacts DEF Learnt
    <3>4. QED
      BY <1>a, <3>1, <3>2, <3>3 DEF RunTypeInv, Run
  <2>2. ASSUME NEW j \in Jobs, StartThrows(j)
        PROVE  RunTypeInv'
    <3>1. Learnt(ids, j) /\ Run <= MaxRuns /\ Finish(j, "threw") /\ UNCHANGED sent
      BY <2>2, JobFacts DEF StartThrows, RunTypeInv, Learnt
    <3>2. QED
      BY <1>3, <2>0, <3>1
  <2>3. CASE SendSubmit
    <3>1. /\ step = "submit" /\ Len(ids) < Len(job.order) /\ step' = "await"
          /\ UNCHANGED <<job, ids, done, key_nonce>>
          /\ Broadcast("relayer", "submit", Awaited, <<>>, 0)
      BY <2>0, <2>3 DEF SendSubmit, Broadcast
    <3>2. Learnt(ids, job) /\ Run <= MaxRuns
      BY <3>1 DEF RunTypeInv
    <3>3. Awaited \in Delegates
      <4>1. Run \in 1..MaxRuns /\ Len(ids) + 1 \in 1..Len(job.order)
        BY <1>b, <3>1, <3>2, JobFacts DEF Learnt
      <4>2. QED
        BY <3>2, <4>1, JobFacts DEF Learnt, Awaited
    <3>4. PICK tx : /\ sent' = sent \cup {tx}
                    /\ tx = [by |-> "relayer", nonce |-> next_nonce["relayer"],
                             call |-> "submit", delegate |-> Awaited, list |-> <<>>,
                             attached |-> 0]
      BY <3>1 DEF Broadcast
    <3>5. tx \in Tx /\ Valid(tx)
      BY <1>c, <3>3, <3>4 DEF Tx, Valid, Senders
    <3>6. next_nonce' \in [Senders -> Nat]
      BY <1>c, <3>1 DEF Broadcast, Senders, RunTypeInv
    <3>7. QED
      BY <1>a, <3>1, <3>2, <3>4, <3>5, <3>6 DEF RunTypeInv, Run
  <2>4. CASE SendResume
    <3>1. /\ step = "submit" /\ Len(ids) = Len(job.order) /\ step' = "wait"
          /\ MirrorCovers(Len(ids))
          /\ UNCHANGED <<job, ids, done, key_nonce>>
          /\ Broadcast("approver", job.kind, None, BatchIds, MirrorFee(Len(ids)))
      BY <2>0, <2>4 DEF SendResume, Submitted, Broadcast
    <3>2. Learnt(ids, job) /\ Run <= MaxRuns
      BY <3>1 DEF RunTypeInv
    <3>3. /\ job.kind \in {"sequence", "claim", "reject"}
          /\ Len(ids) \in 1..MaxBatch
          /\ BatchIds \in Seq(Ids) /\ Len(BatchIds) = Len(ids)
      BY <3>1, <3>2, JobFacts, BatchIdsType DEF Learnt
    <3>4. MirrorFee(Len(ids)) \in Deposits /\ MirrorFee(Len(ids)) \in Nat
      <4>1. Len(ids) \in Nat
        BY <3>2 DEF Learnt
      <4>2. MirrorFee(Len(ids)) \in Deposits
        BY <3>1, <4>1, MirrorFeeType, Zenon
      <4>3. QED
        BY <4>2, FeeAssumption DEF FeeAssumption
    <3>5. PICK tx : /\ sent' = sent \cup {tx}
                    /\ tx = [by |-> "approver", nonce |-> next_nonce["approver"],
                             call |-> job.kind, delegate |-> None, list |-> BatchIds,
                             attached |-> MirrorFee(Len(ids))]
      BY <3>1 DEF Broadcast
    <3>6. tx \in Tx /\ Valid(tx)
      BY <1>c, <3>3, <3>4, <3>5 DEF Tx, Valid, Senders
    <3>7. next_nonce' \in [Senders -> Nat]
      BY <1>c, <3>1 DEF Broadcast, Senders, RunTypeInv
    <3>8. QED
      BY <1>a, <3>1, <3>2, <3>5, <3>6, <3>7 DEF RunTypeInv, Run
  <2>5. ASSUME NEW i \in Ids, LearnId(i)
        PROVE  RunTypeInv'
    <3>1. /\ step = "await" /\ step' = "submit" /\ ids' = Append(ids, i)
          /\ UNCHANGED <<job, next_nonce, sent, done, key_nonce>>
      BY <2>0, <2>5 DEF LearnId
    <3>2. Learnt(ids, job) /\ Run <= MaxRuns /\ Len(ids) < Len(job.order)
      BY <3>1 DEF RunTypeInv
    <3>3. Learnt(ids', job)
      BY <3>1, <3>2, JobFacts DEF Learnt
    <3>4. QED
      BY <1>a, <3>1, <3>2, <3>3 DEF RunTypeInv, Run
  <2>6. CASE AwaitThrows \/ FeeThrows \/ Compare
    <3>1. PICK verdict : Finish(job, verdict)
      BY <2>6 DEF AwaitThrows, FeeThrows, Compare
    <3>2. step # "idle" /\ UNCHANGED sent
      BY <2>6 DEF AwaitThrows, FeeThrows, Compare, Submitted
    <3>3. QED
      BY <1>3, <2>0, <3>1, <3>2 DEF RunTypeInv
  <2>7. QED
    BY <1>4, <2>1, <2>2, <2>3, <2>4, <2>5, <2>6 DEF RunnerStep
<1>5. CASE RunInterrupted
  BY <1>3, <1>5 DEF RunInterrupted, chainVars, RunTypeInv
<1>6. CASE Deployment \/ ChainStep \/ UNCHANGED allVars
  BY <1>1, <1>6 DEF Deployment, ChainStep, allVars
<1>7. QED
  BY <1>2, <1>4, <1>5, <1>6 DEF RunNext

-----------------------------------------------------------------------------
\* Runs, and the intents they own

LEMMA RunsAreNat == ASSUME RunTypeInv PROVE Len(done) \in Nat /\ Runs \subseteq Nat
BY DEF RunTypeInv, Runs, Run

\* What is known of a run, in the record or under way.
LEMMA RunFacts ==
    ASSUME RunTypeInv, NEW r \in Runs
    PROVE  /\ Learnt(IdsOf(r), JobOf(r)) /\ JobOf(r) \in Jobs
           /\ r > Len(done) => /\ r = Run /\ step # "idle"
                               /\ IdsOf(r) = ids /\ JobOf(r) = job
BY RunsAreNat DEF RunTypeInv, Runs, Run, JobOf, IdsOf, Learnt

\* A run keeps its number, its job and the ids it has learnt.
LEMMA RunMoves ==
    ASSUME RunTypeInv, [RunNext]_allVars
    PROVE  /\ \A r \in Runs : r \in Runs' /\ JobOf(r)' = JobOf(r)
           /\ \A r \in Runs :
                 \/ IdsOf(r)' = IdsOf(r)
                 \/ /\ r = Run /\ step = "await"
                    /\ \E i \in Ids : Holds(i, Awaited) /\ IdsOf(r)' = Append(IdsOf(r), i)
           /\ \A r \in Runs' : r \notin Runs => IdsOf(r)' = <<>> /\ step = "idle"
<1>a. Len(done) \in Nat /\ Runs \subseteq Nat /\ Run = Len(done) + 1
  BY RunsAreNat DEF Run
<1>b. (step = "idle" => ids = <<>>) /\ (step = "idle" <=> job = None)
  BY JobFacts DEF RunTypeInv, Learnt
<1>1. CASE UNCHANGED <<done, job, ids>> /\ (step' = "idle" <=> step = "idle")
  BY <1>1 DEF Runs, Run, JobOf, IdsOf
<1>2. ASSUME NEW j, NEW verdict, Finish(j, verdict), step # "idle" => j = job
      PROVE  /\ \A r \in Runs : /\ r \in Runs' /\ JobOf(r)' = JobOf(r)
                                /\ IdsOf(r)' = IdsOf(r)
             /\ \A r \in Runs' : r \notin Runs => IdsOf(r)' = <<>> /\ step = "idle"
  <2>1. /\ Len(done') = Len(done) + 1 /\ step' = "idle"
        /\ \A r \in 1..Len(done) : done'[r] = done[r]
        /\ done'[Len(done) + 1].job = j /\ done'[Len(done) + 1].ids = ids
    BY <1>2, OneMoreRun DEF Run, Finish
  <2>2. Runs' = 1..(Len(done) + 1)
    BY <2>1 DEF Runs
  <2>3. CASE step = "idle"
    BY <1>a, <1>b, <2>1, <2>2, <2>3 DEF Runs, JobOf, IdsOf
  <2>4. CASE step # "idle"
    BY <1>a, <1>2, <2>1, <2>2, <2>4 DEF Runs, JobOf, IdsOf
  <2>5. QED
    BY <2>3, <2>4
<1>3. CASE RunnerStep
  <2>1. ASSUME NEW j \in Jobs, Start(j)
        PROVE  /\ \A r \in Runs : /\ r \in Runs' /\ JobOf(r)' = JobOf(r)
                                  /\ IdsOf(r)' = IdsOf(r)
               /\ \A r \in Runs' : r \notin Runs => IdsOf(r)' = <<>> /\ step = "idle"
    BY <1>a, <1>b, <2>1 DEF Start, Runs, Run, JobOf, IdsOf
  <2>2. ASSUME NEW j \in Jobs, StartThrows(j)
        PROVE  Finish(j, "threw") /\ step = "idle"
    BY <2>2 DEF StartThrows
  <2>3. CASE SendSubmit \/ SendResume
    BY <1>1, <2>3 DEF SendSubmit, SendResume, Submitted, Broadcast
  <2>4. CASE AwaitThrows \/ FeeThrows \/ Compare
    <3>1. PICK verdict : Finish(job, verdict)
      BY <2>4 DEF AwaitThrows, FeeThrows, Compare
    <3>2. QED
      BY <1>2, <3>1
  <2>5. ASSUME NEW i \in Ids, LearnId(i)
        PROVE  /\ \A r \in Runs : r \in Runs' /\ JobOf(r)' = JobOf(r)
               /\ \A r \in Runs :
                     \/ IdsOf(r)' = IdsOf(r)
                     \/ /\ r = Run /\ step = "await"
                        /\ Holds(i, Awaited) /\ IdsOf(r)' = Append(IdsOf(r), i)
               /\ Runs' = Runs
    BY <1>a, <2>5 DEF LearnId, Runs, Run, JobOf, IdsOf
  <2>6. QED
    BY <1>2, <1>3, <2>1, <2>2, <2>3, <2>4, <2>5 DEF RunnerStep
<1>4. CASE RunInterrupted
  BY <1>2, <1>4 DEF RunInterrupted
<1>5. CASE TransactionStep \/ TransactionLost
  BY <1>1, <1>5 DEF TransactionStep, TransactionLost, runVars
<1>6. CASE Deployment \/ ChainStep \/ UNCHANGED allVars
  BY <1>1, <1>6 DEF Deployment, ChainStep, allVars, runVars
<1>7. QED
  BY <1>3, <1>4, <1>5, <1>6 DEF RunNext

\* The arguments of an accepted intent stay as they were accepted.
LEMMA IntentsStay ==
    ASSUME TypeInv, LifeInv, [Next]_vars, NEW i \in Ids, intents[i] # None
    PROVE  intents'[i] = intents[i] /\ Delegate(i)' = Delegate(i)
<1>1. intents'[i] = intents[i]
  <2>1. ASSUME NEW by \in Accounts, NEW d \in Delegates, SubmitIntent(by, d)
        PROVE  intents'[i] = intents[i]
    <3>1. i # next_intent_id
      BY <2>1, IdFacts DEF TypeInv, LifeInv, SubmitIntent
    <3>2. QED
      BY <2>1, <3>1, IntentsType DEF SubmitIntent
  <2>2. CASE UNCHANGED submitVars
    BY <2>2 DEF submitVars
  <2>3. QED
    BY <2>1, <2>2, SubmitOnly
<1>2. QED
  BY <1>1 DEF Delegate

LEMMA OwnStep ==
    ASSUME RunTypeInv, TypeInv, LifeInv, OwnInv, [RunNext]_allVars
    PROVE  OwnInv'
<1> SUFFICES ASSUME NEW r \in Runs', NEW k \in 1..Len(IdsOf(r)')
             PROVE  /\ intents'[IdsOf(r)'[k]] # None
                    /\ Delegate(IdsOf(r)[k])' = JobDelegate(r, JobOf(r)', k)
  BY DEF OwnInv
<1>1. [Next]_vars
  BY RunStepAtGate
<1>2. r \in Runs /\ JobOf(r)' = JobOf(r)
  BY RunMoves
<1>3. Learnt(IdsOf(r), JobOf(r))
  BY <1>2, RunFacts
<1>4. ASSUME NEW i \in Ids, i = IdsOf(r)'[k], intents[i] # None,
             Delegate(i) = JobDelegate(r, JobOf(r), k)
      PROVE  /\ intents'[IdsOf(r)'[k]] # None
             /\ Delegate(IdsOf(r)[k])' = JobDelegate(r, JobOf(r)', k)
  <2>1. intents'[i] = intents[i] /\ Delegate(i)' = Delegate(i)
    BY <1>1, <1>4, IntentsStay
  <2>2. QED
    BY <1>2, <1>4, <2>1 DEF Delegate
<1>5. CASE IdsOf(r)' = IdsOf(r)
  BY <1>2, <1>3, <1>4, <1>5 DEF OwnInv, Learnt
<1>6. ASSUME r = Run, step = "await", NEW i \in Ids, Holds(i, Awaited),
             IdsOf(r)' = Append(IdsOf(r), i)
      PROVE  /\ intents'[IdsOf(r)'[k]] # None
             /\ Delegate(IdsOf(r)[k])' = JobDelegate(r, JobOf(r)', k)
  <2>1. IdsOf(r) = ids /\ JobOf(r) = job
    BY <1>2, <1>6, RunFacts, RunsAreNat DEF Run
  <2>2. CASE k = Len(ids) + 1
    <3>1. IdsOf(r)'[k] = i
      BY <1>3, <1>6, <2>1, <2>2 DEF Learnt
    <3>2. intents[i] # None /\ Delegate(i) = JobDelegate(r, JobOf(r), k)
      BY <1>6, <2>1, <2>2 DEF Holds, Awaited
    <3>3. QED
      BY <1>4, <3>1, <3>2
  <2>3. CASE k # Len(ids) + 1
    <3>1. k \in 1..Len(IdsOf(r)) /\ IdsOf(r)'[k] = IdsOf(r)[k] /\ IdsOf(r)[k] \in Ids
      BY <1>3, <1>6, <2>1, <2>3 DEF Learnt
    <3>2. QED
      BY <1>2, <1>4, <3>1 DEF OwnInv
  <2>4. QED
    BY <2>2, <2>3
<1>7. QED
  BY <1>2, <1>5, <1>6, RunMoves

-----------------------------------------------------------------------------
\* What is resumed, by which run

\* The members of a list are the intents of its run, each once.
LEMMA AskedFacts ==
    ASSUME RunTypeInv, OwnInv, NEW list, NEW r, AskedBy(list, r)
    PROVE  /\ r \in Runs /\ Len(list) \in Nat /\ Len(list) > 0 /\ list \in Seq(Ids)
           /\ Len(IdsOf(r)) = Len(JobOf(r).order) /\ Len(list) = Len(JobOf(r).order)
           /\ \A k \in 1..Len(list) :
                 /\ list[k] \in Ids /\ intents[list[k]] # None
                 /\ JobOf(r).order[k] \in 1..Len(list)
                 /\ list[k] = IdsOf(r)[JobOf(r).order[k]]
                 /\ Delegate(list[k]) = JobDelegate(r, JobOf(r), JobOf(r).order[k])
           /\ RunOf(list) = r
<1>1. r \in Runs /\ list # <<>> /\ list = Asked(IdsOf(r), JobOf(r))
  BY DEF AskedBy
<1>2. Learnt(IdsOf(r), JobOf(r)) /\ JobOf(r) \in Jobs
  BY <1>1, RunFacts
<1>3. PICK order : order = JobOf(r).order
  OBVIOUS
<1>4. Len(order) \in Nat /\ \A k \in 1..Len(order) : order[k] \in 1..Len(order)
  BY <1>2, <1>3, JobFacts DEF IsPermutation
<1>5. PICK own \in Seq(Ids) : own = IdsOf(r)
  BY <1>2 DEF Learnt
<1>6. Len(own) = Len(order) /\ list = [k \in 1..Len(own) |-> own[order[k]]]
  BY <1>1, <1>3, <1>5 DEF Asked
<1>7. \A k \in 1..Len(order) : own[order[k]] \in Ids
  BY <1>4, <1>5, <1>6
<1>8. /\ list \in Seq(Ids) /\ Len(list) \in Nat /\ Len(list) = Len(order)
      /\ Len(list) > 0 /\ 1 \in 1..Len(list)
  BY <1>1, <1>4, <1>6, <1>7
<1>9. \A k \in 1..Len(own) :
         intents[own[k]] # None /\ Delegate(own[k]) = JobDelegate(r, JobOf(r), k)
  BY <1>1, <1>5 DEF OwnInv
<1>10. ASSUME NEW k \in 1..Len(list)
       PROVE  /\ list[k] \in Ids /\ intents[list[k]] # None
              /\ order[k] \in 1..Len(list) /\ list[k] = own[order[k]]
              /\ Delegate(list[k]) = JobDelegate(r, JobOf(r), order[k])
              /\ Delegate(list[k]).nonce = <<r, order[k]>>
  <2>1. list[k] = own[order[k]] /\ order[k] \in 1..Len(own) /\ order[k] \in 1..Len(list)
    BY <1>4, <1>6, <1>8
  <2>2. JobDelegate(r, JobOf(r), order[k]).nonce = <<r, order[k]>>
    BY DEF JobDelegate
  <2>3. QED
    BY <1>7, <1>8, <1>9, <2>1, <2>2
<1>11. RunOf(list) = r
  <2>1. Delegate(list[1]).nonce = <<r, order[1]>>
    BY <1>8, <1>10, Zenon
  <2>2. QED
    BY <2>1 DEF RunOf
<1>12. QED
  BY <1>1, <1>3, <1>5, <1>6, <1>8, <1>10, <1>11

LEMMA AskedNonce ==
    ASSUME RunTypeInv, OwnInv, NEW list, NEW r, AskedBy(list, r), NEW k \in 1..Len(list)
    PROVE  Delegate(list[k]).nonce = <<r, JobOf(r).order[k]>>
<1>1. Delegate(list[k]) = JobDelegate(r, JobOf(r), JobOf(r).order[k])
  BY AskedFacts
<1>2. JobDelegate(r, JobOf(r), JobOf(r).order[k]).nonce = <<r, JobOf(r).order[k]>>
  BY DEF JobDelegate
<1>3. QED
  BY <1>1, <1>2

\* A list stays what its run asked for.
LEMMA AskedStays ==
    ASSUME RunTypeInv, TypeInv, LifeInv, OwnInv, [RunNext]_allVars,
           NEW list, NEW r, AskedBy(list, r)
    PROVE  AskedBy(list, r)' /\ RunOf(list)' = r /\ JobOf(r)' = JobOf(r)
<1>1. [Next]_vars
  BY RunStepAtGate
<1>2. /\ r \in Runs /\ Len(IdsOf(r)) = Len(JobOf(r).order) /\ RunOf(list) = r
      /\ list[1] \in Ids /\ intents[list[1]] # None
  BY AskedFacts
<1>3. r \in Runs' /\ JobOf(r)' = JobOf(r)
  BY <1>2, RunMoves
<1>4. IdsOf(r)' = IdsOf(r)
  <2>1. CASE r = Run /\ step = "await"
    <3>1. IdsOf(r) = ids /\ JobOf(r) = job
      BY <1>2, <2>1, RunFacts, RunsAreNat DEF Run
    <3>2. Len(IdsOf(r)) < Len(JobOf(r).order)
      BY <2>1, <3>1 DEF RunTypeInv
    <3>3. QED
      BY <1>2, <3>2, RunFacts, JobFacts DEF Learnt
  <2>2. QED
    BY <1>2, <2>1, RunMoves
<1>5. AskedBy(list, r)'
  BY <1>3, <1>4 DEF AskedBy, Asked
<1>6. RunOf(list)' = RunOf(list)
  BY <1>1, <1>2, IntentsStay DEF RunOf
<1>7. QED
  BY <1>2, <1>3, <1>5, <1>6

\* How the lists in flight and the batches change.
LEMMA ListsMove ==
    ASSUME RunTypeInv, [RunNext]_allVars
    PROVE  \/ Resuming' \subseteq Resuming /\ batches' = batches
           \/ \E tx \in Resuming :
                 /\ tx.call = "sequence" /\ batches' = Append(batches, tx.list)
                 /\ Resuming' = Resuming \ {tx} /\ UNCHANGED <<step, done>>
           \/ \E tx \in Tx :
                 /\ Resuming' = Resuming \cup {tx} /\ batches' = batches
                 /\ tx.call = job.kind /\ tx.list = BatchIds
                 /\ step = "submit" /\ step' = "wait" /\ UNCHANGED done
                 /\ Len(ids) = Len(job.order)
<1> USE DEF vars, gateVars, batchVars
<1>1. CASE Deployment
  BY <1>1 DEF Deployment, chainVars, Resuming
<1>2. CASE RunnerStep
  <2>1. batches' = batches
    BY <1>2 DEF RunnerStep
  <2>2. CASE SendSubmit
    <3>1. PICK tx : /\ sent' = sent \cup {tx}
                    /\ tx = [by |-> "relayer", nonce |-> next_nonce["relayer"],
                             call |-> "submit", delegate |-> Awaited, list |-> <<>>,
                             attached |-> 0]
      BY <2>2 DEF SendSubmit, Broadcast
    <3>2. QED
      BY <2>1, <3>1 DEF Resuming
  <2>3. CASE SendResume
    <3>1. /\ step = "submit" /\ Len(ids) = Len(job.order) /\ step' = "wait"
          /\ MirrorCovers(Len(ids)) /\ UNCHANGED done
          /\ Broadcast("approver", job.kind, None, BatchIds, MirrorFee(Len(ids)))
      BY <2>3 DEF SendResume, Submitted, Broadcast
    <3>2. Learnt(ids, job) /\ next_nonce["approver"] \in Nat
      BY <3>1 DEF RunTypeInv, Senders
    <3>3. /\ job.kind \in {"sequence", "claim", "reject"} /\ Len(ids) \in Nat
          /\ BatchIds \in Seq(Ids)
      BY <3>1, <3>2, JobFacts, BatchIdsType DEF Learnt
    <3>4. MirrorFee(Len(ids)) \in Nat
      <4>1. MirrorFee(Len(ids)) \in Deposits
        BY <3>1, <3>3, MirrorFeeType, Zenon
      <4>2. QED
        BY <4>1, FeeAssumption DEF FeeAssumption
    <3>5. PICK tx : /\ sent' = sent \cup {tx}
                    /\ tx = [by |-> "approver", nonce |-> next_nonce["approver"],
                             call |-> job.kind, delegate |-> None, list |-> BatchIds,
                             attached |-> MirrorFee(Len(ids))]
      BY <3>1 DEF Broadcast
    <3>6. tx \in Tx /\ tx.call # "submit"
      BY <3>2, <3>3, <3>4, <3>5 DEF Tx, Senders
    <3>7. Resuming' = Resuming \cup {tx}
      BY <3>5, <3>6 DEF Resuming
    <3>8. QED
      BY <2>1, <3>1, <3>5, <3>6, <3>7
  <2>4. CASE UNCHANGED sent
    BY <2>1, <2>4 DEF Resuming
  <2>5. QED
    BY <1>2, <2>2, <2>3, <2>4
       DEF RunnerStep, Start, StartThrows, AwaitThrows, FeeThrows, Compare, LearnId
<1>3. CASE RunInterrupted
  BY <1>3 DEF RunInterrupted, chainVars, Resuming
<1>4. CASE TransactionLost
  BY <1>4 DEF TransactionLost, Resuming
<1>5. CASE TransactionStep
  <2>1. PICK tx \in sent :
           SubmitIncluded(tx) \/ ResumeIncluded(tx) \/ Refused(tx) \/ NonceTaken(tx)
    BY <1>5 DEF TransactionStep
  <2>2. sent' = sent \ {tx} /\ UNCHANGED <<step, done>>
    BY <1>5, <2>1 DEF TransactionStep, runVars, SubmitIncluded, ResumeIncluded, Refused,
                      NonceTaken, Included
  <2>3. CASE batches' = batches
    BY <2>2, <2>3 DEF Resuming
  <2>4. CASE /\ ResumeIncluded(tx) /\ tx.call = "sequence"
             /\ ResumeBatchChained("approver", tx.list, tx.attached)
    <3>1. tx \in Resuming /\ Resuming' = Resuming \ {tx}
      BY <2>2, <2>4 DEF Resuming
    <3>2. QED
      BY <2>2, <2>4, <3>1 DEF ResumeBatchChained
  <2>5. QED
    BY <2>1, <2>3, <2>4 DEF SubmitIncluded, SubmitIntent, ResumeIncluded, ResumeIntent,
                            Refused, NonceTaken
<1>6. CASE ChainStep
  <2>1. UNCHANGED sent
    BY <1>6 DEF ChainStep, chainVars
  <2>2. batches' = batches
    <3>1. CASE GateStep
      BY <3>1 DEF GateStep, DeliverApprove, DeliverReject, DropStale, ContinueChain,
                  ContinueChainPanics
    <3>2. CASE TargetStep
      BY <3>2 DEF TargetStep, CallSucceeds, CallFails, TargetExecutes
    <3>3. CASE GateDisturbed
      BY <3>3 DEF GateDisturbed, TimeoutFires, ResetBatchTail, RemoveRelayer
    <3>4. CASE StrayCall
      BY <3>4 DEF StrayCall
    <3>5. QED
      BY <1>6, <3>1, <3>2, <3>3, <3>4 DEF ChainStep
  <2>3. QED
    BY <2>1, <2>2 DEF Resuming
<1>7. CASE UNCHANGED allVars
  BY <1>7 DEF allVars, chainVars, Resuming
<1>8. QED
  BY <1>1, <1>2, <1>3, <1>4, <1>5, <1>6, <1>7 DEF RunNext

\* What the runner is about to send is asked by the run under way.
LEMMA BatchIdsAsked ==
    ASSUME RunTypeInv, step # "idle", Len(ids) = Len(job.order)
    PROVE  AskedBy(BatchIds, Run)
<1>1. Run \in Runs /\ IdsOf(Run) = ids /\ JobOf(Run) = job
  BY RunsAreNat DEF Runs, Run, IdsOf, JobOf
<1>2. Asked(ids, job) = BatchIds
  BY DEF Asked, BatchIds
<1>3. BatchIds # <<>>
  BY BatchIdsType, JobFacts DEF RunTypeInv, Learnt
<1>4. QED
  BY <1>1, <1>2, <1>3 DEF AskedBy

LEMMA BatchesType == ASSUME TypeInv PROVE batches \in Seq(Seq(Ids)) /\ Len(batches) \in Nat
BY DEF TypeInv, GateTypeOK

\* What holds of a list goes on to hold of it.
LEMMA ListStays ==
    ASSUME RunTypeInv, TypeInv, LifeInv, OwnInv, [RunNext]_allVars,
           NEW list, AskedBy(list, RunOf(list))
    PROVE  /\ AskedBy(list, RunOf(list))'
           /\ RunOf(list)' = RunOf(list) /\ RunOf(list) \in Runs
           /\ JobOf(RunOf(list))' = JobOf(RunOf(list))
<1> PICK r : r = RunOf(list)
  OBVIOUS
<1>1. AskedBy(list, r)' /\ RunOf(list)' = r /\ JobOf(r)' = JobOf(r)
  BY AskedStays
<1>2. QED
  BY <1>1 DEF AskedBy, JobOf

LEMMA ListsStep ==
    ASSUME RunTypeInv, TypeInv, LifeInv, OwnInv, ListsInv, [RunNext]_allVars
    PROVE  ListsInv'
<1>1. ASSUME NEW tx \in Resuming
      PROVE  AskedBy(tx.list, RunOf(tx.list))' /\ tx.call = JobOf(RunOf(tx.list))'.kind
  BY <1>1, ListStays DEF ListsInv
<1>2. ASSUME NEW b \in 1..Len(batches)
      PROVE  /\ AskedBy(batches[b], RunOf(batches[b]))
             /\ JobOf(RunOf(batches[b])).kind = "sequence"
  BY <1>2 DEF ListsInv
<1>3. ASSUME NEW b \in 1..Len(batches), NEW list, list = batches[b]
      PROVE  AskedBy(list, RunOf(list))' /\ JobOf(RunOf(list))'.kind = "sequence"
  BY <1>2, <1>3, ListStays
<1>4. CASE Resuming' \subseteq Resuming /\ batches' = batches
  <2>1. \A b \in 1..Len(batches') : \A list : list = batches'[b] =>
           AskedBy(list, RunOf(list))' /\ JobOf(RunOf(list))'.kind = "sequence"
    BY <1>3, <1>4
  <2>2. QED
    BY <1>1, <1>4, <2>1 DEF ListsInv, AskedBy, RunOf, JobOf
<1>5. ASSUME NEW tx \in Resuming, tx.call = "sequence",
             batches' = Append(batches, tx.list), Resuming' = Resuming \ {tx}
      PROVE  ListsInv'
  <2>1. \A b \in 1..Len(batches') : b = Len(batches) + 1 \/ b \in 1..Len(batches)
    BY <1>5, BatchesType
  <2>2. batches'[Len(batches) + 1] = tx.list
    BY <1>5, BatchesType
  <2>3. \A b \in 1..Len(batches) : batches'[b] = batches[b]
    BY <1>5, BatchesType
  <2>4. \A b \in 1..Len(batches') : \A list : list = batches'[b] =>
           AskedBy(list, RunOf(list))' /\ JobOf(RunOf(list))'.kind = "sequence"
    BY <1>1, <1>3, <1>5, <2>1, <2>2, <2>3
  <2>5. QED
    BY <1>1, <1>5, <2>4 DEF ListsInv, AskedBy, RunOf, JobOf
<1>6. ASSUME NEW tx \in Tx, Resuming' = Resuming \cup {tx}, batches' = batches,
             tx.call = job.kind, tx.list = BatchIds, step = "submit",
             Len(ids) = Len(job.order)
      PROVE  ListsInv'
  <2>1. AskedBy(tx.list, Run) /\ RunOf(tx.list) = Run /\ JobOf(Run) = job
    BY <1>6, BatchIdsAsked, AskedFacts, RunFacts, RunsAreNat DEF Run
  <2>2. AskedBy(tx.list, RunOf(tx.list))' /\ tx.call = JobOf(RunOf(tx.list))'.kind
    BY <1>6, <2>1, ListStays
  <2>3. \A b \in 1..Len(batches') : \A list : list = batches'[b] =>
           AskedBy(list, RunOf(list))' /\ JobOf(RunOf(list))'.kind = "sequence"
    BY <1>3, <1>6
  <2>4. QED
    BY <1>1, <1>6, <2>2, <2>3 DEF ListsInv, AskedBy, RunOf, JobOf
<1>7. QED
  BY <1>4, <1>5, <1>6, ListsMove

\* Where a run stops waiting, it is over.
LEMMA WaitEnds ==
    ASSUME RunTypeInv, [RunNext]_allVars
    PROVE  \/ Run' = Run /\ (step # "wait" \/ step' = "wait")
           \/ Run' = Run + 1
<1>a. Len(done) \in Nat /\ Run = Len(done) + 1
  BY RunsAreNat DEF Run
<1>1. CASE UNCHANGED <<step, done>>
  BY <1>1 DEF Run
<1>2. ASSUME NEW j, NEW verdict, Finish(j, verdict)
      PROVE  Run' = Run + 1
  BY <1>a, <1>2, OneMoreRun DEF Run
<1>3. CASE RunnerStep
  <2>1. CASE \/ \E j \in Jobs : Start(j)
             \/ SendSubmit \/ SendResume \/ \E i \in Ids : LearnId(i)
    BY <2>1 DEF Start, SendSubmit, SendResume, Submitted, LearnId, Broadcast, Run
  <2>2. CASE \/ \E j \in Jobs : StartThrows(j)
             \/ AwaitThrows \/ FeeThrows \/ Compare
    BY <1>2, <2>2 DEF StartThrows, AwaitThrows, FeeThrows, Compare
  <2>3. QED
    BY <1>3, <2>1, <2>2 DEF RunnerStep
<1>4. CASE RunInterrupted
  BY <1>2, <1>4 DEF RunInterrupted
<1>5. CASE Deployment \/ TransactionStep \/ TransactionLost \/ ChainStep \/ UNCHANGED allVars
  BY <1>1, <1>5 DEF Deployment, TransactionStep, TransactionLost, ChainStep, allVars, runVars
<1>6. QED
  BY <1>3, <1>4, <1>5 DEF RunNext

LEMMA OnceStep ==
    ASSUME RunTypeInv, TypeInv, LifeInv, OwnInv, ListsInv, OnceInv, [RunNext]_allVars
    PROVE  OnceInv'
<1>1. \A tx \in Resuming :
         RunOf(tx.list)' = RunOf(tx.list) /\ RunOf(tx.list) \in Runs
  BY ListStays DEF ListsInv
<1>2. \A b \in 1..Len(batches) : \A list : list = batches[b] =>
         RunOf(list)' = RunOf(list) /\ RunOf(list) \in Runs
  BY ListStays DEF ListsInv
<1>3. \A r \in Runs : r \in Nat /\ r < Run + 1
  BY RunsAreNat DEF Runs, Run
<1>4. Run \in Nat /\ Len(batches) \in Nat
  BY RunsAreNat, BatchesType DEF Run
\* What has been asked is not asked by the run under way before it waits, nor by the next.
<1>5. ASSUME step' # "wait", UNCHANGED <<step, done>> \/ Resuming' \subseteq Resuming
      PROVE  /\ \A tx \in Resuming : RunOf(tx.list)' # Run'
             /\ \A b \in 1..Len(batches) : \A list : list = batches[b] =>
                   RunOf(list)' # Run'
  <2>1. CASE Run' = Run /\ step # "wait"
    BY <1>1, <1>2, <2>1 DEF OnceInv
  <2>2. CASE Run' = Run + 1
    BY <1>1, <1>2, <1>3, <1>4, <2>2
  <2>3. QED
    BY <1>5, <2>1, <2>2, WaitEnds
<1>6. CASE Resuming' \subseteq Resuming /\ batches' = batches
  <2>1. \A tx, ux \in Resuming' : RunOf(tx.list)' = RunOf(ux.list)' => tx = ux
    BY <1>1, <1>6 DEF OnceInv
  <2>2. \A tx \in Resuming', b \in 1..Len(batches') : \A list : list = batches'[b] =>
           RunOf(tx.list)' # RunOf(list)'
    BY <1>1, <1>2, <1>6 DEF OnceInv
  <2>3. \A b, c \in 1..Len(batches') : \A l, m : l = batches'[b] /\ m = batches'[c] =>
           (RunOf(l)' = RunOf(m)' => b = c)
    BY <1>2, <1>6 DEF OnceInv
  <2>4. step' # "wait" =>
           /\ \A tx \in Resuming' : RunOf(tx.list)' # Run'
           /\ \A b \in 1..Len(batches') : \A list : list = batches'[b] => RunOf(list)' # Run'
    BY <1>5, <1>6
  <2>5. QED
    BY <2>1, <2>2, <2>3, <2>4 DEF OnceInv, RunOf
<1>7. ASSUME NEW tx \in Resuming, batches' = Append(batches, tx.list),
             Resuming' = Resuming \ {tx}, UNCHANGED <<step, done>>
      PROVE  OnceInv'
  <2>1. /\ \A b \in 1..Len(batches') : b \in 1..Len(batches) \/ b = Len(batches) + 1
        /\ batches'[Len(batches) + 1] = tx.list
        /\ \A b \in 1..Len(batches) : batches'[b] = batches[b]
    BY <1>7, BatchesType
  <2>2. \A ux, vx \in Resuming' : RunOf(ux.list)' = RunOf(vx.list)' => ux = vx
    BY <1>1, <1>7 DEF OnceInv
  <2>3. \A ux \in Resuming' : RunOf(ux.list)' # RunOf(tx.list)'
    BY <1>1, <1>7 DEF OnceInv
  <2>4. \A ux \in Resuming, b \in 1..Len(batches) : \A list : list = batches[b] =>
           RunOf(ux.list)' # RunOf(list)'
    BY <1>1, <1>2 DEF OnceInv
  <2>5. \A ux \in Resuming', b \in 1..Len(batches') : \A list : list = batches'[b] =>
           RunOf(ux.list)' # RunOf(list)'
    BY <1>7, <2>1, <2>3, <2>4
  <2>6. \A b, c \in 1..Len(batches) : \A l, m : l = batches[b] /\ m = batches[c] =>
           (RunOf(l)' = RunOf(m)' => b = c)
    BY <1>2 DEF OnceInv
  <2>7. \A b, c \in 1..Len(batches') : \A l, m : l = batches'[b] /\ m = batches'[c] =>
           (RunOf(l)' = RunOf(m)' => b = c)
    BY <1>7, <2>1, <2>4, <2>6
  <2>8. step' # "wait" =>
           /\ \A ux \in Resuming' : RunOf(ux.list)' # Run'
           /\ \A b \in 1..Len(batches') : \A list : list = batches'[b] => RunOf(list)' # Run'
    BY <1>5, <1>7, <2>1
  <2>9. QED
    BY <2>2, <2>5, <2>7, <2>8 DEF OnceInv, RunOf
<1>8. ASSUME NEW tx \in Tx, Resuming' = Resuming \cup {tx}, batches' = batches,
             tx.list = BatchIds, step = "submit", step' = "wait",
             Len(ids) = Len(job.order)
      PROVE  OnceInv'
  <2>1. AskedBy(tx.list, Run) /\ RunOf(tx.list) = Run
    BY <1>8, BatchIdsAsked, AskedFacts
  <2>2. RunOf(tx.list)' = Run
    BY <2>1, ListStays
  <2>3. /\ \A ux \in Resuming : RunOf(ux.list)' # Run
        /\ \A b \in 1..Len(batches) : \A list : list = batches[b] => RunOf(list)' # Run
    BY <1>1, <1>2, <1>8 DEF OnceInv
  <2>4. \A ux, vx \in Resuming' : RunOf(ux.list)' = RunOf(vx.list)' => ux = vx
    BY <1>1, <1>8, <2>2, <2>3 DEF OnceInv
  <2>5. \A ux \in Resuming', b \in 1..Len(batches') : \A list : list = batches'[b] =>
           RunOf(ux.list)' # RunOf(list)'
    BY <1>1, <1>2, <1>8, <2>2, <2>3 DEF OnceInv
  <2>6. \A b, c \in 1..Len(batches') : \A l, m : l = batches'[b] /\ m = batches'[c] =>
           (RunOf(l)' = RunOf(m)' => b = c)
    BY <1>2, <1>8 DEF OnceInv
  <2>7. QED
    BY <1>8, <2>4, <2>5, <2>6 DEF OnceInv, RunOf
<1>9. QED
  BY <1>6, <1>7, <1>8, ListsMove

\* So no id is listed twice, in one batch or in two.
LEMMA OnceListed ==
    ASSUME RunTypeInv, TypeInv, OwnInv, ListsInv, OnceInv
    PROVE  ListedOnce
<1> SUFFICES ASSUME NEW b \in 1..Len(batches), NEW c \in 1..Len(batches),
                    NEW j \in 1..Len(batches[b]), NEW k \in 1..Len(batches[c]),
                    batches[b][j] = batches[c][k]
             PROVE  b = c /\ j = k
  BY DEF ListedOnce
<1>1. ASSUME NEW l, NEW r, AskedBy(l, r)
      PROVE  /\ r \in Runs /\ JobOf(r) \in Jobs /\ Len(l) = Len(JobOf(r).order)
             /\ \A i \in 1..Len(l) : Delegate(l[i]).nonce = <<r, JobOf(r).order[i]>>
  <2>1. /\ r \in Runs /\ Len(l) = Len(JobOf(r).order)
    BY <1>1, AskedFacts
  <2>2. \A i \in 1..Len(l) : Delegate(l[i]).nonce = <<r, JobOf(r).order[i]>>
    BY <1>1, AskedNonce
  <2>3. QED
    BY <2>1, <2>2, RunFacts
<1> PICK l, m, r, s : /\ l = batches[b] /\ m = batches[c]
                      /\ r = RunOf(batches[b]) /\ s = RunOf(batches[c])
  OBVIOUS
<1>2. AskedBy(l, r) /\ AskedBy(m, s)
  BY DEF ListsInv
<1>3. /\ Delegate(l[j]).nonce = <<r, JobOf(r).order[j]>>
      /\ Delegate(l[j]).nonce = <<s, JobOf(s).order[k]>>
  BY <1>1, <1>2
<1>4. r = s /\ JobOf(r).order[j] = JobOf(r).order[k]
  BY <1>3
<1>5. b = c
  BY <1>4 DEF OnceInv
<1>6. j = k
  BY <1>1, <1>2, <1>4, <1>5, JobFacts DEF IsPermutation
<1>7. QED
  BY <1>5, <1>6

-----------------------------------------------------------------------------
\* What the composition inherits

LEMMA RunStart ==
    ASSUME RunInit
    PROVE  RunTypeInv /\ OwnInv /\ ListsInv /\ OnceInv /\ Init /\ DeployInit
<1>1. Init /\ DeployInit
  BY DEF RunInit
<1>2. /\ step = "idle" /\ job = None /\ ids = <<>> /\ done = <<>> /\ sent = {}
      /\ relayers = {} /\ batches = <<>> /\ Len(done) = 0 /\ Len(batches) = 0
      /\ next_nonce \in [Senders -> Nat] /\ key_nonce \in [Senders -> Nat]
  BY <1>1 DEF RunInit, Init
<1>3. Runs = {} /\ Resuming = {} /\ 1..Len(batches) = {}
  BY <1>2 DEF Runs, Resuming
<1>4. RunTypeInv
  BY <1>2, RunAssumption DEF RunTypeInv, RunAssumption
<1>5. QED
  BY <1>1, <1>3, <1>4 DEF OwnInv, ListsInv, OnceInv

\* The runner's own state, and the transactions it has broadcast.
THEOREM RunTypes == RunSpec => []RunTypeInv
BY RunStart, RunTypeStep, PTL DEF RunSpec

(***************************************************************************)
(* Whatever the runner does, the gate sees a behaviour of the gate: every  *)
(* transaction, receipt and disturbance of a run is one of Gate's steps,   *)
(* so what is proved of Gate for every reset holds in the composition.     *)
(***************************************************************************)
THEOREM RunIsGate == RunSpec => Spec
<1>1. RunInit => Init
  BY RunStart
<1>2. RunTypeInv /\ [RunNext]_allVars => [Next]_vars
  BY RunStepAtGate
<1>3. QED
  BY <1>1, <1>2, RunTypes, PTL DEF RunSpec, Spec

LEMMA RunStepDeploys == [RunNext]_allVars => [DeployNext]_deployVars
<1> SUFFICES ASSUME [RunNext]_allVars PROVE [DeployNext]_deployVars
  OBVIOUS
<1>1. CASE Deployment
  BY <1>1 DEF Deployment, DeployStep, DeployDisturbed, DeployChanges, DeployNext
<1>2. CASE \/ RunnerStep \/ RunInterrupted \/ TransactionStep \/ TransactionLost
           \/ ChainStep \/ UNCHANGED allVars
  BY <1>2 DEF RunnerStep, RunInterrupted, TransactionStep, TransactionLost, ChainStep,
              allVars
<1>3. QED
  BY <1>1, <1>2 DEF RunNext

\* Deploy says "ready" only over complete contracts, in the composition too.
THEOREM RunDeploys == RunSpec => []DeployComplete
<1>1. RunInit => DeployInit
  BY RunStart
<1>2. QED
  BY <1>1, RunStepDeploys, DeployReady, PTL DEF RunSpec

(***************************************************************************)
(* What a run has learnt is its own, what is resumed is what one run asked *)
(* for, and it is asked for once, whatever is lost, late or interrupted.   *)
(***************************************************************************)
THEOREM RunLists == RunSpec => [](OwnInv /\ ListsInv /\ OnceInv)
<1>1. /\ RunTypeInv /\ TypeInv /\ LifeInv /\ (OwnInv /\ ListsInv /\ OnceInv)
      /\ [RunNext]_allVars
      => (OwnInv /\ ListsInv /\ OnceInv)'
  BY OwnStep, ListsStep, OnceStep
<1>2. RunInit => OwnInv /\ ListsInv /\ OnceInv
  BY RunStart
<1>3. QED
  BY <1>1, <1>2, RunTypes, RunIsGate, TypeInvariant, LifeInvariant, PTL DEF RunSpec

(***************************************************************************)
(* Coordinator ordering in the composition, where the owner may reset the  *)
(* tail at any time: the runner never lists an intent twice.               *)
(***************************************************************************)
THEOREM RunKeepsOrder == RunSpec => []CoordinatorOrder
<1>1. RunTypeInv /\ TypeInv /\ (OwnInv /\ ListsInv /\ OnceInv) => ListedOnce
  BY OnceListed
<1>2. QED
  BY <1>1, RunTypes, RunLists, RunIsGate, TypeInvariant, OrderOnceListed, PTL

-----------------------------------------------------------------------------
\* Turns, and the order in which targets run

\* Who is resumed has a turn in a batch, or a transaction of the runner resumes it alone.
LEMMA TurnsMove ==
    ASSUME RunTypeInv, TypeInv, LifeInv, StuckInv, [RunNext]_allVars
    PROVE  /\ \A i \in Ids : slot[i].batch > 0 => slot'[i].batch > 0
           /\ \A m \in resumes' :
                 \/ m \in resumes \/ slot'[m.id].batch > 0
                 \/ \E tx \in Resuming : tx.call # "sequence" /\ tx.list[1] = m.id
           /\ \A c \in calls' : c \in calls \/ \E m \in resumes : m.id = c.id
<1> DEFINE Turns ==
             /\ \A i \in Ids : slot[i].batch > 0 => slot'[i].batch > 0
             /\ \A m \in resumes' :
                   \/ m \in resumes \/ slot'[m.id].batch > 0
                   \/ \E tx \in Resuming : tx.call # "sequence" /\ tx.list[1] = m.id
             /\ \A c \in calls' : c \in calls \/ \E m \in resumes : m.id = c.id
<1>a. slot = [i \in Ids |-> slot[i]] /\ active_batch_id \in Nat
  BY IdFacts DEF TypeInv, GateTypeOK
<1> SUFFICES Turns
  OBVIOUS
<1> HIDE DEF Turns
<1>1. ASSUME slot' = slot, resumes' \subseteq resumes, calls' \subseteq calls
      PROVE  Turns
  BY <1>1 DEF Turns
<1>0. CASE UNCHANGED allVars
  BY <1>0, <1>1 DEF allVars, vars, gateVars, receiptVars, traceVars
<1>2. CASE Deployment \/ RunnerStep \/ RunInterrupted \/ TransactionLost
  BY <1>1, <1>2 DEF Deployment, RunnerStep, RunInterrupted, TransactionLost, vars,
                    gateVars, receiptVars, traceVars
<1>3. CASE TransactionStep
  <2>1. PICK tx \in sent :
           SubmitIncluded(tx) \/ ResumeIncluded(tx) \/ Refused(tx) \/ NonceTaken(tx)
    BY <1>3 DEF TransactionStep
  <2>2. CASE SubmitIncluded(tx) \/ Refused(tx) \/ NonceTaken(tx)
    BY <1>1, <2>2 DEF SubmitIncluded, SubmitIntent, Refused, NonceTaken, vars, gateVars,
                      receiptVars, traceVars
  <2>3. CASE tx.call = "sequence" /\ ResumeBatchChained("approver", tx.list, tx.attached)
    <3>1. /\ slot' = [slot EXCEPT ![tx.list[1]] =
                         [batch |-> active_batch_id + 1, seq |-> 0]]
          /\ resumes' = resumes \cup {[id |-> tx.list[1], approve |-> TRUE, seq |-> 0,
                                       next |-> FirstOf(Tail(tx.list)), at |-> height]}
          /\ calls' = calls
      BY <2>3 DEF ResumeBatchChained, ResumeYield
    <3>2. tx.list[1] \in Ids
      <4>1. tx.list \in Seq(Ids) /\ tx.list # <<>>
        BY <2>1, <2>3 DEF RunTypeInv, Tx, ResumeBatchChained
      <4>2. QED
        BY <4>1
    <3>3. QED
      BY <1>a, <3>1, <3>2 DEF Turns
  <2>4. ASSUME tx.call # "submit", tx.call # "sequence", NEW approve,
               ResumeIntent("approver", tx.list[1], approve, tx.attached)
        PROVE  Turns
    <3>1. /\ slot' = slot /\ calls' = calls
          /\ resumes' = resumes \cup {[id |-> tx.list[1], approve |-> approve, seq |-> None,
                                       next |-> None, at |-> height]}
      BY <2>4 DEF ResumeIntent, ResumeYield, traceVars
    <3>2. tx \in Resuming
      BY <2>1, <2>4 DEF Resuming
    <3>3. QED
      BY <2>4, <3>1, <3>2 DEF Turns
  <2>5. CASE ResumeIncluded(tx)
    <3>1. CASE tx.call = "claim" /\ ResumeIntent("approver", tx.list[1], TRUE, tx.attached)
      BY <2>4, <3>1
    <3>2. CASE tx.call = "reject" /\ ResumeIntent("approver", tx.list[1], FALSE, tx.attached)
      BY <2>4, <3>2
    <3>3. QED
      BY <2>3, <2>5, <3>1, <3>2 DEF ResumeIncluded
  <2>6. QED
    BY <2>1, <2>2, <2>5
<1>4. CASE GateStep
  <2>1. ASSUME NEW m \in resumes, DeliverApprove(m) PROVE Turns
    <3>1. /\ slot' = slot /\ resumes' \subseteq resumes
          /\ calls' = calls \cup {[id |-> m.id, next |-> m.next, seq |-> NextSeq(m.seq),
                                   at |-> height]}
      BY <2>1 DEF DeliverApprove, Delivered, traceVars
    <3>2. QED
      BY <3>1 DEF Turns
  <2>2. ASSUME NEW m \in resumes, DeliverReject(m) \/ DropStale(m) PROVE Turns
    BY <1>1, <2>2 DEF DeliverReject, DropStale, Delivered, traceVars
  <2>3. ASSUME NEW t \in thens, ContinueChain(t) PROVE Turns
    <3>1. /\ slot' = [slot EXCEPT ![t.next] = [batch |-> active_batch_id, seq |-> t.seq]]
          /\ resumes' = resumes \cup {[id |-> t.next, approve |-> TRUE, seq |-> t.seq,
                                       next |-> FirstOf(Tail(batch_chain_tail)),
                                       at |-> height]}
          /\ calls' = calls /\ FirstOf(batch_chain_tail) = t.next
      BY <2>3 DEF ContinueChain, ResumeYield, Continuable
    <3>2. t.next \in Ids /\ t.next # None
      BY IdFacts, GateAssumption DEF TypeInv, GateAssumption
    <3>3. active_batch_id > 0
      BY <3>1, <3>2 DEF FirstOf, StuckInv, TailInv
    <3>4. QED
      BY <1>a, <3>1, <3>2, <3>3 DEF Turns
  <2>4. ASSUME NEW t \in thens, ContinueChainPanics(t) PROVE Turns
    BY <1>1, <2>4 DEF ContinueChainPanics, traceVars
  <2>5. QED
    <3>1. CASE \E m \in resumes : DeliverApprove(m) \/ DeliverReject(m) \/ DropStale(m)
      BY <2>1, <2>2, <3>1
    <3>2. CASE \E t \in thens : ContinueChain(t) \/ ContinueChainPanics(t)
      BY <2>3, <2>4, <3>2
    <3>3. QED
      BY <1>4, <3>1, <3>2 DEF GateStep
<1>5. CASE TargetStep
  BY <1>1, <1>5 DEF TargetStep, CallSucceeds, CallFails, TargetExecutes
<1>6. CASE GateDisturbed \/ StrayCall
  BY <1>1, <1>6 DEF GateDisturbed, StrayCall, TimeoutFires, ResetBatchTail, RemoveRelayer,
                    vars, gateVars, receiptVars, traceVars
<1>7. QED
  BY <1>0, <1>2, <1>3, <1>4, <1>5, <1>6 DEF RunNext, ChainStep

\* A lone intent stays one.
LEMMA SingleStays ==
    ASSUME RunTypeInv, [RunNext]_allVars, NEW i \in Ids, NEW r \in Runs, SingleOf(i, r)
    PROVE  r \in Runs' /\ SingleOf(i, r)'
<1>1. r \in Runs' /\ JobOf(r)' = JobOf(r)
  BY RunMoves
<1>2. PICK k \in 1..Len(IdsOf(r)) : IdsOf(r)[k] = i
  BY DEF SingleOf
<1>3. IdsOf(r) \in Seq(Ids)
  BY RunFacts DEF Learnt
<1>4. k \in 1..Len(IdsOf(r)') /\ IdsOf(r)'[k] = i
  <2>1. CASE IdsOf(r)' = IdsOf(r)
    BY <1>2, <2>1
  <2>2. ASSUME NEW j \in Ids, IdsOf(r)' = Append(IdsOf(r), j)
        PROVE  k \in 1..Len(IdsOf(r)') /\ IdsOf(r)'[k] = i
    BY <1>2, <1>3, <2>2
  <2>3. QED
    BY <2>1, <2>2, RunMoves
<1>5. QED
  BY <1>1, <1>4 DEF SingleOf

\* The one intent of a claim or a rejection.
LEMMA ResumedAlone ==
    ASSUME RunTypeInv, OwnInv, ListsInv, NEW tx \in Resuming, tx.call # "sequence"
    PROVE  \E r \in Runs : SingleOf(tx.list[1], r)
<1>1. PICK r : r = RunOf(tx.list)
  OBVIOUS
<1>2. AskedBy(tx.list, r) /\ tx.call = JobOf(r).kind
  BY <1>1 DEF ListsInv
<1>3. /\ r \in Runs /\ Len(tx.list) > 0 /\ Len(tx.list) \in Nat
      /\ Len(IdsOf(r)) = Len(tx.list)
      /\ \A k \in 1..Len(tx.list) :
            JobOf(r).order[k] \in 1..Len(tx.list) /\ tx.list[k] = IdsOf(r)[JobOf(r).order[k]]
  BY <1>2, AskedFacts
<1>4. JobOf(r).order[1] \in 1..Len(IdsOf(r)) /\ tx.list[1] = IdsOf(r)[JobOf(r).order[1]]
  BY <1>3
<1>5. QED
  BY <1>2, <1>3, <1>4 DEF SingleOf

LEMMA TurnStep ==
    ASSUME RunTypeInv, TypeInv, LifeInv, StuckInv, OwnInv, ListsInv, TurnInv,
           [RunNext]_allVars
    PROVE  TurnInv'
<1> SUFFICES ASSUME NEW i \in Ids, Approached(i)'
             PROVE  slot'[i].batch > 0 \/ \E r \in Runs' : SingleOf(i, r)'
  BY DEF TurnInv
<1>1. [Next]_vars
  BY RunStepAtGate
<1>2. ASSUME NEW r \in Runs, SingleOf(i, r)
      PROVE  r \in Runs' /\ SingleOf(i, r)'
  BY <1>2, SingleStays
<1>3. CASE Approached(i)
  BY <1>2, <1>3, TurnsMove DEF TurnInv
<1>4. ASSUME NEW tx \in Resuming, tx.call # "sequence", tx.list[1] = i
      PROVE  \E r \in Runs : SingleOf(i, r)
  BY <1>4, ResumedAlone
<1>5. CASE \E m \in resumes' : m.id = i
  <2>1. PICK m \in resumes' : m.id = i
    BY <1>5
  <2>2. CASE m \in resumes
    BY <1>3, <2>1, <2>2 DEF Approached
  <2>3. QED
    BY <1>2, <1>4, <2>1, <2>2, TurnsMove
<1>6. CASE Called(i)'
  <2>1. PICK c \in calls' : c.id = i
    BY <1>6 DEF Called
  <2>2. c \in calls \/ \E m \in resumes : m.id = c.id
    BY TurnsMove
  <2>3. Approached(i)
    BY <2>1, <2>2 DEF Approached, Called
  <2>4. QED
    BY <1>3, <2>3
<1>7. CASE ran_at'[i] # None
  <2>1. ran_at[i] # None \/ Called(i)
    BY <1>1, <1>7, IdMoves
  <2>2. QED
    BY <1>3, <2>1 DEF Approached
<1>8. QED
  BY <1>5, <1>6, <1>7 DEF Approached

\* Targets run one by one, and the history records each.
LEMMA RanMoves ==
    ASSUME [RunNext]_allVars
    PROVE  \/ UNCHANGED <<ran, ran_at>>
           \/ \E c \in calls : /\ ran' = Append(ran, c.id) /\ UNCHANGED <<slot, batches>>
                               /\ ran_at' = [ran_at EXCEPT ![c.id] = height]
<1> USE DEF logVars, traceVars
<1>0. CASE UNCHANGED allVars
  BY <1>0 DEF allVars, targetVars, vars, gateVars
<1>1. CASE Deployment \/ RunnerStep \/ RunInterrupted \/ TransactionLost
  BY <1>1 DEF Deployment, RunnerStep, RunInterrupted, TransactionLost, targetVars, vars,
              gateVars
<1>2. CASE TransactionStep
  <2>1. PICK tx \in sent :
           SubmitIncluded(tx) \/ ResumeIncluded(tx) \/ Refused(tx) \/ NonceTaken(tx)
    BY <1>2 DEF TransactionStep
  <2>2. UNCHANGED ran
    BY <1>2 DEF TransactionStep, targetVars
  <2>3. UNCHANGED ran_at
    BY <2>1 DEF SubmitIncluded, SubmitIntent, ResumeIncluded, ResumeBatchChained,
                ResumeIntent, Refused, NonceTaken, vars, gateVars
  <2>4. QED
    BY <2>2, <2>3
<1>3. CASE GateStep
  BY <1>3 DEF GateStep, DeliverApprove, DeliverReject, DropStale, ContinueChain,
              ContinueChainPanics, targetVars
<1>4. CASE TargetStep
  BY <1>4 DEF TargetStep, CallSucceeds, CallFails, TargetExecutes, batchVars
<1>5. CASE GateDisturbed \/ StrayCall
  BY <1>5 DEF GateDisturbed, StrayCall, TimeoutFires, ResetBatchTail, RemoveRelayer,
              targetVars, vars, gateVars
<1>6. QED
  BY <1>0, <1>1, <1>2, <1>3, <1>4, <1>5 DEF RunNext, ChainStep

LEMMA RanStep ==
    ASSUME RunTypeInv, TypeInv, LifeInv, CoordinatorOrder, RanInv, [RunNext]_allVars
    PROVE  RanInv'
<1>a. [Next]_vars
  BY RunStepAtGate
<1>b. /\ ran_at = [i \in Ids |-> ran_at[i]] /\ height # None /\ height \in Nat
      /\ \A c \in calls : c.id \in Ids
      /\ slot = [i \in Ids |-> slot[i]]
      /\ \A i \in Ids : slot[i].batch \in Nat /\ slot[i].seq \in Nat
  BY IdFacts, GateAssumption DEF TypeInv, GateTypeOK, GateAssumption
<1>c. ran \in Seq(Ids) /\ Len(ran) \in Nat
  BY DEF RanInv
\* A member that ran keeps its place, and the list it stands in is what it was.
<1>1. ASSUME NEW i \in Ids, ran_at[i] # None, Follows(i)'
      PROVE  Follows(i) /\ Pred(i)' = Pred(i)
  <2>1. slot'[i] = slot[i]
    <3>1. i \notin pending
      BY <1>1 DEF LifeInv
    <3>2. QED
      BY <1>a, <3>1, IdMoves
  <2>2. Follows(i)
    BY <1>1, <2>1 DEF Follows
  <2>3. slot[i].batch \in 1..Len(batches)
    BY <1>b, <2>2, BatchesType DEF Follows, CoordinatorOrder
  <2>4. batches'[slot[i].batch] = batches[slot[i].batch]
    <3>1. CASE batches' = batches
      BY <3>1
    <3>2. ASSUME NEW list, batches' = Append(batches, list)
          PROVE  batches'[slot[i].batch] = batches[slot[i].batch]
      BY <2>3, <3>2, BatchesType
    <3>3. QED
      BY <3>1, <3>2, ListsMove
  <2>5. QED
    BY <2>1, <2>2, <2>4 DEF Pred
<1>2. CASE UNCHANGED <<ran, ran_at>>
  <2>1. \A p \in 1..Len(ran) : ran[p] \in Ids /\ ran_at[ran[p]] # None
    BY <1>c DEF RanInv
  <2>2. ASSUME NEW p \in 1..Len(ran'), Follows(ran[p])'
        PROVE  \E q \in 1..(p - 1) : ran'[q] = Pred(ran[p])'
    <3>1. PICK i \in Ids : i = ran[p] /\ ran_at[i] # None /\ ran'[p] = i
      BY <1>2, <2>1
    <3>2. Follows(i)' /\ (Pred(i)' = Pred(ran[p])')
      BY <2>2, <3>1 DEF Follows, Pred
    <3>3. Follows(i) /\ Pred(i)' = Pred(i)
      BY <1>1, <3>1, <3>2
    <3>4. QED
      BY <1>2, <3>1, <3>2, <3>3 DEF RanInv
  <2>3. QED
    BY <1>2, <2>2 DEF RanInv
<1>3. ASSUME NEW c \in calls, ran' = Append(ran, c.id), UNCHANGED <<slot, batches>>,
             ran_at' = [ran_at EXCEPT ![c.id] = height]
      PROVE  RanInv'
  <2>1. /\ ran' \in Seq(Ids) /\ Len(ran') = Len(ran) + 1
        /\ ran'[Len(ran) + 1] = c.id
        /\ \A p \in 1..Len(ran) : ran'[p] = ran[p]
    BY <1>b, <1>c, <1>3
  <2>2. \A i \in Ids : ran_at'[i] # None <=> ran_at[i] # None \/ i = c.id
    BY <1>b, <1>3
  <2>3. \A i \in Ids : ran_at'[i] # None <=> \E q \in 1..Len(ran') : ran'[q] = i
    BY <1>c, <2>1, <2>2 DEF RanInv
  <2>4. \A i : (Follows(i)' <=> Follows(i)) /\ Pred(i)' = Pred(i)
    BY <1>3 DEF Follows, Pred
  <2>5. ASSUME NEW i \in Ids, i = c.id, Follows(i)
        PROVE  \E q \in 1..Len(ran) : ran[q] = Pred(i)
    <3>1. /\ slot[i].batch \in 1..Len(batches) /\ slot[i].seq \in 1..Len(batches[slot[i].batch])
          /\ ran_at[Pred(i)] # None
      <4>1. PICK b, k : b = slot[i].batch /\ k = slot[i].seq
        OBVIOUS
      <4>2. b \in Nat /\ k \in Nat /\ b > 0 /\ k > 0
        BY <1>b, <2>5, <4>1 DEF Follows
      <4>3. b <= Len(batches) /\ k < Len(batches[b]) /\ ran_at[batches[b][k]] # None
        BY <4>1, <4>2 DEF CoordinatorOrder
      <4>4. b \in 1..Len(batches)
        BY <4>2, <4>3, BatchesType
      <4>5. batches[b] \in Seq(Ids)
        BY <4>4, BatchesType
      <4>6. QED
        BY <4>1, <4>2, <4>3, <4>4, <4>5 DEF Pred
    <3>2. Pred(i) \in Ids
      <4>1. batches[slot[i].batch] \in Seq(Ids)
        BY <3>1, BatchesType
      <4>2. QED
        BY <3>1, <4>1 DEF Pred
    <3>3. QED
      BY <3>1, <3>2 DEF RanInv
  <2>6. ASSUME NEW p \in 1..Len(ran'), NEW i, i = ran'[p], Follows(i)
        PROVE  \E q \in 1..(p - 1) : ran'[q] = Pred(i)
    <3>1. CASE p = Len(ran) + 1
      BY <1>b, <1>c, <2>1, <2>5, <2>6, <3>1
    <3>2. CASE p \in 1..Len(ran)
      <4>1. PICK q \in 1..(p - 1) : ran[q] = Pred(i)
        BY <2>1, <2>6, <3>2 DEF RanInv
      <4>2. q \in 1..Len(ran)
        BY <1>c, <3>2
      <4>3. QED
        BY <2>1, <4>1, <4>2
    <3>3. QED
      BY <1>c, <2>1, <3>1, <3>2
  <2>7. \A p \in 1..Len(ran') : \A i : i = ran'[p] =>
           (Follows(i)' => \E q \in 1..(p - 1) : ran'[q] = Pred(i)')
    BY <2>4, <2>6
  <2>8. QED
    BY <2>1, <2>3, <2>7 DEF RanInv, Follows, Pred
<1>4. QED
  BY <1>2, <1>3, RanMoves

\* What a run has asked for so far is what it asked for in the end.
LEMMA AskedIsOfRun ==
    ASSUME RunTypeInv, NEW b \in BatchesAsked
    PROVE  \E r \in Runs : b = Asked(IdsOf(r), JobOf(r))
<1>1. CASE \E r \in DOMAIN done : b = Asked(done[r].ids, done[r].job)
  <2>1. PICK r \in 1..Len(done) : b = Asked(done[r].ids, done[r].job)
    BY <1>1 DEF RunTypeInv
  <2>2. r \in Runs /\ IdsOf(r) = done[r].ids /\ JobOf(r) = done[r].job
    BY RunsAreNat DEF Runs, Run, IdsOf, JobOf
  <2>3. QED
    BY <2>1, <2>2
<1>2. CASE job # None /\ b = Asked(ids, job)
  <2>1. Run \in Runs /\ IdsOf(Run) = ids /\ JobOf(Run) = job
    BY <1>2, RunsAreNat DEF RunTypeInv, Runs, Run, IdsOf, JobOf
  <2>2. QED
    BY <1>2, <2>1
<1>3. QED
  BY <1>1, <1>2 DEF BatchesAsked

\* Only sequence asks for more than one intent.
LEMMA ManyAreSequence ==
    ASSUME NEW j \in Jobs, Len(j.order) > 1
    PROVE  j.kind = "sequence"
<1>1. \A n \in Nat : n > 1 => n # 1
  OBVIOUS
<1>2. Len(j.order) \in Nat
  BY JobFacts
<1>3. Len(j.order) # 1
  BY <1>1, <1>2, Zenon
<1>4. QED
  BY <1>3, JobFacts, Zenon

\* An intent of a sequence, once approached, has its turn at its place in its run's batch.
LEMMA InPlace ==
    ASSUME RunTypeInv, TypeInv, OwnInv, ListsInv, TurnInv, CoordinatorOrder,
           NEW r, NEW list, AskedBy(list, r), JobOf(r).kind = "sequence",
           NEW k \in 1..Len(list), NEW i \in Ids, i = list[k], Approached(i)
    PROVE  /\ slot[i].batch \in 1..Len(batches) /\ slot[i].seq = k - 1
           /\ batches[slot[i].batch] = list
<1> PICK bn, place : bn = slot[i].batch /\ place = slot[i].seq
  OBVIOUS
<1>1. /\ r \in Runs /\ JobOf(r) \in Jobs /\ Len(list) \in Nat
      /\ Len(list) = Len(JobOf(r).order)
  BY AskedFacts, RunFacts
<1>2. Delegate(i).nonce = <<r, JobOf(r).order[k]>>
  BY AskedNonce
<1>4. bn > 0
  <2>2. ASSUME NEW s \in Runs, SingleOf(i, s) PROVE FALSE
    <3>1. PICK m \in 1..Len(IdsOf(s)) : IdsOf(s)[m] = i
      BY <2>2 DEF SingleOf
    <3>2. Delegate(IdsOf(s)[m]) = JobDelegate(s, JobOf(s), m)
      BY DEF OwnInv
    <3>3. JobDelegate(s, JobOf(s), m).nonce = <<s, m>>
      BY DEF JobDelegate
    <3>4. Delegate(i).nonce = <<s, m>>
      BY <3>1, <3>2, <3>3
    <3>5. s = r
      BY <1>2, <3>4
    <3>6. QED
      BY <2>2, <3>5 DEF SingleOf
  <2>3. QED
    BY <2>2 DEF TurnInv
<1>5. bn \in Nat /\ place \in Nat
  BY DEF TypeInv, GateTypeOK
<1>6. bn <= Len(batches) /\ place < Len(batches[bn]) /\ batches[bn][place + 1] = i
  BY <1>4 DEF CoordinatorOrder
<1>7. bn \in 1..Len(batches)
  BY <1>4, <1>5, <1>6, BatchesType
<1>8. PICK other, s : other = batches[bn] /\ s = RunOf(other)
  OBVIOUS
<1>9. AskedBy(other, s)
  BY <1>7, <1>8 DEF ListsInv
<1>10. Len(other) \in Nat /\ place + 1 \in 1..Len(other) /\ other[place + 1] = i
  BY <1>5, <1>6, <1>8, <1>9, AskedFacts
<1>11. Delegate(i).nonce = <<s, JobOf(s).order[place + 1]>>
  BY <1>9, <1>10, AskedNonce
<1>12. s = r /\ JobOf(r).order[place + 1] = JobOf(r).order[k]
  BY <1>2, <1>11
<1>13. other = list
  BY <1>9, <1>12 DEF AskedBy
<1>14. place + 1 = k
  BY <1>1, <1>10, <1>12, <1>13, JobFacts DEF IsPermutation
<1>15. QED
  BY <1>5, <1>7, <1>8, <1>13, <1>14

LEMMA OrderHolds ==
    ASSUME RunTypeInv, TypeInv, OwnInv, ListsInv, TurnInv, CoordinatorOrder, RanInv
    PROVE  OrderAsAsked
<1> SUFFICES ASSUME NEW b \in BatchesAsked, NEW k \in 2..Len(b), NEW p \in 1..Len(ran),
                    ran[p] = b[k]
             PROVE  \E q \in 1..(p - 1) : ran[q] = b[k - 1]
  BY DEF OrderAsAsked
<1>1. PICK r \in Runs : b = Asked(IdsOf(r), JobOf(r))
  BY AskedIsOfRun
<1>2. b # <<>>
  OBVIOUS
<1>3. AskedBy(b, r)
  BY <1>1, <1>2 DEF AskedBy
<1>4. b \in Seq(Ids) /\ Len(b) \in Nat
  BY <1>3, AskedFacts
<1>5. k \in Nat /\ k > 1 /\ k \in 1..Len(b) /\ Len(b) > 1 /\ k - 1 \in 1..Len(b)
  BY <1>4
<1>6. PICK i \in Ids : i = b[k]
  BY <1>4, <1>5
<1>7. ran_at[i] # None
  BY <1>6 DEF RanInv
<1>8. /\ slot[i].batch \in 1..Len(batches) /\ slot[i].seq = k - 1
      /\ batches[slot[i].batch] = b
  <2>1. JobOf(r).kind = "sequence"
    BY <1>3, <1>5, ManyAreSequence, AskedFacts, RunFacts
  <2>2. Approached(i)
    BY <1>7 DEF Approached
  <2>3. QED
    BY <1>3, <1>5, <1>6, <2>1, <2>2, InPlace
<1>9. Follows(i) /\ Pred(i) = b[k - 1]
  BY <1>5, <1>8 DEF Follows, Pred
<1>10. QED
  BY <1>6, <1>9 DEF RanInv

\* Whoever was approached had a turn or was resumed alone, and what ran stands in the
\* history behind its predecessor.
THEOREM RunTurns == RunSpec => [](TurnInv /\ RanInv)
<1>1. RunInit => TurnInv /\ RanInv
  BY DEF RunInit, Init, TurnInv, RanInv, Approached, Called, Follows
<1>2. /\ RunTypeInv /\ TypeInv /\ LifeInv /\ StuckInv /\ CoordinatorOrder
      /\ (OwnInv /\ ListsInv /\ OnceInv) /\ (TurnInv /\ RanInv) /\ [RunNext]_allVars
      => (TurnInv /\ RanInv)'
  BY TurnStep, RanStep
<1>3. QED
  BY <1>1, <1>2, RunTypes, RunLists, RunIsGate, RunKeepsOrder, TypeInvariant,
     LifeInvariant, StuckInvariant, PTL DEF RunSpec

(***************************************************************************)
(* End to end, intents run in the order the runner was asked for, for any  *)
(* number of runs, jobs and disturbances, and whatever the owner resets.   *)
(***************************************************************************)
THEOREM RunsInOrder == RunSpec => []OrderAsAsked
<1>1. /\ RunTypeInv /\ TypeInv /\ (OwnInv /\ ListsInv /\ OnceInv) /\ (TurnInv /\ RanInv)
      /\ CoordinatorOrder
      => OrderAsAsked
  BY OrderHolds
<1>2. QED
  BY <1>1, RunTypes, RunLists, RunTurns, RunKeepsOrder, RunIsGate, TypeInvariant, PTL

-----------------------------------------------------------------------------
\* What the targets' logs show

\* Nothing calls a target before the first run.
LEMMA CallsOfRuns ==
    ASSUME RunTypeInv, TypeInv, OwnInv, ListsInv, TurnInv, CoordinatorOrder, NEW c \in calls
    PROVE  \E r \in Runs : TRUE
<1>1. PICK i \in Ids : i = c.id
  BY IdFacts DEF TypeInv
<1>2. Approached(i)
  BY <1>1 DEF Approached, Called
<1>3. CASE slot[i].batch > 0
  <2>1. slot[i].batch \in 1..Len(batches)
    <3>1. slot[i].batch \in Nat /\ slot[i].batch <= Len(batches)
      BY <1>3 DEF TypeInv, GateTypeOK, CoordinatorOrder
    <3>2. QED
      BY <1>3, <3>1, BatchesType
  <2>2. QED
    BY <2>1 DEF ListsInv, AskedBy
<1>4. QED
  BY <1>2, <1>3 DEF TurnInv

LEMMA BegunHasRun == ASSUME RunTypeInv, Begun PROVE \E r \in Runs : TRUE
<1>1. Len(done) \in Nat /\ (done # <<>> => Len(done) > 0)
  BY DEF RunTypeInv
<1>2. 1 \in Runs
  BY <1>1 DEF Begun, Runs, Run
<1>3. QED
  BY <1>2

\* What a log can gain, and how: an entry of an intent's call, or of someone else's.
Gains(t, i, v) ==
    /\ i \in Ids \cup {None} /\ v \in Amounts /\ Shows(i, v) /\ \E r \in Runs : TRUE
    /\ entries' = [entries EXCEPT ![t] = Append(entries[t], i)]

RegisterGains(i, v) ==
    /\ Gains("register", i, v)
    /\ log' = Append(log, v) /\ set_count' = set_count + 1 /\ UNCHANGED transfer_log

ShimGains(i, v) ==
    /\ Gains("ftShim", i, v)
    /\ \E a, b \in {"alice", "gate"} : transfer_log' = Append(transfer_log, <<a, b, v>>)
    /\ UNCHANGED <<log, set_count>>

RegisterCleared ==
    /\ \E r \in Runs : TRUE
    /\ entries' = [entries EXCEPT !["register"] = <<>>]
    /\ log' = <<>> /\ set_count' = 0 /\ UNCHANGED transfer_log

LogsMove ==
    \/ UNCHANGED <<entries, log, set_count, transfer_log>>
    \/ UNCHANGED <<entries, log, set_count>> /\ ~Begun /\ transfer_log' = <<>>
    \/ \E i, v : RegisterGains(i, v) \/ ShimGains(i, v)
    \/ RegisterCleared

LEMMA LogMoves ==
    ASSUME RunTypeInv, TypeInv, OwnInv, ListsInv, TurnInv, CoordinatorOrder,
           [RunNext]_allVars
    PROVE  LogsMove
<1> USE DEF logVars, registerVars, ftVars
<1>0. CASE UNCHANGED allVars
  BY <1>0 DEF LogsMove, allVars, targetVars
<1>1. CASE Deployment
  BY <1>1 DEF LogsMove, Deployment, DeployStep, DeployDisturbed, DeployChanges, FtNew,
              FtDestroyed
<1>2. CASE RunnerStep \/ RunInterrupted \/ TransactionStep \/ TransactionLost
  BY <1>2 DEF LogsMove, RunnerStep, RunInterrupted, TransactionStep, TransactionLost,
              targetVars
<1>3. CASE GateStep \/ GateDisturbed
  BY <1>3 DEF LogsMove, GateStep, GateDisturbed, targetVars
<1>4. ASSUME NEW c \in calls, CallSucceeds(c) PROVE LogsMove
  <2>1. PICK i, v : i = c.id /\ v = Delegate(i).value
    OBVIOUS
  <2>2. i \in Ids /\ intents[i] \in Held
    BY <2>1, IdFacts DEF TypeInv, Known
  <2>3. v \in Amounts /\ Shows(i, v)
    BY <2>1, <2>2, NoneIsNoIntent DEF Held, Delegate, Amounts, Shows
  <2>4. \E r \in Runs : TRUE
    BY CallsOfRuns
  <2>5. CASE Delegate(i).target = "register" /\ Set(v) /\ UNCHANGED ftVars
    <3>1. entries' = [entries EXCEPT !["register"] = Append(entries["register"], i)]
      BY <1>4, <2>1, <2>5 DEF CallSucceeds
    <3>2. RegisterGains(i, v)
      BY <2>2, <2>3, <2>4, <2>5, <3>1 DEF RegisterGains, Gains, Set
    <3>3. QED
      BY <3>2 DEF LogsMove
  <2>6. CASE /\ Delegate(i).target = "ftShim"
             /\ Transfer("gate", "alice", v) /\ UNCHANGED registerVars
    <3>1. entries' = [entries EXCEPT !["ftShim"] = Append(entries["ftShim"], i)]
      BY <1>4, <2>1, <2>6 DEF CallSucceeds
    <3>2. transfer_log' = Append(transfer_log, <<"gate", "alice", v>>)
      BY <2>6 DEF Transfer
    <3>3. ShimGains(i, v)
      BY <2>2, <2>3, <2>4, <2>6, <3>1, <3>2 DEF ShimGains, Gains
    <3>4. QED
      BY <3>3 DEF LogsMove
  <2>7. QED
    BY <1>4, <2>1, <2>5, <2>6 DEF CallSucceeds
<1>5. ASSUME NEW c \in calls, CallFails(c) PROVE LogsMove
  BY <1>5 DEF LogsMove, CallFails
<1>6. CASE StrayCall
  <2>1. Shows(None, Value(1)) /\ Value(1) \in Amounts /\ \E r \in Runs : TRUE
    BY <1>6, BegunHasRun DEF Shows, Amounts, StrayCall
  <2>2. CASE /\ Set(Value(1)) /\ UNCHANGED ftVars
             /\ entries' = [entries EXCEPT !["register"] = Append(entries["register"], None)]
    <3>1. RegisterGains(None, Value(1))
      BY <2>1, <2>2 DEF RegisterGains, Gains, Set
    <3>2. QED
      BY <3>1 DEF LogsMove
  <2>3. CASE /\ Reset /\ UNCHANGED ftVars
             /\ entries' = [entries EXCEPT !["register"] = <<>>]
    BY <2>1, <2>3 DEF LogsMove, RegisterCleared, Reset
  <2>4. ASSUME NEW a \in {"alice", "gate"}, Transfer("alice", a, 1), UNCHANGED registerVars,
               entries' = [entries EXCEPT !["ftShim"] = Append(entries["ftShim"], None)]
        PROVE  LogsMove
    <3>1. transfer_log' = Append(transfer_log, <<"alice", a, Value(1)>>)
      BY <2>4 DEF Transfer, Value
    <3>2. ShimGains(None, Value(1))
      BY <2>1, <2>4, <3>1 DEF ShimGains, Gains
    <3>3. QED
      BY <3>2 DEF LogsMove
  <2>5. QED
    BY <1>6, <2>2, <2>3, <2>4 DEF StrayCall
<1>7. QED
  BY <1>0, <1>1, <1>2, <1>3, <1>4, <1>5, <1>6 DEF RunNext, ChainStep, TargetStep

LEMMA LogStep ==
    ASSUME RunTypeInv, TypeInv, LifeInv, OwnInv, ListsInv, TurnInv, CoordinatorOrder, LogInv,
           [RunNext]_allVars
    PROVE  LogInv'
<1>a. [Next]_vars
  BY RunStepAtGate
<1>b. \A i, v : i \in Ids \cup {None} /\ Shows(i, v) => Shows(i, v)'
  BY <1>a, IntentsStay DEF Shows
<1>c. (\E r \in Runs : TRUE) => Runs' # {}
  BY RunMoves
<1>d. /\ entries["register"] \in Seq(Ids \cup {None})
      /\ entries["ftShim"] \in Seq(Ids \cup {None})
      /\ log \in Seq(Amounts) /\ transfer_log \in Seq(Transfers)
      /\ Len(log) \in Nat /\ Len(transfer_log) \in Nat
      /\ Len(entries["register"]) = Len(log) /\ Len(entries["ftShim"]) = Len(transfer_log)
      /\ set_count = Len(log)
      /\ DOMAIN entries = {"register", "ftShim"}
  BY DEF LogInv
<1>e. /\ \A p \in 1..Len(log) : entries["register"][p] \in Ids \cup {None}
      /\ \A p \in 1..Len(transfer_log) : entries["ftShim"][p] \in Ids \cup {None}
  BY <1>d
<1>1. CASE UNCHANGED <<entries, log, set_count, transfer_log>>
  <2>1. Runs' = {} => Runs = {}
    BY <1>c
  <2>2. QED
    BY <1>1, <1>b, <1>e, <2>1 DEF LogInv
<1>2. CASE UNCHANGED <<entries, log, set_count>> /\ ~Begun /\ transfer_log' = <<>>
  <2>1. Runs = {}
    BY <1>2, RunsAreNat DEF Begun, Runs
  <2>2. Len(transfer_log) = 0
    BY <1>d, <2>1 DEF LogInv
  <2>3. transfer_log = <<>>
    BY <1>d, <2>2
  <2>4. QED
    BY <1>1, <1>2, <2>3
\* An entry that the log gains, and those it has.
<1>3. ASSUME NEW i, NEW v, RegisterGains(i, v)
      PROVE  LogInv'
  <2>1. /\ i \in Ids \cup {None} /\ v \in Amounts /\ Shows(i, v)' /\ Runs' # {}
        /\ log' = Append(log, v) /\ set_count' = Len(log) + 1
        /\ transfer_log' = transfer_log
        /\ entries'["register"] = Append(entries["register"], i)
        /\ entries'["ftShim"] = entries["ftShim"]
    BY <1>3, <1>b, <1>c, <1>d DEF RegisterGains, Gains
  <2>2. entries' \in [{"register", "ftShim"} -> Seq(Ids \cup {None})]
    BY <1>3, <1>d DEF RegisterGains, Gains, LogInv
  <2>3. /\ log' \in Seq(Amounts) /\ Len(log') = Len(log) + 1
        /\ Len(entries'["register"]) = Len(log) + 1
        /\ log'[Len(log) + 1] = v /\ entries'["register"][Len(log) + 1] = i
        /\ \A p \in 1..Len(log) :
              log'[p] = log[p] /\ entries'["register"][p] = entries["register"][p]
    BY <1>d, <2>1
  <2>4. \A p \in 1..Len(log') : \A j, w :
           j = entries'["register"][p] /\ w = log'[p] => Shows(j, w)'
    <3> TAKE p \in 1..Len(log')
    <3>1. CASE p = Len(log) + 1
      BY <2>1, <2>3, <3>1
    <3>2. CASE p \in 1..Len(log)
      BY <1>b, <1>e, <2>3, <3>2 DEF LogInv
    <3>3. QED
      BY <1>d, <2>3, <3>1, <3>2
  <2>5. \A p \in 1..Len(transfer_log') : \A j, w :
           j = entries'["ftShim"][p] /\ w = transfer_log'[p][3] => Shows(j, w)'
    BY <1>b, <1>e, <2>1 DEF LogInv
  <2>6. transfer_log' \in Seq(Transfers) /\ Len(entries'["ftShim"]) = Len(transfer_log')
    BY <1>d, <2>1
  <2>7. /\ (\A p \in 1..Len(log) : Shows(entries["register"][p], log[p]))'
        /\ (\A p \in 1..Len(transfer_log) :
               Shows(entries["ftShim"][p], transfer_log[p][3]))'
    BY <2>4, <2>5 DEF Shows, Delegate
  <2>8. QED
    BY <2>1, <2>2, <2>3, <2>6, <2>7 DEF LogInv
<1>4. ASSUME NEW i, NEW v, ShimGains(i, v)
      PROVE  LogInv'
  <2>1. PICK a, b \in {"alice", "gate"} : transfer_log' = Append(transfer_log, <<a, b, v>>)
    BY <1>4 DEF ShimGains
  <2>2. /\ i \in Ids \cup {None} /\ v \in Amounts /\ Shows(i, v)' /\ Runs' # {}
        /\ log' = log /\ set_count' = Len(log)
        /\ entries'["register"] = entries["register"]
        /\ entries'["ftShim"] = Append(entries["ftShim"], i)
    BY <1>4, <1>b, <1>c, <1>d DEF ShimGains, Gains
  <2>3. entries' \in [{"register", "ftShim"} -> Seq(Ids \cup {None})]
    BY <1>4, <1>d DEF ShimGains, Gains, LogInv
  <2>4. PICK move : move = <<a, b, v>>
    OBVIOUS
  <2>. move \in Transfers /\ move[3] = v
    BY <2>2, <2>4 DEF Transfers
  <2>5. /\ transfer_log' \in Seq(Transfers) /\ Len(transfer_log') = Len(transfer_log) + 1
        /\ Len(entries'["ftShim"]) = Len(transfer_log) + 1
        /\ transfer_log'[Len(transfer_log) + 1] = move
        /\ entries'["ftShim"][Len(transfer_log) + 1] = i
        /\ \A p \in 1..Len(transfer_log) :
              /\ transfer_log'[p] = transfer_log[p]
              /\ entries'["ftShim"][p] = entries["ftShim"][p]
    BY <1>d, <2>1, <2>2, <2>4
  <2>6. \A p \in 1..Len(transfer_log') : \A j, w :
           j = entries'["ftShim"][p] /\ w = transfer_log'[p][3] => Shows(j, w)'
    <3> TAKE p \in 1..Len(transfer_log')
    <3>1. CASE p = Len(transfer_log) + 1
      BY <2>2, <2>4, <2>5, <3>1
    <3>2. CASE p \in 1..Len(transfer_log)
      BY <1>b, <1>e, <2>5, <3>2 DEF LogInv
    <3>3. QED
      BY <1>d, <2>5, <3>1, <3>2
  <2>7. \A p \in 1..Len(log') : \A j, w :
           j = entries'["register"][p] /\ w = log'[p] => Shows(j, w)'
    BY <1>b, <1>e, <2>2 DEF LogInv
  <2>8. log' \in Seq(Amounts) /\ Len(entries'["register"]) = Len(log')
    BY <1>d, <2>2
  <2>9. /\ (\A p \in 1..Len(log) : Shows(entries["register"][p], log[p]))'
        /\ (\A p \in 1..Len(transfer_log) :
               Shows(entries["ftShim"][p], transfer_log[p][3]))'
    BY <2>6, <2>7 DEF Shows, Delegate
  <2>10. QED
    BY <2>2, <2>3, <2>5, <2>8, <2>9 DEF LogInv
<1>5. CASE RegisterCleared
  <2>1. /\ Runs' # {} /\ log' = <<>> /\ set_count' = 0 /\ transfer_log' = transfer_log
        /\ entries'["register"] = <<>> /\ entries'["ftShim"] = entries["ftShim"]
        /\ entries' \in [{"register", "ftShim"} -> Seq(Ids \cup {None})]
    BY <1>5, <1>c, <1>d DEF RegisterCleared, LogInv
  <2>2. \A p \in 1..Len(transfer_log') : \A j, w :
           j = entries'["ftShim"][p] /\ w = transfer_log'[p][3] => Shows(j, w)'
    BY <1>b, <1>e, <2>1 DEF LogInv
  <2>3. Len(log') = 0 /\ log' \in Seq(Amounts) /\ Len(entries'["register"]) = 0
    BY <2>1
  <2>4. transfer_log' \in Seq(Transfers) /\ Len(entries'["ftShim"]) = Len(transfer_log')
    BY <1>d, <2>1
  <2>5. QED
    BY <2>1, <2>2, <2>3, <2>4 DEF LogInv, Shows
<1>6. QED
  BY <1>1, <1>2, <1>3, <1>4, <1>5, LogMoves DEF LogsMove

\* A log and its entries, side by side.
LEMMA ShownFacts ==
    ASSUME LogInv, NEW t \in {"register", "ftShim"}
    PROVE  /\ entries[t] \in Seq(Ids \cup {None}) /\ Shown(t) \in Seq(Amounts)
           /\ Len(Shown(t)) = Len(entries[t])
           /\ \A p \in 1..Len(entries[t]) : Shows(entries[t][p], Shown(t)[p])
<1>1. CASE t = "register"
  <2>1. Shown(t) = log
    BY <1>1 DEF Shown, Get
  <2>2. QED
    BY <1>1, <2>1 DEF LogInv
<1>2. CASE t = "ftShim"
  <2>1. PICK moves : moves = transfer_log
    OBVIOUS
  <2>2. /\ moves \in Seq(Transfers) /\ Len(moves) = Len(entries[t]) /\ Len(moves) \in Nat
        /\ entries[t] \in Seq(Ids \cup {None})
        /\ \A p \in 1..Len(moves) : Shows(entries[t][p], moves[p][3])
    BY <1>2, <2>1 DEF LogInv
  <2>3. Shown(t) = [k \in 1..Len(moves) |-> moves[k][3]]
    BY <1>2, <2>1 DEF Shown, GetTransferLog
  <2>4. \A k \in 1..Len(moves) : moves[k][3] \in Amounts
    <3>1. \A move \in Transfers : move[3] \in Amounts
      BY DEF Transfers
    <3>2. QED
      BY <2>2, <3>1
  <2>5. PICK third : third = [k \in 1..Len(moves) |-> moves[k][3]]
    OBVIOUS
  <2>6. /\ third \in Seq(Amounts) /\ Len(third) = Len(moves)
        /\ \A k \in 1..Len(moves) : third[k] = moves[k][3]
    BY <2>2, <2>4, <2>5
  <2>7. Shown(t) = third
    BY <2>3, <2>5
  <2>8. QED
    BY <2>2, <2>6, <2>7
<1>3. QED
  BY <1>1, <1>2

\* Where the last n of two sequences of the same length begin.
LEMMA LastOfFacts ==
    ASSUME NEW S, NEW s \in Seq(S), NEW T, NEW u \in Seq(T), Len(u) = Len(s), NEW n \in Nat
    PROVE  \E first \in 0..Len(s) :
              /\ LastOf(s, n) = SubSeq(s, first + 1, Len(s))
              /\ LastOf(u, n) = SubSeq(u, first + 1, Len(s))
<1> PICK first : first = IF Len(s) >= n THEN Len(s) - n
                         ELSE IF 2 * Len(s) >= n THEN 2 * Len(s) - n ELSE 0
  OBVIOUS
<1>1. first \in 0..Len(s)
  OBVIOUS
<1>2. /\ LastOf(s, n) = SubSeq(s, first + 1, Len(s))
      /\ LastOf(u, n) = SubSeq(u, first + 1, Len(s))
  BY DEF LastOf
<1>3. QED
  BY <1>1, <1>2

\* Entries of the run's own that show the values expected are those of its batch.
LEMMA MatchEarned ==
    ASSUME RunTypeInv, OwnInv, LogInv, step = "wait", Matches,
           Range(LastOf(entries[job.target], Len(ids))) \subseteq Range(ids)
    PROVE  LastOf(entries[job.target], Len(ids)) = BatchIds
<1> PICK t, n, own, order :
       /\ t = job.target /\ n = Len(ids) /\ own = ids /\ order = job.order
  OBVIOUS
<1>1. /\ own \in Seq(Ids) /\ job \in Jobs /\ n \in Nat /\ Len(own) = n /\ Len(order) = n
      /\ t \in {"register", "ftShim"}
  BY JobFacts DEF RunTypeInv, Learnt
<1>2. /\ order \in Seq(Nat) /\ \A k \in 1..n : order[k] \in 1..n
  BY <1>1, JobFacts DEF IsPermutation
<1>3. PICK list, shown : list = entries[t] /\ shown = Shown(t)
  OBVIOUS
<1>4. /\ list \in Seq(Ids \cup {None}) /\ shown \in Seq(Amounts) /\ Len(shown) = Len(list)
      /\ \A p \in 1..Len(list) : Shows(list[p], shown[p])
  BY <1>1, <1>3, ShownFacts
<1>5. PICK first \in 0..Len(list) :
         /\ LastOf(list, n) = SubSeq(list, first + 1, Len(list))
         /\ LastOf(shown, n) = SubSeq(shown, first + 1, Len(list))
  BY <1>1, <1>4, LastOfFacts
<1>6. Expected = [k \in 1..n |-> order[k]]
  BY <1>1 DEF Expected, Value
<1>7. Expected \in Seq(Nat) /\ Len(Expected) = n /\ \A k \in 1..n : Expected[k] = order[k]
  BY <1>1, <1>2, <1>6
<1>8. SubSeq(shown, first + 1, Len(list)) = Expected
  <2>1. LastOf(Shown(job.target), Len(Expected)) = Expected
    BY DEF Matches
  <2>2. QED
    BY <1>3, <1>5, <1>7, <2>1
<1>9. Len(list) \in Nat /\ first \in Nat /\ first <= Len(list)
  BY <1>4
<1>10. Len(list) - first = n
  <2>1. Len(SubSeq(shown, first + 1, Len(list))) = Len(list) - first
    BY <1>4, <1>9
  <2>2. QED
    BY <1>7, <1>8, <2>1
<1>11. \A k \in 1..n : first + k \in 1..Len(list) /\ shown[first + k] = order[k]
  <2>1. \A k \in 1..n : SubSeq(shown, first + 1, Len(list))[k] = shown[first + k]
    BY <1>1, <1>4, <1>9, <1>10
  <2>2. QED
    BY <1>1, <1>7, <1>8, <1>9, <1>10, <2>1
<1>12. PICK tail : tail = SubSeq(list, first + 1, Len(list))
  OBVIOUS
<1>13. /\ tail \in Seq(Ids \cup {None}) /\ Len(tail) = n
       /\ \A k \in 1..n : tail[k] = list[first + k]
  BY <1>1, <1>4, <1>9, <1>10, <1>12
<1>14. ASSUME NEW k \in 1..n
       PROVE  tail[k] = own[order[k]]
  <2>1. PICK m \in 1..n : tail[k] = own[m]
    <3>1. tail[k] \in Range(tail)
      BY <1>13 DEF Range
    <3>2. Range(tail) \subseteq Range(own)
      BY <1>3, <1>5, <1>12
    <3>3. tail[k] \in Range(own) /\ DOMAIN own = 1..n
      BY <1>1, <3>1, <3>2
    <3>4. QED
      BY <3>3 DEF Range
  <2>2. own[m] \in Ids /\ own[m] # None
    BY <1>1, IdsAreNat, GateAssumption DEF GateAssumption
  <2>3. order[k] = Delegate(own[m]).value
    <3>1. Shows(own[m], order[k])
      BY <1>4, <1>11, <1>13, <2>1
    <3>2. QED
      BY <2>2, <3>1 DEF Shows
  <2>4. Delegate(own[m]) = JobDelegate(Run, job, m)
    <3>1. Run \in Runs /\ IdsOf(Run) = ids /\ JobOf(Run) = job
      BY RunsAreNat DEF Runs, Run, IdsOf, JobOf
    <3>2. QED
      BY <1>1, <3>1 DEF OwnInv
  <2>5. Delegate(own[m]).value = m
    BY <2>4 DEF JobDelegate, Value
  <2>6. QED
    BY <2>1, <2>3, <2>5
<1>15. tail = [k \in 1..n |-> own[order[k]]]
  <2>1. tail = [k \in 1..n |-> tail[k]]
    BY <1>1, <1>13
  <2>2. QED
    BY <1>14, <2>1
<1>16. BatchIds = [k \in 1..n |-> own[order[k]]]
  BY <1>1 DEF BatchIds
<1>17. QED
  BY <1>3, <1>5, <1>12, <1>15, <1>16

\* A run that is over with MATCH has compared the log of a sequence.
LEMMA DoneMoves ==
    ASSUME [RunNext]_allVars
    PROVE  \/ done' = done
           \/ \E j, verdict :
                 /\ Finish(j, verdict)
                 /\ verdict = "MATCH" =>
                       j = job /\ step = "wait" /\ job.kind = "sequence" /\ Matches
<1>0. CASE \/ UNCHANGED allVars \/ Deployment \/ TransactionStep \/ TransactionLost
           \/ ChainStep
  BY <1>0 DEF allVars, Deployment, TransactionStep, TransactionLost, ChainStep
<1>1. CASE RunnerStep
  <2>1. CASE \/ \E j \in Jobs : Start(j)
             \/ SendSubmit \/ SendResume \/ \E i \in Ids : LearnId(i)
    BY <2>1 DEF Start, SendSubmit, SendResume, LearnId, Broadcast
  <2>2. ASSUME NEW j, Finish(j, "threw")
        PROVE  \E k, verdict :
                  /\ Finish(k, verdict)
                  /\ verdict = "MATCH" =>
                        k = job /\ step = "wait" /\ job.kind = "sequence" /\ Matches
    BY <2>2
  <2>3. CASE (\E j \in Jobs : StartThrows(j)) \/ AwaitThrows \/ FeeThrows
    BY <2>2, <2>3 DEF StartThrows, AwaitThrows, FeeThrows
  <2>4. CASE Compare
    <3>1. step = "wait" /\ Finish(job, Verdict)
      BY <2>4 DEF Compare
    <3>2. Verdict = "MATCH" => job.kind = "sequence" /\ Matches
      BY DEF Verdict
    <3>3. QED
      BY <3>1, <3>2
  <2>5. QED
    BY <1>1, <2>1, <2>3, <2>4 DEF RunnerStep
<1>2. CASE RunInterrupted
  BY <1>2 DEF RunInterrupted
<1>3. QED
  BY <1>0, <1>1, <1>2 DEF RunNext

\* What MatchExplained says of one run.
Earned(run) ==
    LET b == Asked(run.ids, run.job)
        tail == LastOf(run.seen, Len(b))
    IN  (run.verdict = "MATCH" /\ Range(tail) \subseteq Range(run.ids)) => tail = b

LEMMA MatchStep ==
    ASSUME RunTypeInv, OwnInv, LogInv, MatchExplained, [RunNext]_allVars
    PROVE  MatchExplained'
<1>1. MatchExplained <=> \A r \in DOMAIN done : Earned(done[r])
  BY DEF MatchExplained, Earned, OwnIds
<1>2. (\A r \in DOMAIN done' : Earned(done'[r])) => MatchExplained'
  BY DEF MatchExplained, Earned, OwnIds
<1>3. CASE done' = done
  BY <1>1, <1>2, <1>3
<1>4. ASSUME NEW j, NEW verdict, Finish(j, verdict),
             verdict = "MATCH" =>
                j = job /\ step = "wait" /\ job.kind = "sequence" /\ Matches
      PROVE  MatchExplained'
  <2>1. /\ Len(done') = Len(done) + 1 /\ Len(done) \in Nat /\ Run = Len(done) + 1
        /\ \A r \in 1..Len(done) : done'[r] = done[r]
        /\ done'[Run].job = j /\ done'[Run].ids = ids
        /\ done'[Run].verdict = verdict /\ done'[Run].seen = entries[j.target]
    BY <1>4, OneMoreRun, RunsAreNat DEF Run
  <2>2. DOMAIN done = 1..Len(done) /\ DOMAIN done' = 1..Len(done')
    <3>1. PICK S : done \in Seq(S)
      BY DEF RunTypeInv
    <3>2. PICK T : done' \in Seq(T)
      BY <1>4, OneMoreRun
    <3>3. QED
      BY <3>1, <3>2
  <2>3. Earned(done'[Run])
    <3> SUFFICES ASSUME verdict = "MATCH",
                        Range(LastOf(entries[j.target], Len(Asked(ids, j)))) \subseteq Range(ids)
                 PROVE  LastOf(entries[j.target], Len(Asked(ids, j))) = Asked(ids, j)
      BY <2>1 DEF Earned
    <3>1. j = job /\ step = "wait" /\ Matches
      BY <1>4
    <3>2. Len(ids) = Len(job.order)
      BY <3>1 DEF RunTypeInv
    <3>3. Asked(ids, j) = BatchIds
      BY <3>1, <3>2 DEF Asked, BatchIds
    <3>4. Len(Asked(ids, j)) = Len(ids)
      BY <3>1, <3>2, <3>3, BatchIdsType
    <3>5. QED
      BY <3>1, <3>3, <3>4, MatchEarned
  <2>4. \A r \in DOMAIN done' : Earned(done'[r])
    BY <1>1, <2>1, <2>2, <2>3
  <2>5. QED
    BY <1>2, <2>4
<1>5. QED
  BY <1>3, <1>4, DoneMoves

LEMMA BoundStep ==
    ASSUME TypeInv, BoundInv, [RunNext]_allVars
    PROVE  BoundInv'
<1> USE RunAssumption DEF boundVars, logVars, RunAssumption, BoundInv
<1>1. CASE UNCHANGED failed /\ (Mishap \/ Stray \/ UNCHANGED boundVars)
  BY <1>1 DEF Mishap, Stray, Within
<1>2. CASE UNCHANGED allVars
  BY <1>1, <1>2 DEF allVars, targetVars
<1>3. CASE Deployment
  BY <1>1, <1>3 DEF Deployment, DeployStep, DeployDisturbed, DeployChanges
<1>4. CASE RunnerStep \/ RunInterrupted \/ TransactionStep \/ TransactionLost
  BY <1>1, <1>4 DEF RunnerStep, RunInterrupted, TransactionStep, TransactionLost, targetVars
<1>5. CASE GateStep \/ GateDisturbed \/ StrayCall
  BY <1>1, <1>5 DEF GateStep, GateDisturbed, StrayCall, targetVars
<1>6. CASE TargetStep
  <2>1. PICK c \in calls : CallSucceeds(c) \/ CallFails(c)
    BY <1>6 DEF TargetStep
  <2>2. c.id \in Ids
    BY IdFacts DEF TypeInv
  <2>3. failed' \subseteq failed \cup {c.id} /\ UNCHANGED boundVars
    BY <1>6, <2>1 DEF TargetStep, CallSucceeds, CallFails
  <2>4. QED
    BY <2>2, <2>3
<1>7. QED
  BY <1>2, <1>3, <1>4, <1>5, <1>6 DEF RunNext, ChainStep

(***************************************************************************)
(* The targets' logs hold an entry for every call that reached them, with  *)
(* the value of its intent.                                                *)
(***************************************************************************)
THEOREM RunLogs == RunSpec => []LogInv
<1>1. RunInit => LogInv
  BY DEF RunInit, RegisterInit, FtAbsent, LogInv
<1>2. /\ RunTypeInv /\ TypeInv /\ LifeInv /\ CoordinatorOrder
      /\ (OwnInv /\ ListsInv /\ OnceInv) /\ (TurnInv /\ RanInv)
      /\ LogInv /\ [RunNext]_allVars
      => LogInv'
  BY LogStep
<1>3. QED
  BY <1>1, <1>2, RunTypes, RunLists, RunTurns, RunIsGate, RunKeepsOrder, TypeInvariant,
     LifeInvariant, PTL DEF RunSpec

(***************************************************************************)
(* A MATCH no foreign entry takes part in is earned: the last entries are  *)
(* the run's batch, whole and in order. For every log, also one others     *)
(* write to and reset, and every run before.                               *)
(***************************************************************************)
THEOREM MatchIsEarned == RunSpec => []MatchExplained
<1>1. RunInit => MatchExplained
  BY DEF RunInit, MatchExplained
<1>2. /\ RunTypeInv /\ (OwnInv /\ ListsInv /\ OnceInv) /\ LogInv
      /\ MatchExplained /\ [RunNext]_allVars
      => MatchExplained'
  BY MatchStep
<1>3. QED
  BY <1>1, <1>2, RunTypes, RunLists, RunLogs, PTL DEF RunSpec

\* Type correctness of the runner, the logs and the bounds.
THEOREM RunnerTyped == RunSpec => []RunnerTypeOK
<1>1. RunInit => BoundInv
  BY RunAssumption DEF RunInit, BoundInv, RunAssumption
<1>2. TypeInv /\ BoundInv /\ [RunNext]_allVars => BoundInv'
  BY BoundStep
<1>3. RunSpec => []BoundInv
  BY <1>1, <1>2, RunIsGate, TypeInvariant, PTL DEF RunSpec
<1>4. RunTypeInv /\ LogInv /\ BoundInv /\ (TurnInv /\ RanInv) => RunnerTypeOK
  <2> SUFFICES ASSUME RunTypeInv, LogInv, BoundInv, RanInv PROVE RunnerTypeOK
    OBVIOUS
  <2>1. DOMAIN key_nonce = Senders /\ DOMAIN next_nonce = Senders
    BY DEF RunTypeInv
  <2>2. /\ step \in {"idle", "submit", "await", "wait"}
        /\ job \in Jobs \cup {None} /\ (job = None <=> step = "idle")
        /\ ids \in Seq(Ids)
    <3>1. CASE step = "idle"
      BY <3>1 DEF RunTypeInv
    <3>2. CASE step # "idle"
      <4>1. Learnt(ids, job) /\ step \in {"submit", "await", "wait"}
        BY <3>2 DEF RunTypeInv
      <4>2. QED
        BY <4>1, JobFacts DEF Learnt
    <3>3. QED
      BY <3>1, <3>2
  <2>3. QED
    BY <2>1, <2>2 DEF RunnerTypeOK, RunTypeInv, LogInv, BoundInv, RanInv
<1>5. QED
  BY <1>3, <1>4, RunTypes, RunLogs, RunTurns, PTL
=============================================================================
