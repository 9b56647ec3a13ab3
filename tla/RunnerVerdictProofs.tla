------------------------- MODULE RunnerVerdictProofs -------------------------
(***************************************************************************)
(* Why a run reports trouble, for any number of runs, jobs and intents:    *)
(* while nothing is disturbed, nobody else calls a target and no run looks *)
(* too early, everything in flight belongs to the run under way, its batch *)
(* runs to the end, and the target's log grows by this batch alone.        *)
(***************************************************************************)
EXTENDS RunnerProofs

\* What the composition is known to keep to, whatever disturbs it.
BaseInv ==
    /\ RunTypeInv /\ TypeInv /\ LifeInv /\ StuckInv /\ CoordinatorOrder
    /\ OwnInv /\ ListsInv /\ OnceInv /\ TurnInv /\ LogInv
    /\ BoundInv /\ DeployInv

-----------------------------------------------------------------------------
\* Steps of the calm

\* What a receipt or a target does leaves the runner where it is.
Outside == UNCHANGED <<deployVars, runVars, chainVars, done, boundVars>>

CalmStep ==
    \/ Deployment /\ (DeployStep \/ DeployChanges)
    \/ RunnerStep
    \/ TransactionStep
    \/ GateStep /\ Outside
    \/ TargetStep /\ Outside
    \/ UNCHANGED allVars

\* A step into the calm is one of the calm: a disturbance would have been counted.
LEMMA CalmSteps ==
    ASSUME BaseInv, [RunNext]_allVars, Calm'
    PROVE  Calm /\ CalmStep
<1>a. mishaps \in Nat /\ strays \in Nat /\ mishaps' = 0 /\ strays' = 0
  BY DEF BaseInv, BoundInv, Calm
<1>b. ~Mishap /\ ~Stray
  BY <1>a DEF Mishap, Stray
<1>1. CalmStep
  <2>1. CASE Deployment
    BY <1>b, <2>1 DEF Deployment, DeployDisturbed, CalmStep
  <2>2. CASE ChainStep
    BY <1>b, <2>2 DEF ChainStep, GateStep, TargetStep, GateDisturbed, StrayCall, Outside, CalmStep
  <2>3. QED
    BY <1>b, <2>1, <2>2 DEF RunNext, RunInterrupted, TransactionLost, CalmStep
<1>2. UNCHANGED boundVars
  BY <1>1 DEF CalmStep, Outside, DeployStep, DeployChanges, RunnerStep, TransactionStep,
              allVars
<1>3. \A r \in 1..Len(done) : r \in 1..Len(done') /\ done'[r] = done[r]
  <2>1. CASE done' = done
    BY <2>1
  <2>2. ASSUME NEW j, NEW verdict, Finish(j, verdict)
        PROVE  \A r \in 1..Len(done) : r \in 1..Len(done') /\ done'[r] = done[r]
    <3>1. RunTypeInv /\ Len(done) \in Nat
      BY RunsAreNat DEF BaseInv
    <3>2. Len(done') = Len(done) + 1 /\ \A r \in 1..Len(done) : done'[r] = done[r]
      BY <2>2, <3>1, OneMoreRun
    <3>3. QED
      BY <3>1, <3>2
  <2>3. QED
    BY <2>1, <2>2, DoneMoves
<1>4. Calm
  BY <1>a, <1>2, <1>3 DEF Calm, boundVars
<1>5. QED
  BY <1>1, <1>4

\* A run that ends in the calm leaves nothing in flight.
LEMMA CalmEnd ==
    ASSUME BaseInv, NEW j, NEW verdict, Finish(j, verdict), Calm'
    PROVE  /\ sent = {} /\ resumes = {} /\ calls = {} /\ thens = {}
           /\ step' = "idle"
<1> PICK end : end =
          [job |-> j, ids |-> ids, verdict |-> verdict, seen |-> entries[j.target],
           settled |-> sent = {} /\ resumes = {} /\ calls = {} /\ thens = {},
           failed |-> failed, mishaps |-> mishaps, strays |-> strays]
  OBVIOUS
<1>1. done' = Append(done, end)
  BY DEF Finish
<1>2. PICK S : done \in Seq(S)
  BY DEF BaseInv, RunTypeInv
<1>3. done \in Seq(S \cup {end}) /\ Len(done) \in Nat
  BY <1>2
<1>4. done'[Len(done) + 1] = end /\ Len(done) + 1 \in 1..Len(done')
  BY <1>1, <1>3
<1>5. end.settled
  BY <1>4 DEF Calm
<1>6. QED
  BY <1>5 DEF Finish

\* The runner's own steps in the calm, one by one.
LEMMA CalmRunner ==
    ASSUME BaseInv, RunnerStep, Calm'
    PROVE  /\ UNCHANGED <<vars, targetVars, deployVars, key_nonce, boundVars>>
           /\ \/ \E j \in Jobs : Start(j)
              \/ SendSubmit \/ SendResume \/ \E i \in Ids : LearnId(i)
              \/ /\ step' = "idle" /\ sent = {} /\ sent' = {}
                 /\ resumes = {} /\ calls = {} /\ thens = {}
                 /\ (step # "idle" \/ deployed)
<1>1. UNCHANGED <<vars, targetVars, deployVars, key_nonce, boundVars>>
  BY DEF RunnerStep
<1>2. ASSUME NEW j, NEW verdict, Finish(j, verdict), UNCHANGED sent
      PROVE  /\ step' = "idle" /\ sent = {} /\ sent' = {}
             /\ resumes = {} /\ calls = {} /\ thens = {}
  BY <1>2, CalmEnd
<1>3. CASE (\E j \in Jobs : StartThrows(j)) \/ AwaitThrows \/ FeeThrows \/ Compare
  BY <1>1, <1>2, <1>3 DEF StartThrows, AwaitThrows, FeeThrows, Compare, Submitted
<1>4. QED
  BY <1>1, <1>3 DEF RunnerStep

-----------------------------------------------------------------------------
\* Nonces, and whose an intent is

\* A nonce the runner has used stays one.
LEMMA OfferStays ==
    ASSUME RunTypeInv, [RunNext]_allVars, NEW nonce, Offered(nonce)
    PROVE  Offered(nonce)'
<1>a. /\ Len(done) \in Nat /\ Run = Len(done) + 1 /\ Runs \subseteq Nat
      /\ nonce[1] \in Runs /\ nonce[1] \in Nat /\ nonce[2] \in Nat
  BY RunsAreNat DEF Run, Offered
<1>b. nonce[1] \in Runs'
  BY <1>a, RunMoves
<1>c. step = "idle" => nonce[1] < Run
  BY <1>a DEF Runs
<1>d. nonce[1] <= Run
  BY <1>a DEF Runs
<1>e. Len(ids) \in Nat
  BY DEF RunTypeInv, Learnt
<1>1. CASE UNCHANGED <<done, step, ids>>
  BY <1>1, <1>b DEF Offered, Run
<1>2. ASSUME NEW j, NEW verdict, Finish(j, verdict)
      PROVE  Offered(nonce)'
  <2>1. Run' = Run + 1
    BY <1>2, <1>a, OneMoreRun DEF Run
  <2>2. QED
    BY <1>a, <1>b, <1>d, <2>1 DEF Offered
<1>3. CASE RunnerStep
  <2>1. ASSUME NEW j \in Jobs, Start(j) PROVE Offered(nonce)'
    BY <1>a, <1>b, <1>c, <2>1 DEF Start, Offered, Run
  <2>2. CASE SendSubmit
    BY <1>a, <1>b, <1>e, <2>2 DEF SendSubmit, Broadcast, Offered, Run
  <2>3. CASE SendResume
    BY <1>a, <1>b, <1>e, <2>3 DEF SendResume, Submitted, Broadcast, Offered, Run
  <2>4. ASSUME NEW i \in Ids, LearnId(i) PROVE Offered(nonce)'
    <3>1. ids \in Seq(Ids) /\ ids' = Append(ids, i)
      BY <2>4 DEF LearnId, RunTypeInv, Learnt
    <3>2. Len(ids') = Len(ids) + 1
      BY <3>1
    <3>3. QED
      BY <1>a, <1>b, <1>e, <2>4, <3>2 DEF LearnId, Offered, Run
  <2>5. CASE (\E j \in Jobs : StartThrows(j)) \/ AwaitThrows \/ FeeThrows \/ Compare
    BY <1>2, <2>5 DEF StartThrows, AwaitThrows, FeeThrows, Compare
  <2>6. QED
    BY <1>3, <2>1, <2>2, <2>3, <2>4, <2>5 DEF RunnerStep
<1>4. CASE RunInterrupted
  BY <1>2, <1>4 DEF RunInterrupted
<1>5. CASE \/ Deployment \/ TransactionStep \/ TransactionLost \/ ChainStep
           \/ UNCHANGED allVars
  BY <1>1, <1>5 DEF Deployment, TransactionStep, TransactionLost, ChainStep, allVars,
                    runVars
<1>6. QED
  BY <1>3, <1>4, <1>5 DEF RunNext

\* What the network gains is a submit of the intent the runner is at, or a resume.
LEMMA SentMoves ==
    ASSUME RunTypeInv, [RunNext]_allVars, NEW tx \in sent', tx \notin sent
    PROVE  \/ /\ step = "submit" /\ step' = "await" /\ UNCHANGED <<done, ids, job>>
              /\ tx.call = "submit" /\ tx.delegate = Awaited
           \/ tx.call # "submit"
<1>1. CASE RunnerStep
  <2>1. CASE SendSubmit
    BY <2>1 DEF SendSubmit, Broadcast
  <2>2. CASE SendResume
    <3>1. tx.call = job.kind /\ job \in Jobs
      BY <2>2 DEF SendResume, Submitted, Broadcast, RunTypeInv, Learnt
    <3>2. QED
      BY <3>1, JobFacts
  <2>3. CASE UNCHANGED sent
    BY <2>3
  <2>4. QED
    BY <1>1, <2>1, <2>2, <2>3
       DEF RunnerStep, Start, StartThrows, AwaitThrows, FeeThrows, Compare, LearnId
<1>2. CASE TransactionStep \/ TransactionLost
  BY <1>2, TransactionFate
<1>3. CASE Deployment \/ RunInterrupted \/ ChainStep \/ UNCHANGED allVars
  BY <1>3 DEF Deployment, RunInterrupted, ChainStep, allVars, chainVars
<1>4. QED
  BY <1>1, <1>2, <1>3 DEF RunNext

\* A new intent carries the delegate of a submit in flight.
LEMMA IntentMoves ==
    ASSUME RunTypeInv, TypeInv, [RunNext]_allVars, NEW i \in Ids, intents'[i] # intents[i]
    PROVE  \E tx \in sent :
              /\ tx.call = "submit" /\ intents'[i] # None /\ Delegate(i)' = tx.delegate
              /\ UNCHANGED <<done, step, ids>>
<1>1. UNCHANGED submitVars => FALSE
  BY DEF submitVars
<1>2. CASE TransactionStep
  <2>1. PICK tx \in sent :
           SubmitIncluded(tx) \/ ResumeIncluded(tx) \/ Refused(tx) \/ NonceTaken(tx)
    BY <1>2 DEF TransactionStep
  <2>2. tx.call = "submit" /\ SubmitIntent("relayer", tx.delegate)
    BY <1>1, <2>1 DEF SubmitIncluded, ResumeIncluded, ResumeIntent, ResumeBatchChained,
                      Refused, NonceTaken, vars, gateVars
  <2>3. tx.delegate \in Delegates /\ height \in Nat
    BY <2>2, IdFacts DEF RunTypeInv, Valid, TypeInv
  <2>4. intents' = [intents EXCEPT ![next_intent_id] = [delegate |-> tx.delegate, at |-> height]]
    BY <2>2 DEF SubmitIntent
  <2>5. intents'[i] = [delegate |-> tx.delegate, at |-> height]
    BY <2>4, IntentsType
  <2>6. intents'[i] \in Held
    BY <2>3, <2>5 DEF Held
  <2>7. intents'[i] # None /\ Delegate(i)' = tx.delegate
    BY <2>5, <2>6, NoneIsNoIntent DEF Delegate
  <2>8. QED
    BY <1>2, <2>2, <2>7 DEF TransactionStep, runVars
<1>3. CASE \/ Deployment \/ RunnerStep \/ RunInterrupted \/ TransactionLost
           \/ UNCHANGED allVars
  BY <1>1, <1>3 DEF Deployment, RunnerStep, RunInterrupted, TransactionLost, allVars, vars,
                    gateVars
<1>4. CASE ChainStep
  BY <1>1, <1>4 DEF ChainStep, GateStep, TargetStep, GateDisturbed, StrayCall,
        DeliverApprove, DeliverReject, DropStale, ContinueChain, ContinueChainPanics,
        CallSucceeds, CallFails, TargetExecutes, TimeoutFires, ResetBatchTail,
        RemoveRelayer, vars, gateVars
<1>5. QED
  BY <1>2, <1>3, <1>4 DEF RunNext

LEMMA OfferStep ==
    ASSUME RunTypeInv, TypeInv, LifeInv, OfferInv, [RunNext]_allVars
    PROVE  OfferInv'
<1>1. ASSUME NEW tx \in sent', tx.call = "submit"
      PROVE  Offered(tx.delegate.nonce)'
  <2>1. CASE tx \in sent
    BY <1>1, <2>1, OfferStays DEF OfferInv
  <2>2. CASE tx \notin sent
    <3>1. /\ step = "submit" /\ step' = "await" /\ UNCHANGED <<done, ids, job>>
          /\ tx.delegate = Awaited
      BY <1>1, <2>2, SentMoves
    <3>2. tx.delegate.nonce = <<Run, Len(ids) + 1>>
      BY <3>1 DEF Awaited, JobDelegate
    <3>3. Len(done) \in Nat /\ Len(ids) \in Nat
      BY RunsAreNat DEF RunTypeInv, Learnt
    <3>4. QED
      BY <3>1, <3>2, <3>3 DEF Offered, Runs, Run
  <2>3. QED
    BY <2>1, <2>2
<1>2. ASSUME NEW i \in Ids, intents'[i] # None, NEW nonce, nonce = Delegate(i)'.nonce
      PROVE  Offered(nonce)'
  <2>1. CASE intents'[i] = intents[i]
    <3>1. Delegate(i)' = Delegate(i) /\ Offered(Delegate(i).nonce)
      BY <1>2, <2>1 DEF OfferInv, Delegate
    <3>2. QED
      BY <1>2, <3>1, OfferStays
  <2>2. CASE intents'[i] # intents[i]
    <3>1. PICK tx \in sent : tx.call = "submit" /\ Delegate(i)' = tx.delegate
      BY <2>2, IntentMoves
    <3>2. QED
      BY <1>2, <3>1, OfferStays DEF OfferInv
  <2>3. QED
    BY <2>1, <2>2
<1>3. QED
  BY <1>1, <1>2 DEF OfferInv, Offered

\* All that is known while the calm lasts.
CalmState ==
    /\ BaseInv /\ OfferInv /\ Calm
    /\ ReadyInv /\ OneSentInv /\ FlightInv /\ NoneLostInv /\ ProgressInv

-----------------------------------------------------------------------------
\* Members of a batch

\* The run under way, as one of all runs.
LEMMA RunUnderWay ==
    ASSUME BaseInv, step # "idle"
    PROVE  /\ Run \in Runs /\ IdsOf(Run) = ids /\ JobOf(Run) = job /\ job \in Jobs
           /\ ids \in Seq(Ids) /\ Len(ids) \in Nat
           /\ step = "wait" =>
                 /\ Len(ids) = Len(job.order) /\ AskedBy(BatchIds, Run)
                 /\ BatchIds \in Seq(Ids) /\ Len(BatchIds) = Len(ids)
<1>1. RunTypeInv
  BY DEF BaseInv
<1>2. /\ Run \in Runs /\ IdsOf(Run) = ids /\ JobOf(Run) = job
      /\ Learnt(ids, job) /\ (step = "wait" => Len(ids) = Len(job.order))
  BY <1>1, RunsAreNat DEF Runs, Run, IdsOf, JobOf, RunTypeInv
<1>3. QED
  BY <1>1, <1>2, BatchIdsAsked, BatchIdsType DEF Learnt

\* A member of a sequence's list is an intent that no run resumes alone.
LEMMA MemberFacts ==
    ASSUME BaseInv, NEW list, NEW r, AskedBy(list, r), JobOf(r).kind = "sequence",
           NEW k \in 1..Len(list), NEW i, i = list[k]
    PROVE  /\ i \in Ids /\ intents[i] # None /\ i < next_intent_id
           /\ \A s \in Runs : ~SingleOf(i, s)
<1>1. /\ i \in Ids /\ intents[i] # None
      /\ Delegate(i).nonce = <<r, JobOf(r).order[k]>>
  <2>1. RunTypeInv /\ OwnInv
    BY DEF BaseInv
  <2>2. list[k] \in Ids /\ intents[list[k]] # None
    BY <2>1, AskedFacts
  <2>3. QED
    BY <2>1, <2>2, AskedNonce
<1>2. i < next_intent_id
  <2>1. i \in Nat /\ next_intent_id \in Nat
    BY <1>1, IdFacts DEF BaseInv, TypeInv
  <2>2. QED
    BY <1>1, <2>1 DEF BaseInv, LifeInv
<1>3. ASSUME NEW s \in Runs, SingleOf(i, s) PROVE FALSE
  <2>1. PICK m \in 1..Len(IdsOf(s)) : IdsOf(s)[m] = i
    BY <1>3 DEF SingleOf
  <2>2. Delegate(IdsOf(s)[m]) = JobDelegate(s, JobOf(s), m)
    BY DEF BaseInv, OwnInv
  <2>3. JobDelegate(s, JobOf(s), m).nonce = <<s, m>>
    BY DEF JobDelegate
  <2>4. Delegate(i).nonce = <<s, m>>
    BY <2>1, <2>2, <2>3
  <2>5. s = r
    BY <1>1, <2>4
  <2>6. QED
    BY <1>3, <2>5 DEF SingleOf
<1>4. QED
  BY <1>1, <1>2, <1>3

\* Each stands there once.
LEMMA MembersDiffer ==
    ASSUME BaseInv, NEW list, NEW r, AskedBy(list, r),
           NEW k \in 1..Len(list), NEW l \in 1..Len(list), list[k] = list[l]
    PROVE  k = l
<1>1. RunTypeInv /\ OwnInv
  BY DEF BaseInv
<1>2. /\ Delegate(list[k]).nonce = <<r, JobOf(r).order[k]>>
      /\ Delegate(list[k]).nonce = <<r, JobOf(r).order[l]>>
  BY <1>1, AskedNonce
<1>3. JobOf(r).order[k] = JobOf(r).order[l]
  BY <1>2
<1>4. JobOf(r) \in Jobs /\ Len(list) = Len(JobOf(r).order)
  BY <1>1, AskedFacts, RunFacts
<1>5. QED
  BY <1>3, <1>4, JobFacts DEF IsPermutation

\* It waits for its turn, or had it at its place and went its way.
LEMMA MemberFate ==
    ASSUME CalmState, NEW list, NEW r, AskedBy(list, r), JobOf(r).kind = "sequence",
           NEW k \in 1..Len(list), NEW i, i = list[k], i \notin pending
    PROVE  /\ Went(i) /\ slot[i].batch \in 1..Len(batches) /\ slot[i].seq = k - 1
           /\ batches[slot[i].batch] = list
<1>1. BaseInv /\ NoneLostInv
  BY DEF CalmState
<1>2. i \in Ids /\ i < next_intent_id /\ \A s \in Runs : ~SingleOf(i, s)
  BY <1>1, MemberFacts
<1>3. Went(i)
  BY <1>1, <1>2 DEF NoneLostInv
<1>4. Approached(i)
  BY <1>3 DEF Went, Approached
<1>5. QED
  BY <1>1, <1>2, <1>3, <1>4, InPlace DEF BaseInv

\* With nothing in flight no chain is under way.
LEMMA SettledRests ==
    ASSUME CalmState, sent = {}, resumes = {}, calls = {}, thens = {}
    PROVE  batch_chain_tail = <<>>
<1> SUFFICES ASSUME batch_chain_tail # <<>> PROVE FALSE
  OBVIOUS
<1>1. /\ active_batch_id \in 1..Len(batches) /\ Excused(active_batch_id)
  <2>1. ~Advancing
    BY DEF Advancing, ChainResumes, ChainCalls
  <2>2. Len(batches) = active_batch_id /\ active_batch_id > 0 /\ Excused(active_batch_id)
    BY <2>1 DEF CalmState, BaseInv, StuckInv, TailInv
  <2>3. Len(batches) \in Nat
    BY BatchesType DEF CalmState, BaseInv
  <2>4. QED
    BY <2>2, <2>3
<1> PICK b \in 1..Len(batches) : b = active_batch_id
  BY <1>1
<1> PICK list, r : list = batches[b] /\ r = RunOf(list)
  OBVIOUS
<1>2. AskedBy(list, r) /\ JobOf(r).kind = "sequence"
  BY DEF CalmState, BaseInv, ListsInv
<1>3. ~ListsTwice(list)
  <2>1. Len(list) \in Nat
    BY <1>2, AskedFacts DEF CalmState, BaseInv
  <2>2. \A j, k \in 1..Len(list) : list[j] = list[k] => j = k
    BY <1>2, MembersDiffer DEF CalmState
  <2>3. \A j, k \in 1..Len(list) : j < k => j # k
    BY <2>1
  <2>4. QED
    BY <2>2, <2>3 DEF ListsTwice
<1>4. PICK k \in 1..Len(list) : LeftChain(list[k], b)
  BY <1>1, <1>3 DEF Excused, Abandoned
<1> PICK i : i = list[k]
  OBVIOUS
<1>5. /\ Went(i) /\ slot[i].batch \in 1..Len(batches) /\ batches[slot[i].batch] = list
  BY <1>2, <1>4, MemberFate DEF LeftChain
<1>6. slot[i].batch = b
  BY <1>5 DEF CalmState, BaseInv, OnceInv
<1>7. QED
  BY <1>4, <1>5, <1>6 DEF LeftChain, Went, Called

\* By then all of the run's batch has run.
LEMMA SettledRan ==
    ASSUME CalmState, Resumed, job.kind = "sequence", AtRest, NEW k \in 1..Len(BatchIds)
    PROVE  ran_at[BatchIds[k]] # None
<1>1. AskedBy(BatchIds, Run) /\ JobOf(Run) = job
  BY RunUnderWay DEF CalmState, Resumed
<1>2. BatchIds[k] \notin pending
  <2>1. Len(batches) > 0 /\ batches[Len(batches)] = BatchIds
    BY DEF CalmState, NoneLostInv
  <2>2. Len(batches) \in 1..Len(batches)
    BY <2>1, BatchesType DEF CalmState, BaseInv
  <2>3. Range(batch_chain_tail) = {}
    BY DEF AtRest, Range
  <2>4. QED
    BY <2>1, <2>2, <2>3 DEF CalmState, NoneLostInv
<1>3. Went(BatchIds[k])
  BY <1>1, <1>2, MemberFate
<1>4. QED
  BY <1>3 DEF Went, Called, AtRest

-----------------------------------------------------------------------------
\* Deploy's work stands

LEMMA ReadyStep ==
    ASSUME CalmState, [RunNext]_allVars, Calm', CalmStep
    PROVE  ReadyInv'
<1>a. /\ ~tainted /\ fee_tiers = DefaultFeeTiers
      /\ deployed => "relayer" \in relayers
      /\ Begun => deployed
  BY DEF CalmState, ReadyInv
<1>b. deployed => command = "none"
  BY DEF CalmState, BaseInv, DeployInv, DeployTypeOK
<1>1. ASSUME UNCHANGED <<fee_tiers, relayers, deployed, tainted>>, Begun' => Begun \/ deployed
      PROVE  ReadyInv'
  BY <1>1, <1>a DEF ReadyInv
<1>2. CASE Deployment /\ (DeployStep \/ DeployChanges)
  <2>1. UNCHANGED fee_tiers /\ ~Begun /\ ~Begun'
    BY <1>2 DEF Deployment, feeVars, runVars, Begun
  <2>2. ~tainted'
    BY <1>2, <1>a
       DEF DeployStep, DeployChanges, StartDeploy, StartClean, Begin, AccountExisted,
           CreateAccount, WriteCredential, DeployContract, CallNew, ReportReady,
           DeployThrows, AccountAbsent, DeleteAccount, RemoveCredential, CleanThrows,
           CleanDone
  <2>3. CASE relayers' = relayers \cup {"relayer"}
    BY <1>a, <2>1, <2>2, <2>3 DEF ReadyInv
  <2>4. CASE relayers' = relayers /\ (deployed' => deployed)
    BY <2>1, <2>2, <2>4, <1>a DEF ReadyInv
  <2>5. CASE DeployStep
    <3>1. relayers' = relayers
      BY <2>5 DEF DeployStep
    <3>2. deployed' => deployed
      BY <2>5 DEF DeployStep, StartDeploy, StartClean, Begin, AccountExisted,
           CreateAccount, WriteCredential, DeployContract, DeployThrows, AccountAbsent,
           RemoveCredential, CleanThrows, CleanDone, Goto, Onward, Ensured
    <3>3. QED
      BY <2>4, <3>1, <3>2
\* Only a command that has withdrawn "ready" destroys the gate.
  <2>6. CASE DeployChanges
    <3>1. CASE CallNew /\ UNCHANGED relayers
      BY <2>4, <3>1 DEF CallNew, Onward
    <3>2. CASE DeleteAccount
      <4>1. ~deployed /\ deployed' = deployed
        BY <3>2, <1>b DEF DeleteAccount, At, Goto
      <4>2. QED
        BY <2>1, <2>2, <4>1, <1>a DEF ReadyInv
    <3>3. QED
      BY <2>3, <2>6, <3>1, <3>2 DEF DeployChanges
  <2>7. QED
    BY <1>2, <2>5, <2>6
<1>3. CASE RunnerStep
  <2>1. UNCHANGED <<fee_tiers, relayers, deployed, tainted>>
    BY <1>3 DEF RunnerStep, vars, feeVars, gateVars, accessVars, deployVars, commandVars
  <2>2. Begun \/ deployed
    BY <1>3 DEF RunnerStep, Start, StartThrows, SendSubmit, LearnId, AwaitThrows,
                SendResume, FeeThrows, Compare, Submitted, Begun
  <2>3. QED
    BY <1>1, <2>1, <2>2
<1>4. CASE TransactionStep
  <2>1. UNCHANGED <<deployed, tainted>> /\ (Begun' => Begun)
    BY <1>4 DEF TransactionStep, deployVars, commandVars, runVars, Begun
  <2>2. UNCHANGED <<fee_tiers, relayers>>
    BY <1>4 DEF TransactionStep, SubmitIncluded, SubmitIntent, ResumeIncluded,
                ResumeBatchChained, ResumeIntent, ChargeFee, Refused, NonceTaken, vars,
                feeVars, gateVars, accessVars
  <2>3. QED
    BY <1>1, <2>1, <2>2
<1>5. CASE (GateStep \/ TargetStep) /\ Outside
  <2>1. UNCHANGED <<deployed, tainted>> /\ (Begun' => Begun)
    BY <1>5 DEF Outside, deployVars, commandVars, runVars, Begun
  <2>2. UNCHANGED <<fee_tiers, relayers>>
    BY <1>5 DEF GateStep, TargetStep, DeliverApprove, DeliverReject, DropStale,
                ContinueChain, ContinueChainPanics, CallSucceeds, CallFails,
                TargetExecutes, feeVars, accessVars
  <2>3. QED
    BY <1>1, <2>1, <2>2
<1>6. CASE UNCHANGED allVars
  BY <1>1, <1>6 DEF allVars, vars, feeVars, gateVars, accessVars, deployVars, commandVars,
                    runVars, Begun
<1>7. QED
  BY <1>2, <1>3, <1>4, <1>5, <1>6 DEF CalmStep

-----------------------------------------------------------------------------
\* One transaction at a time

\* The intent the runner is about to submit has not been accepted yet.
LEMMA NotYetHeld ==
    ASSUME CalmState, step = "submit", NEW i \in Ids
    PROVE  ~Holds(i, Awaited)
<1> SUFFICES ASSUME Holds(i, Awaited) PROVE FALSE
  OBVIOUS
<1>1. Offered(Delegate(i).nonce) /\ Delegate(i) = Awaited
  BY DEF CalmState, OfferInv, Holds
<1>2. Awaited.nonce = <<Run, Len(ids) + 1>>
  BY DEF Awaited, JobDelegate
<1>3. Len(ids) + 1 <= Len(ids)
  BY <1>1, <1>2, RunUnderWay DEF Offered, CalmState
<1>4. QED
  BY <1>3, RunUnderWay DEF CalmState

\* What is in flight tells where the runner is.
LEMMA InFlight ==
    ASSUME CalmState, NEW tx \in sent
    PROVE  /\ sent = {tx} /\ tx \in Tx /\ Valid(tx)
           /\ key_nonce[tx.by] < tx.nonce /\ tx.nonce < next_nonce[tx.by]
           /\ tx.call = "submit" =>
                 /\ step = "await" /\ tx.list = <<>> /\ tx.delegate = Awaited
           /\ tx.call # "submit" =>
                 /\ step = "wait" /\ tx.call = job.kind /\ tx.list = BatchIds
                 /\ tx.attached = MirrorFee(Len(ids)) /\ MirrorCovers(Len(ids))
<1>1. tx \in Tx /\ Valid(tx)
  BY DEF CalmState, BaseInv, RunTypeInv
<1>2. step = "wait" => job.kind # "submit"
  BY RunUnderWay, JobFacts DEF CalmState
<1>3. QED
  BY <1>1, <1>2 DEF CalmState, OneSentInv

\* Nothing else can become of it than to be included.
LEMMA NeverTaken ==
    ASSUME CalmState, NEW tx \in sent, NonceTaken(tx)
    PROVE  FALSE
<1>1. /\ tx.by \in Senders /\ tx.nonce \in Nat /\ key_nonce[tx.by] \in Nat
  BY DEF CalmState, BaseInv, RunTypeInv, Tx
<1>2. QED
  BY <1>1, InFlight DEF NonceTaken

LEMMA SubmitNotRefused ==
    ASSUME CalmState, NEW tx \in sent, tx.call = "submit"
    PROVE  ~Refused(tx)
<1>1. step = "await" /\ tx.list = <<>>
  BY InFlight
<1>2. "relayer" \in relayers
  BY <1>1 DEF CalmState, ReadyInv, Begun
<1>3. 1..Len(tx.list) = {}
  BY <1>1
<1>4. QED
  BY <1>2, <1>3 DEF Refused

LEMMA OneSentStep ==
    ASSUME CalmState, [RunNext]_allVars, Calm', CalmStep
    PROVE  OneSentInv'
<1>a. OneSentInv /\ BaseInv
  BY DEF CalmState
<1>b. /\ key_nonce \in [Senders -> Nat] /\ next_nonce \in [Senders -> Nat]
      /\ Senders = {"relayer", "approver"}
  BY DEF CalmState, BaseInv, RunTypeInv, Senders
<1>1. CASE UNCHANGED <<intents, sent, key_nonce, runVars, done>>
  <2>1. Awaited' = Awaited /\ BatchIds' = BatchIds
    BY <1>1 DEF runVars, Awaited, Run, JobDelegate, BatchIds
  <2>2. \A i \in Ids : Holds(i, Awaited)' <=> Holds(i, Awaited)
    BY <1>1, <2>1 DEF Holds, Delegate
  <2>3. QED
    BY <1>1, <1>a, <2>1, <2>2 DEF OneSentInv, runVars
<1>2. CASE Deployment /\ (DeployStep \/ DeployChanges)
  BY <1>1, <1>2 DEF Deployment, submitVars, chainVars
<1>3. CASE RunnerStep
  <2>a. UNCHANGED <<intents, key_nonce>>
    BY <1>3 DEF RunnerStep, vars, gateVars, submitVars
  <2>1. CASE step' = "idle" /\ sent' = {}
    BY <2>1 DEF OneSentInv
  <2>2. ASSUME NEW j \in Jobs, Start(j) PROVE OneSentInv'
    <3>1. sent = {}
      BY <1>a, <2>2 DEF OneSentInv, Start
    <3>2. \A a \in Senders : key_nonce[a] < next_nonce'[a]
      BY <1>b, <2>2 DEF Start
    <3>3. QED
      BY <2>2, <2>a, <3>1, <3>2 DEF Start, OneSentInv
  <2>3. CASE SendSubmit
    <3>1. sent = {}
      BY <1>a, <2>3 DEF OneSentInv, SendSubmit
    <3>2. PICK tx : /\ sent' = {tx}
                    /\ tx = [by |-> "relayer", nonce |-> next_nonce["relayer"],
                             call |-> "submit", delegate |-> Awaited, list |-> <<>>,
                             attached |-> 0]
      BY <2>3, <3>1 DEF SendSubmit, Broadcast
    <3>3. /\ next_nonce' = [next_nonce EXCEPT !["relayer"] = next_nonce["relayer"] + 1]
          /\ step = "submit" /\ step' = "await" /\ UNCHANGED <<done, job, ids>>
      BY <2>3 DEF SendSubmit, Broadcast
    <3>4. /\ \A a \in Senders : key_nonce[a] < next_nonce'[a]
          /\ key_nonce[tx.by] < tx.nonce /\ tx.nonce < next_nonce'[tx.by]
      BY <1>a, <1>b, <3>2, <3>3 DEF OneSentInv
    <3>5. Awaited' = Awaited
      BY <3>3 DEF Awaited, Run, JobDelegate
    <3>6. \A i \in Ids : ~Holds(i, Awaited)'
      BY <2>a, <3>3, <3>5, NotYetHeld DEF Holds, Delegate
    <3>7. QED
      BY <2>a, <3>2, <3>3, <3>4, <3>5, <3>6 DEF OneSentInv
  <2>4. CASE SendResume
    <3>1. sent = {} /\ MirrorCovers(Len(ids))
      BY <1>a, <2>4 DEF OneSentInv, SendResume, Submitted
    <3>2. PICK tx : /\ sent' = {tx}
                    /\ tx = [by |-> "approver", nonce |-> next_nonce["approver"],
                             call |-> job.kind, delegate |-> None, list |-> BatchIds,
                             attached |-> MirrorFee(Len(ids))]
      BY <2>4, <3>1 DEF SendResume, Broadcast
    <3>3. /\ next_nonce' = [next_nonce EXCEPT !["approver"] = next_nonce["approver"] + 1]
          /\ step = "submit" /\ step' = "wait" /\ UNCHANGED <<done, job, ids>>
      BY <2>4 DEF SendResume, Submitted, Broadcast
    <3>4. /\ \A a \in Senders : key_nonce[a] < next_nonce'[a]
          /\ key_nonce[tx.by] < tx.nonce /\ tx.nonce < next_nonce'[tx.by]
      BY <1>a, <1>b, <3>2, <3>3 DEF OneSentInv
    <3>5. BatchIds' = BatchIds /\ MirrorFee(Len(ids))' = MirrorFee(Len(ids))
          /\ MirrorCovers(Len(ids))'
      BY <3>1, <3>3 DEF BatchIds, MirrorFee, MirrorCovers
    <3>6. QED
      BY <2>a, <3>2, <3>3, <3>4, <3>5 DEF OneSentInv
  <2>5. ASSUME NEW i \in Ids, LearnId(i) PROVE OneSentInv'
    <3>1. sent = {}
      BY <1>a, <2>5 DEF OneSentInv, LearnId
    <3>2. QED
      BY <1>a, <2>5, <2>a, <3>1 DEF OneSentInv, LearnId
  <2>6. QED
    BY <1>3, <1>a, <2>1, <2>2, <2>3, <2>4, <2>5, CalmRunner
<1>4. CASE TransactionStep
  <2>1. PICK tx \in sent : SubmitIncluded(tx) \/ ResumeIncluded(tx) \/ Refused(tx)
    BY <1>4, NeverTaken DEF TransactionStep
  <2>2. Included(tx) /\ UNCHANGED <<step, job, ids, next_nonce, done>>
    BY <1>4, <2>1 DEF TransactionStep, SubmitIncluded, ResumeIncluded, Refused, runVars
  <2>3. sent' = {} /\ step \in {"await", "wait"}
    BY <2>2, InFlight DEF Included
  <2>4. \A a \in Senders : key_nonce'[a] < next_nonce'[a]
    BY <1>a, <1>b, <2>2, <2>3, InFlight DEF Included, OneSentInv
  <2>5. step' = "wait" => MirrorCovers(Len(ids))'
    BY <1>a, <2>2 DEF OneSentInv, MirrorCovers
  <2>6. step' = "await" => \E i \in Ids : Holds(i, Awaited)'
    <3> SUFFICES ASSUME step' = "await" PROVE \E i \in Ids : Holds(i, Awaited)'
      OBVIOUS
    <3>1. tx.call = "submit" /\ tx.delegate = Awaited /\ tx.delegate \in Delegates
      BY <2>2, InFlight DEF Valid
    <3>2. SubmitIntent("relayer", tx.delegate)
      BY <2>1, <3>1, SubmitNotRefused DEF SubmitIncluded, ResumeIncluded
    <3>3. PICK i \in Ids : i = next_intent_id
      BY <3>2 DEF SubmitIntent
    <3>4. intents'[i] = [delegate |-> tx.delegate, at |-> height]
      BY <3>2, <3>3, IntentsType DEF SubmitIntent, BaseInv, CalmState
    <3>5. intents'[i] \in Held
      BY <3>1, <3>4, IdFacts DEF Held, TypeInv, BaseInv, CalmState
    <3>6. intents'[i] # None /\ Delegate(i)' = tx.delegate
      BY <3>4, <3>5, NoneIsNoIntent DEF Delegate
    <3>7. Awaited' = Awaited
      BY <2>2 DEF Awaited, Run, JobDelegate
    <3>8. QED
      BY <3>1, <3>6, <3>7 DEF Holds
  <2>7. QED
    BY <2>3, <2>4, <2>5, <2>6 DEF OneSentInv
<1>5. CASE (GateStep \/ TargetStep) /\ Outside
  <2>1. UNCHANGED intents
    BY <1>5 DEF GateStep, TargetStep, DeliverApprove, DeliverReject, DropStale,
                ContinueChain, ContinueChainPanics, CallSucceeds, CallFails,
                TargetExecutes, submitVars
  <2>2. QED
    BY <1>1, <1>5, <2>1 DEF Outside, chainVars
<1>6. CASE UNCHANGED allVars
  BY <1>1, <1>6 DEF allVars, vars, gateVars, submitVars, chainVars
<1>7. QED
  BY <1>2, <1>3, <1>4, <1>5, <1>6 DEF CalmStep

-----------------------------------------------------------------------------
\* What is in flight

\* A transaction of the runner's that resumes does so for the run under way.
LEMMA ResumeSent ==
    ASSUME CalmState, NEW tx \in sent, tx.call # "submit"
    PROVE  /\ step = "wait" /\ ~Resumed /\ AtRest
           /\ tx.call = job.kind /\ tx.list = BatchIds
           /\ tx.list \in Seq(Ids) /\ Len(tx.list) \in Nat /\ 1 \in 1..Len(tx.list)
           /\ Range(BatchIds) = {BatchIds[k] : k \in 1..Len(BatchIds)}
           /\ tx \in Resuming
<1>1. step = "wait" /\ tx.call = job.kind /\ tx.list = BatchIds
  BY InFlight
<1>2. ~Resumed /\ AtRest
  BY DEF Resumed, CalmState, FlightInv
<1>3. AskedBy(BatchIds, Run) /\ BatchIds \in Seq(Ids)
  BY <1>1, RunUnderWay DEF CalmState
<1>4. Len(BatchIds) \in Nat /\ 1 \in 1..Len(BatchIds)
  BY <1>3, AskedFacts DEF CalmState, BaseInv
<1>5. Range(BatchIds) = {BatchIds[k] : k \in 1..Len(BatchIds)}
  BY <1>3 DEF Range
<1>6. QED
  BY <1>1, <1>2, <1>3, <1>4, <1>5 DEF Resuming

LEMMA FlightStep ==
    ASSUME CalmState, [RunNext]_allVars, Calm', CalmStep
    PROVE  FlightInv'
<1>a. FlightInv /\ BaseInv
  BY DEF CalmState
<1>1. CASE UNCHANGED <<resumes, calls, thens, batch_chain_tail, step, sent, job, ids>>
  BY <1>1, <1>a DEF FlightInv, Resumed, AtRest, BatchIds
<1>2. CASE ~Resumed' /\ UNCHANGED <<resumes, calls, thens, batch_chain_tail>> /\ AtRest
  BY <1>2 DEF FlightInv, AtRest
<1>3. CASE Deployment /\ (DeployStep \/ DeployChanges)
  BY <1>1, <1>3 DEF Deployment, receiptVars, batchVars, chainVars, runVars
<1>4. CASE RunnerStep
  <2>1. UNCHANGED <<resumes, calls, thens, batch_chain_tail>>
    BY <1>4 DEF RunnerStep, vars, gateVars, receiptVars, batchVars
  <2>2. CASE step' = "idle" /\ sent = {} /\ resumes = {} /\ calls = {} /\ thens = {}
    <3>1. AtRest
      BY <2>2, SettledRests DEF AtRest
    <3>2. ~Resumed'
      BY <2>2 DEF Resumed
    <3>3. QED
      BY <1>2, <2>1, <3>1, <3>2
  <2>3. CASE \/ \E j \in Jobs : Start(j)
             \/ SendSubmit \/ SendResume \/ \E i \in Ids : LearnId(i)
    <3>1. ~Resumed /\ ~Resumed'
      BY <2>3 DEF Start, SendSubmit, SendResume, Submitted, Broadcast, LearnId, Resumed
    <3>2. QED
      BY <1>2, <1>a, <2>1, <3>1 DEF FlightInv
  <2>4. QED
    BY <1>4, <1>a, <2>2, <2>3, CalmRunner
<1>5. CASE TransactionStep
  <2>1. PICK tx \in sent : SubmitIncluded(tx) \/ ResumeIncluded(tx) \/ Refused(tx)
    BY <1>5, NeverTaken DEF TransactionStep
  <2>2. Included(tx) /\ UNCHANGED <<step, job, ids>>
    BY <1>5, <2>1 DEF TransactionStep, SubmitIncluded, ResumeIncluded, Refused, runVars
  <2>3. AtRest
    BY <1>a DEF FlightInv, Resumed
  <2>4. CASE UNCHANGED <<resumes, calls, thens, batch_chain_tail>>
    BY <2>3, <2>4 DEF AtRest, FlightInv
  <2>5. CASE ResumeIncluded(tx) /\ tx.call # "submit"
    <3>1. /\ tx.call = job.kind /\ tx.list = BatchIds /\ tx.list \in Seq(Ids)
          /\ 1 \in 1..Len(tx.list)
          /\ Range(BatchIds) = {BatchIds[k] : k \in 1..Len(BatchIds)}
      BY <2>5, ResumeSent
    <3>2. BatchIds' = BatchIds
      BY <2>2 DEF BatchIds
    <3>3. PICK m : /\ resumes' = {m} /\ m.id = tx.list[1]
                   /\ m.approve <=> job.kind # "reject"
                   /\ calls' = {}
                   /\ \/ batch_chain_tail' = <<>>
                      \/ batch_chain_tail' = Tail(tx.list) /\ job.kind = "sequence"
      <4>1. CASE tx.call = "sequence" /\ ResumeBatchChained("approver", tx.list, tx.attached)
        BY <2>3, <3>1, <4>1 DEF ResumeBatchChained, ResumeYield, AtRest
      <4>2. CASE tx.call = "claim" /\ ResumeIntent("approver", tx.list[1], TRUE, tx.attached)
        BY <2>3, <3>1, <4>2 DEF ResumeIntent, ResumeYield, AtRest, batchVars
      <4>3. CASE tx.call = "reject" /\ ResumeIntent("approver", tx.list[1], FALSE, tx.attached)
        BY <2>3, <3>1, <4>3 DEF ResumeIntent, ResumeYield, AtRest, batchVars
      <4>4. QED
        BY <2>5, <4>1, <4>2, <4>3 DEF ResumeIncluded
    <3>4. m.id \in Range(BatchIds)
      BY <3>1, <3>3
    <3>5. \A k \in 1..Len(batch_chain_tail') : batch_chain_tail'[k] \in Range(BatchIds)
      <4>1. \A k \in 1..Len(Tail(tx.list)) :
               k + 1 \in 1..Len(tx.list) /\ Tail(tx.list)[k] = tx.list[k + 1]
        BY <3>1
      <4>2. \A k \in 1..Len(Tail(tx.list)) : Tail(tx.list)[k] \in Range(BatchIds)
        BY <3>1, <4>1
      <4>3. 1..Len(<<>>) = {}
        OBVIOUS
      <4>4. QED
        BY <3>3, <4>2, <4>3
    <3>6. Resumed'
      BY <2>2, <2>5, InFlight DEF Resumed, Included
    <3>7. QED
      BY <2>2, <3>2, <3>3, <3>4, <3>5, <3>6 DEF FlightInv
  <2>6. QED
    BY <2>1, <2>4, <2>5 DEF SubmitIncluded, SubmitIntent, batchVars, ResumeIncluded,
                            Refused, vars, gateVars, receiptVars
<1>6. CASE (GateStep \/ TargetStep) /\ Outside
  <2>1. /\ UNCHANGED <<step, sent, job, ids>> /\ BatchIds' = BatchIds
        /\ Resumed' <=> Resumed
    BY <1>6 DEF Outside, chainVars, runVars, BatchIds, Resumed
  <2>2. Resumed
    BY <1>6, <1>a DEF GateStep, TargetStep, FlightInv, AtRest
  <2>3. ASSUME calls' = calls, resumes' \subseteq resumes, UNCHANGED batch_chain_tail
        PROVE  FlightInv'
    BY <1>a, <2>1, <2>2, <2>3 DEF FlightInv
  <2>4. CASE GateStep
    <3>1. ASSUME NEW m \in resumes, DeliverApprove(m) PROVE FlightInv'
      <4>1. PICK c : /\ calls' = calls \cup {c}
                     /\ c = [id |-> m.id, next |-> m.next, seq |-> NextSeq(m.seq),
                             at |-> height]
        BY <3>1 DEF DeliverApprove
      <4>2. resumes' \subseteq resumes /\ UNCHANGED batch_chain_tail /\ job.kind # "reject"
        BY <1>a, <2>2, <3>1 DEF DeliverApprove, Delivered, batchVars, FlightInv
      <4>3. QED
        BY <1>a, <2>1, <2>2, <4>1, <4>2 DEF FlightInv
    <3>2. ASSUME NEW m \in resumes, DeliverReject(m) \/ DropStale(m) PROVE FlightInv'
      BY <2>3, <3>2 DEF DeliverReject, DropStale, Delivered, batchVars
    <3>3. ASSUME NEW t \in thens, ContinueChain(t) PROVE FlightInv'
      <4>1. PICK m : /\ resumes' = resumes \cup {m}
                     /\ m = [id |-> t.next, approve |-> TRUE, seq |-> t.seq,
                             next |-> FirstOf(Tail(batch_chain_tail)), at |-> height]
        BY <3>3 DEF ContinueChain, ResumeYield
      <4>2. /\ batch_chain_tail' = Tail(batch_chain_tail) /\ calls' = calls
            /\ t.next = FirstOf(batch_chain_tail)
        BY <3>3 DEF ContinueChain, Continuable
      <4>3. batch_chain_tail \in Seq(Ids) /\ t.next # None
        BY IdFacts, GateAssumption DEF CalmState, BaseInv, TypeInv, GateTypeOK, GateAssumption
      <4>4. batch_chain_tail # <<>> /\ t.next = batch_chain_tail[1]
        BY <4>2, <4>3 DEF FirstOf
      <4>5. /\ \A k \in 1..Len(batch_chain_tail') :
                  k + 1 \in 1..Len(batch_chain_tail)
                  /\ batch_chain_tail'[k] = batch_chain_tail[k + 1]
            /\ 1 \in 1..Len(batch_chain_tail)
        BY <4>2, <4>3, <4>4
      <4>6. /\ \A k \in 1..Len(batch_chain_tail) : batch_chain_tail[k] \in Range(BatchIds)
            /\ job.kind # "reject"
        BY <1>a, <2>2, <4>4 DEF FlightInv
      <4>7. /\ m.id \in Range(BatchIds)
            /\ \A k \in 1..Len(batch_chain_tail') : batch_chain_tail'[k] \in Range(BatchIds)
        BY <4>1, <4>4, <4>5, <4>6
      <4>8. QED
        BY <1>a, <2>1, <2>2, <4>1, <4>2, <4>6, <4>7 DEF FlightInv
    <3>4. ASSUME NEW t \in thens, ContinueChainPanics(t) PROVE FlightInv'
      BY <2>3, <3>4 DEF ContinueChainPanics, batchVars
    <3>5. CASE \E m \in resumes : DeliverApprove(m) \/ DeliverReject(m) \/ DropStale(m)
      BY <3>1, <3>2, <3>5
    <3>6. CASE \E t \in thens : ContinueChain(t) \/ ContinueChainPanics(t)
      BY <3>3, <3>4, <3>6
    <3>7. QED
      BY <2>4, <3>5, <3>6 DEF GateStep
  <2>5. CASE TargetStep
    <3>1. calls' \subseteq calls /\ UNCHANGED <<resumes, batch_chain_tail>>
      BY <2>5 DEF TargetStep, CallSucceeds, CallFails, TargetExecutes, batchVars
    <3>2. QED
      BY <1>a, <2>1, <2>2, <3>1 DEF FlightInv
  <2>6. QED
    BY <1>6, <2>4, <2>5
<1>7. CASE UNCHANGED allVars
  BY <1>1, <1>7 DEF allVars, vars, gateVars, receiptVars, batchVars, chainVars, runVars
<1>8. QED
  BY <1>3, <1>4, <1>5, <1>6, <1>7 DEF CalmStep

-----------------------------------------------------------------------------
\* Nobody drops out

\* Where an intent stands, as NoneLostInv has it.
Stands(i) == i \in pending \/ (slot[i].batch > 0 /\ Went(i)) \/ \E r \in Runs : SingleOf(i, r)

LEMMA StandsStep ==
    ASSUME CalmState, [RunNext]_allVars, Calm', CalmStep,
           NEW i \in Ids, i < next_intent_id'
    PROVE  Stands(i)'
<1>a. /\ BaseInv /\ FlightInv /\ RunTypeInv /\ TypeInv /\ LifeInv /\ OwnInv /\ ListsInv
      /\ i \in Nat /\ next_intent_id \in Nat
      /\ slot = [j \in Ids |-> slot[j]] /\ ran_at = [j \in Ids |-> ran_at[j]]
      /\ active_batch_id \in Nat /\ height \in Nat /\ height # None
  BY IdFacts, GateAssumption
     DEF CalmState, BaseInv, TypeInv, GateTypeOK, GateAssumption
<1>b. i < next_intent_id => Stands(i)
  BY DEF CalmState, NoneLostInv, Stands
<1>c. (\E r \in Runs : SingleOf(i, r)) => \E r \in Runs' : SingleOf(i, r)'
  BY <1>a, SingleStays
<1>d. (\E r \in Runs : SingleOf(i, r)) => Stands(i)'
  BY <1>c DEF Stands
<1>1. CASE UNCHANGED <<next_intent_id, pending, slot, ran_at, calls, yields, resumes>>
  BY <1>1, <1>b, <1>d DEF Stands, Went, Called
<1>2. CASE \/ Deployment \/ RunnerStep \/ UNCHANGED allVars
  BY <1>1, <1>2 DEF Deployment, RunnerStep, allVars, vars, gateVars, submitVars,
                    receiptVars, traceVars
<1>3. CASE TransactionStep
  <2>1. PICK tx \in sent : SubmitIncluded(tx) \/ ResumeIncluded(tx) \/ Refused(tx)
    BY <1>3, NeverTaken DEF TransactionStep
  <2>2. CASE SubmitIncluded(tx)
    <3>1. /\ pending' = pending \cup {next_intent_id} /\ yields' = yields \cup {next_intent_id}
          /\ next_intent_id' = next_intent_id + 1 /\ UNCHANGED <<slot, ran_at, calls, resumes>>
      BY <2>2 DEF SubmitIncluded, SubmitIntent, traceVars
    <3>2. CASE i = next_intent_id
      BY <3>1, <3>2 DEF Stands
    <3>3. CASE i < next_intent_id
      BY <1>b, <1>d, <3>1, <3>3 DEF Stands, Went, Called
    <3>4. QED
      BY <1>a, <3>1, <3>2, <3>3
  <2>3. CASE tx.call = "sequence" /\ ResumeBatchChained("approver", tx.list, tx.attached)
    <3>1. tx.list[1] \in Ids
      BY <2>3, ResumeSent
    <3>2. PICK m : /\ resumes' = resumes \cup {m}
                   /\ m = [id |-> tx.list[1], approve |-> TRUE, seq |-> 0,
                           next |-> FirstOf(Tail(tx.list)), at |-> height]
      BY <2>3 DEF ResumeBatchChained, ResumeYield
    <3>3. /\ slot' = [slot EXCEPT ![tx.list[1]] =
                         [batch |-> active_batch_id + 1, seq |-> 0]]
          /\ tx.list[1] \in yields /\ pending' = pending \ {tx.list[1]}
          /\ UNCHANGED <<next_intent_id, ran_at, calls, yields>>
      BY <2>3 DEF ResumeBatchChained, ResumeYield, submitVars
    <3>4. CASE i = tx.list[1]
      <4>1. slot'[i].batch > 0
        BY <1>a, <3>1, <3>3, <3>4
      <4>2. i \in yields' /\ m \in resumes' /\ m.id = i
        BY <3>2, <3>3, <3>4
      <4>3. Went(i)'
        BY <4>2 DEF Went
      <4>4. QED
        BY <4>1, <4>3 DEF Stands
    <3>5. CASE i # tx.list[1]
      <4>1. slot'[i] = slot[i]
        BY <1>a, <3>1, <3>3, <3>5
      <4>2. Went(i) => Went(i)'
        BY <3>2, <3>3 DEF Went, Called
      <4>3. QED
        BY <1>b, <1>d, <3>3, <3>5, <4>1, <4>2 DEF Stands
    <3>6. QED
      BY <3>4, <3>5
  <2>4. ASSUME NEW approve, tx.call # "submit", tx.call # "sequence",
               ResumeIntent("approver", tx.list[1], approve, tx.attached)
        PROVE  Stands(i)'
    <3>1. /\ pending' = pending \ {tx.list[1]} /\ resumes \subseteq resumes'
          /\ UNCHANGED <<next_intent_id, slot, ran_at, calls, yields>>
      BY <2>4 DEF ResumeIntent, ResumeYield, submitVars, traceVars
    <3>2. CASE i = tx.list[1]
      <4>1. tx \in Resuming
        BY <2>4, ResumeSent
      <4>2. QED
        BY <1>a, <1>d, <2>4, <3>2, <4>1, ResumedAlone
    <3>3. CASE i # tx.list[1]
      <4>1. Went(i) => Went(i)'
        BY <3>1 DEF Went, Called
      <4>2. QED
        BY <1>b, <1>d, <3>1, <3>3, <4>1 DEF Stands
    <3>4. QED
      BY <3>2, <3>3
  <2>5. CASE Refused(tx)
    BY <1>1, <2>5 DEF Refused, vars, gateVars, submitVars, receiptVars, traceVars
  <2>6. CASE ResumeIncluded(tx)
    <3>1. CASE tx.call = "claim" /\ ResumeIntent("approver", tx.list[1], TRUE, tx.attached)
      BY <2>4, <3>1
    <3>2. CASE tx.call = "reject" /\ ResumeIntent("approver", tx.list[1], FALSE, tx.attached)
      BY <2>4, <3>2
    <3>3. QED
      BY <2>3, <2>6, <3>1, <3>2 DEF ResumeIncluded
  <2>7. QED
    BY <2>1, <2>2, <2>5, <2>6
<1>4. CASE GateStep /\ Outside
  <2>1. ASSUME NEW m \in resumes, DeliverApprove(m) \/ DeliverReject(m) \/ DropStale(m)
        PROVE  Stands(i)'
    <3>1. /\ UNCHANGED <<next_intent_id, slot, ran_at>> /\ resumes' = resumes \ {m}
          /\ m.id \notin pending
      BY <1>a, <2>1 DEF DeliverApprove, DeliverReject, DropStale, Delivered, submitVars,
                        traceVars, LifeInv
    <3>2. pending' = pending /\ (yields' = yields \/ yields' = yields \ {m.id})
          /\ calls \subseteq calls'
      BY <2>1, <3>1 DEF DeliverApprove, DeliverReject, DropStale, Resolve
    <3>3. CASE i # m.id
      <4>1. Went(i) => Went(i)'
        BY <3>1, <3>2, <3>3 DEF Went, Called
      <4>2. QED
        BY <1>b, <1>d, <3>1, <3>2, <4>1 DEF Stands
    <3>4. CASE i = m.id /\ DeliverApprove(m)
      <4>1. PICK c : /\ calls' = calls \cup {c}
                     /\ c = [id |-> m.id, next |-> m.next, seq |-> NextSeq(m.seq),
                             at |-> height]
        BY <3>4 DEF DeliverApprove
      <4>2. Went(i)'
        BY <3>4, <4>1 DEF Went, Called
      <4>3. QED
        BY <1>b, <1>d, <3>1, <3>2, <4>2 DEF Stands
    <3>5. CASE i = m.id /\ DropStale(m)
      <4>1. i \notin yields /\ yields' = yields
        BY <3>5 DEF DropStale
      <4>2. Went(i) => Went(i)'
        BY <3>1, <3>2, <4>1 DEF Went, Called
      <4>3. QED
        BY <1>b, <1>d, <3>1, <3>2, <4>2 DEF Stands
\* A rejected intent was alone.
    <3>6. CASE i = m.id /\ DeliverReject(m)
      <4>1. Resumed
        BY <1>a DEF FlightInv, AtRest
      <4>2. m.id \in Range(BatchIds) /\ job.kind = "reject"
        BY <1>a, <3>6, <4>1 DEF FlightInv, DeliverReject
      <4>3. /\ Run \in Runs /\ IdsOf(Run) = ids /\ JobOf(Run) = job /\ Len(ids) = Len(job.order)
            /\ job \in Jobs /\ BatchIds \in Seq(Ids) /\ Len(BatchIds) = Len(ids)
        BY <1>a, <4>1, RunUnderWay DEF Resumed
      <4>4. PICK k \in 1..Len(BatchIds) : i = BatchIds[k]
        BY <3>6, <4>2, <4>3 DEF Range
      <4>5. i = ids[job.order[k]] /\ job.order[k] \in 1..Len(ids)
        BY <4>3, <4>4, JobFacts DEF BatchIds, IsPermutation
      <4>6. SingleOf(i, Run)
        BY <4>2, <4>3, <4>5 DEF SingleOf
      <4>7. QED
        BY <1>d, <4>3, <4>6
    <3>7. QED
      BY <2>1, <3>3, <3>4, <3>5, <3>6
  <2>2. ASSUME NEW t \in thens, ContinueChain(t) PROVE Stands(i)'
    <3>1. PICK m : /\ resumes' = resumes \cup {m}
                   /\ m = [id |-> t.next, approve |-> TRUE, seq |-> t.seq,
                           next |-> FirstOf(Tail(batch_chain_tail)), at |-> height]
      BY <2>2 DEF ContinueChain, ResumeYield
    <3>2. /\ slot' = [slot EXCEPT ![t.next] = [batch |-> active_batch_id, seq |-> t.seq]]
          /\ t.next \in yields /\ pending' = pending \ {t.next}
          /\ UNCHANGED <<next_intent_id, ran_at, calls, yields>>
      BY <2>2 DEF ContinueChain, ResumeYield, submitVars
    <3>3. t.next \in Ids /\ active_batch_id > 0
      <4>1. t.next \in Ids /\ t.next # None
        BY <1>a, IdFacts, GateAssumption DEF TypeInv, GateAssumption
      <4>2. batch_chain_tail # <<>>
        BY <2>2, <4>1 DEF ContinueChain, Continuable, FirstOf
      <4>3. QED
        BY <1>a, <4>1, <4>2 DEF BaseInv, StuckInv, TailInv
    <3>4. CASE i = t.next
      <4>1. slot'[i].batch > 0
        BY <1>a, <3>2, <3>3, <3>4
      <4>2. i \in yields' /\ m \in resumes' /\ m.id = i
        BY <3>1, <3>2, <3>4
      <4>3. Went(i)'
        BY <4>2 DEF Went
      <4>4. QED
        BY <4>1, <4>3 DEF Stands
    <3>5. CASE i # t.next
      <4>1. slot'[i] = slot[i]
        BY <1>a, <3>2, <3>3, <3>5
      <4>2. Went(i) => Went(i)'
        BY <3>1, <3>2 DEF Went, Called
      <4>3. QED
        BY <1>b, <1>d, <3>2, <3>5, <4>1, <4>2 DEF Stands
    <3>6. QED
      BY <3>4, <3>5
  <2>3. ASSUME NEW t \in thens, ContinueChainPanics(t) PROVE Stands(i)'
    BY <1>1, <2>3 DEF ContinueChainPanics, submitVars, traceVars
  <2>4. CASE \E t \in thens : ContinueChain(t) \/ ContinueChainPanics(t)
    BY <2>2, <2>3, <2>4
  <2>5. QED
    BY <1>4, <2>1, <2>4 DEF GateStep
<1>5. CASE TargetStep /\ Outside
  <2>1. PICK c \in calls : TargetExecutes(c, TRUE) \/ TargetExecutes(c, FALSE)
    BY <1>5 DEF TargetStep, CallSucceeds, CallFails
  <2>2. /\ calls' = calls \ {c} /\ ran_at' = [ran_at EXCEPT ![c.id] = height]
        /\ UNCHANGED <<next_intent_id, pending, slot, yields, resumes>>
    BY <2>1 DEF TargetExecutes, submitVars
  <2>3. ran_at[i] # None => ran_at'[i] # None
    BY <1>a, <2>2
  <2>4. i = c.id => ran_at'[i] # None
    BY <1>a, <2>2
  <2>5. Went(i) => Went(i)'
    BY <2>2, <2>3, <2>4 DEF Went, Called
  <2>6. QED
    BY <1>b, <1>d, <2>2, <2>5 DEF Stands
<1>6. QED
  BY <1>2, <1>3, <1>4, <1>5 DEF CalmStep

\* The runner attaches what the gate asks for.
LEMMA FeeMirrored ==
    ASSUME CalmState, NEW n
    PROVE  (Covered(n) <=> MirrorCovers(n)) /\ FeeFor(n) = MirrorFee(n)
<1>1. fee_tiers = DefaultFeeTiers
  BY DEF CalmState, ReadyInv
<1>2. Covered(n) <=> MirrorCovers(n)
  BY <1>1 DEF Covered, MirrorCovers
<1>3. FeeFor(n) = MirrorFee(n)
  BY <1>1, Zenon DEF FeeFor, TierFor, MirrorFee
<1>4. QED
  BY <1>2, <1>3

\* The gate takes the batch of a sequence.
LEMMA SequenceNotRefused ==
    ASSUME CalmState, NEW tx \in sent, tx.call = "sequence"
    PROVE  ~Refused(tx)
<1>1. /\ tx.list = BatchIds /\ job.kind = "sequence" /\ step = "wait" /\ AtRest
      /\ tx \in Resuming
  BY ResumeSent
<1>2. /\ AskedBy(BatchIds, Run) /\ JobOf(Run) = job /\ Len(BatchIds) = Len(ids)
      /\ Len(ids) \in Nat
  BY <1>1, RunUnderWay DEF CalmState
<1>3. Covered(Len(tx.list)) /\ tx.attached = FeeFor(Len(tx.list)) /\ FeeFor(Len(tx.list)) \in Nat
  <2>1. tx.attached = MirrorFee(Len(ids)) /\ MirrorCovers(Len(ids)) /\ tx.attached \in Nat
    BY InFlight DEF Tx
  <2>2. QED
    BY <1>1, <1>2, <2>1, FeeMirrored
<1>4. ChainIdle
  BY <1>1 DEF AtRest, ChainIdle
\* Had a member left the pending map, it would stand in a batch of this run's.
<1>5. ASSUME NEW k \in 1..Len(tx.list), tx.list[k] \notin pending PROVE FALSE
  <2>1. PICK i : i = BatchIds[k]
    OBVIOUS
  <2>2. slot[i].batch \in 1..Len(batches) /\ batches[slot[i].batch] = BatchIds
    BY <1>1, <1>2, <1>5, <2>1, MemberFate
  <2>3. QED
    BY <1>1, <2>2 DEF CalmState, BaseInv, OnceInv
<1>6. ~(tx.attached < FeeFor(Len(tx.list)))
  BY <1>3
<1>7. QED
  BY <1>3, <1>4, <1>5, <1>6 DEF Refused

\* Who is listed and still pending stands in the tail.
LEMMA ListedStep ==
    ASSUME CalmState, [RunNext]_allVars, Calm', CalmStep,
           NEW b \in 1..Len(batches'), NEW k \in 1..Len(batches'[b]),
           NEW i, i = batches'[b][k], i \in pending'
    PROVE  i \in Range(batch_chain_tail')
<1>a. /\ BaseInv /\ TypeInv /\ LifeInv
      /\ batches \in Seq(Seq(Ids)) /\ Len(batches) \in Nat
      /\ batch_chain_tail \in Seq(Ids)
  BY BatchesType DEF CalmState, BaseInv, TypeInv, GateTypeOK
<1>b. ASSUME NEW c \in 1..Len(batches), NEW l \in 1..Len(batches[c]), i = batches[c][l]
      PROVE  /\ i # next_intent_id
             /\ i \in pending => i \in Range(batch_chain_tail)
  <2>1. PICK list, r : list = batches[c] /\ r = RunOf(list)
    OBVIOUS
  <2>2. AskedBy(list, r) /\ JobOf(r).kind = "sequence"
    BY <1>a, <2>1 DEF BaseInv, ListsInv
  <2>3. i \in Ids /\ i < next_intent_id
    BY <1>a, <1>b, <2>1, <2>2, MemberFacts
  <2>4. i # next_intent_id
    BY <1>a, <2>3, IdFacts DEF TypeInv
  <2>5. QED
    BY <1>b, <2>4 DEF CalmState, NoneLostInv
<1>1. CASE UNCHANGED <<batches, batch_chain_tail>> /\ pending' \subseteq pending \cup {next_intent_id}
  BY <1>1, <1>b
<1>2. CASE \/ Deployment \/ RunnerStep \/ UNCHANGED allVars
  BY <1>1, <1>2 DEF Deployment, RunnerStep, allVars, vars, gateVars, batchVars
<1>3. CASE TransactionStep
  <2>1. PICK tx \in sent : SubmitIncluded(tx) \/ ResumeIncluded(tx) \/ Refused(tx)
    BY <1>3, NeverTaken DEF TransactionStep
  <2>2. CASE tx.call = "sequence" /\ ResumeBatchChained("approver", tx.list, tx.attached)
    <3>1. /\ batches' = Append(batches, tx.list) /\ pending' = pending \ {tx.list[1]}
          /\ batch_chain_tail = <<>> /\ batch_chain_tail' = Tail(tx.list)
          /\ tx.list \in Seq(Ids) /\ tx.list # <<>>
      BY <2>2, ResumeSent DEF ResumeBatchChained, ChainIdle
    <3>2. CASE b \in 1..Len(batches)
      <4>1. batches'[b] = batches[b]
        BY <1>a, <3>1, <3>2
      <4>2. Range(batch_chain_tail) = {}
        BY <3>1 DEF Range
      <4>3. QED
        BY <1>b, <3>1, <3>2, <4>1, <4>2
    <3>3. CASE b = Len(batches) + 1
      <4>1. batches'[b] = tx.list
        BY <1>a, <3>1, <3>3
      <4>2. k # 1 /\ k \in 1..Len(tx.list) /\ i = tx.list[k]
        BY <3>1, <4>1
      <4>3. k - 1 \in 1..Len(Tail(tx.list)) /\ Tail(tx.list)[k - 1] = i
        BY <3>1, <4>2
      <4>4. DOMAIN Tail(tx.list) = 1..Len(Tail(tx.list))
        BY <3>1
      <4>5. QED
        BY <3>1, <4>3, <4>4 DEF Range
    <3>4. QED
      BY <1>a, <3>1, <3>2, <3>3
  <2>3. QED
    BY <1>1, <2>1, <2>2 DEF SubmitIncluded, SubmitIntent, ResumeIncluded, ResumeIntent,
                            Refused, vars, gateVars, batchVars
<1>4. CASE GateStep /\ Outside
  <2>1. ASSUME NEW t \in thens, ContinueChain(t)
        PROVE  i \in Range(batch_chain_tail')
    <3>1. /\ batches' = batches /\ pending' = pending \ {t.next}
          /\ batch_chain_tail' = Tail(batch_chain_tail)
          /\ FirstOf(batch_chain_tail) = t.next
      BY <2>1 DEF ContinueChain, Continuable
    <3>2. batch_chain_tail # <<>> /\ batch_chain_tail[1] = t.next
      <4>1. t.next \in Ids /\ t.next # None
        BY <1>a, IdFacts, GateAssumption DEF TypeInv, GateAssumption
      <4>2. QED
        BY <1>a, <3>1, <4>1 DEF FirstOf
    <3>3. PICK n \in 1..Len(batch_chain_tail) : i = batch_chain_tail[n]
      <4>1. b \in 1..Len(batches) /\ k \in 1..Len(batches[b]) /\ i = batches[b][k] /\ i \in pending
        BY <3>1
      <4>2. i \in Range(batch_chain_tail)
        BY <1>b, <4>1
      <4>3. QED
        BY <1>a, <4>2 DEF Range
    <3>4. n # 1
      BY <3>1, <3>2, <3>3
    <3>5. /\ n - 1 \in 1..Len(Tail(batch_chain_tail))
          /\ Tail(batch_chain_tail)[n - 1] = i
          /\ DOMAIN Tail(batch_chain_tail) = 1..Len(Tail(batch_chain_tail))
      BY <1>a, <3>2, <3>3, <3>4
    <3>6. QED
      BY <3>1, <3>5 DEF Range
  <2>2. QED
    BY <1>1, <1>4, <2>1 DEF GateStep, DeliverApprove, DeliverReject, DropStale, Resolve,
                            ContinueChainPanics, batchVars
<1>5. CASE TargetStep /\ Outside
  BY <1>1, <1>5 DEF TargetStep, CallSucceeds, CallFails, TargetExecutes, batchVars
<1>6. QED
  BY <1>2, <1>3, <1>4, <1>5 DEF CalmStep

\* Once a sequence is resumed, its batch is the latest.
LEMMA LatestStep ==
    ASSUME CalmState, [RunNext]_allVars, Calm', CalmStep, Resumed', job'.kind = "sequence"
    PROVE  Len(batches') > 0 /\ batches'[Len(batches')] = BatchIds'
<1>a. /\ batches \in Seq(Seq(Ids)) /\ Len(batches) \in Nat
  BY BatchesType DEF CalmState, BaseInv
<1>1. CASE UNCHANGED <<batches, step, sent, job, ids>>
  BY <1>1 DEF Resumed, CalmState, NoneLostInv, BatchIds
<1>2. CASE Deployment \/ UNCHANGED allVars
  BY <1>1, <1>2 DEF Deployment, batchVars, runVars, chainVars, allVars, vars, gateVars
<1>3. CASE RunnerStep
  BY <1>3, CalmRunner DEF CalmState, Resumed, Start, SendSubmit, SendResume, Broadcast,
                          LearnId
<1>4. CASE TransactionStep
  <2>1. PICK tx \in sent : SubmitIncluded(tx) \/ ResumeIncluded(tx) \/ Refused(tx)
    BY <1>4, NeverTaken DEF TransactionStep
  <2>2. UNCHANGED <<step, job, ids>> /\ BatchIds' = BatchIds
    BY <1>4 DEF TransactionStep, runVars, BatchIds
  <2>3. tx.call = "sequence" /\ tx.list = BatchIds
    BY <2>2, InFlight DEF Resumed
  <2>4. ResumeBatchChained("approver", tx.list, tx.attached)
    BY <2>1, <2>3, SequenceNotRefused DEF SubmitIncluded, ResumeIncluded
  <2>5. batches' = Append(batches, BatchIds)
    BY <2>3, <2>4 DEF ResumeBatchChained
  <2>6. QED
    BY <1>a, <2>2, <2>5
<1>5. CASE (GateStep \/ TargetStep) /\ Outside
  <2>1. UNCHANGED batches
    BY <1>5 DEF GateStep, TargetStep, DeliverApprove, DeliverReject, DropStale,
                ContinueChain, ContinueChainPanics, CallSucceeds, CallFails,
                TargetExecutes, batchVars
  <2>2. QED
    BY <1>1, <1>5, <2>1 DEF Outside, runVars, chainVars
<1>6. QED
  BY <1>2, <1>3, <1>4, <1>5 DEF CalmStep

LEMMA NoneLostStep ==
    ASSUME CalmState, [RunNext]_allVars, Calm', CalmStep
    PROVE  NoneLostInv'
<1>1. \A i \in Ids : i < next_intent_id' => Stands(i)'
  BY StandsStep
<1>2. \A b \in 1..Len(batches') : \A k \in 1..Len(batches'[b]) :
         batches'[b][k] \in pending' => batches'[b][k] \in Range(batch_chain_tail')
  BY ListedStep
<1>3. Resumed' /\ job'.kind = "sequence" =>
         Len(batches') > 0 /\ batches'[Len(batches')] = BatchIds'
  BY LatestStep
<1>4. QED
  BY <1>1, <1>2, <1>3 DEF NoneLostInv, Stands

-----------------------------------------------------------------------------
\* The target's log grows by the batch alone

\* The value a register shows is the last one set.
LEMMA CurrentStep ==
    ASSUME CalmState, [RunNext]_allVars, Calm', CalmStep, log' # <<>>
    PROVE  current' = log'[Len(log')]
<1>a. log \in Seq(Amounts) /\ (log # <<>> => current = log[Len(log)])
  BY DEF CalmState, BaseInv, LogInv, ProgressInv
<1>1. CASE UNCHANGED registerVars
  BY <1>a, <1>1 DEF registerVars
<1>2. ASSUME NEW c \in calls, CallSucceeds(c), Set(Delegate(c.id).value)
      PROVE  current' = log'[Len(log')]
  BY <1>a, <1>2 DEF Set
<1>3. CASE TargetStep
  BY <1>1, <1>2, <1>3 DEF TargetStep, CallSucceeds, CallFails
<1>4. CASE \/ Deployment \/ RunnerStep \/ TransactionStep \/ GateStep \/ UNCHANGED allVars
  BY <1>1, <1>4 DEF Deployment, RunnerStep, TransactionStep, GateStep, allVars, targetVars
<1>5. QED
  BY <1>3, <1>4 DEF CalmStep

\* Before the resume, and after a rejection, nobody calls the target.
LEMMA TargetWaits ==
    ASSUME CalmState, [RunNext]_allVars, Calm', CalmStep,
           step' # "idle", ~Resumed' \/ job'.kind = "reject"
    PROVE  State(job.target)' = pre'
<1>a. step # "idle" /\ (~Resumed \/ job.kind = "reject") => State(job.target) = pre
  BY DEF CalmState, ProgressInv
<1>1. ASSUME UNCHANGED <<targetVars, job, pre>>, step # "idle" /\ (~Resumed \/ job.kind = "reject")
      PROVE  State(job.target)' = pre'
  BY <1>a, <1>1 DEF State, targetVars, registerVars, ftVars, Get, BalanceOf, GetTransferLog
<1>2. CASE Deployment
  BY <1>2 DEF Deployment, Begun, runVars
<1>3. CASE RunnerStep
  <2>1. UNCHANGED targetVars
    BY <1>3 DEF RunnerStep
  <2>2. ASSUME NEW j \in Jobs, Start(j) PROVE State(job.target)' = pre'
    BY <2>1, <2>2 DEF Start, State, targetVars, registerVars, ftVars, Get, BalanceOf,
                      GetTransferLog
  <2>3. CASE SendSubmit \/ SendResume \/ \E i \in Ids : LearnId(i)
    BY <1>1, <2>1, <2>3 DEF SendSubmit, SendResume, Submitted, Broadcast, LearnId, Resumed
  <2>4. QED
    BY <1>3, <2>2, <2>3, CalmRunner DEF CalmState
<1>4. CASE TransactionStep
  <2>1. ~Resumed /\ step # "idle" /\ UNCHANGED <<targetVars, job, pre>>
    <3>1. UNCHANGED <<targetVars, step, job, pre>> /\ sent # {}
      BY <1>4 DEF TransactionStep, runVars
    <3>2. QED
      BY <3>1 DEF Resumed
  <2>2. QED
    BY <1>1, <2>1
<1>5. CASE GateStep /\ Outside
  BY <1>1, <1>5 DEF GateStep, Outside, runVars, chainVars, Resumed
<1>6. CASE TargetStep /\ Outside
  <2>1. calls # {} /\ (Resumed' <=> Resumed) /\ job' = job
    BY <1>6 DEF TargetStep, Outside, runVars, chainVars, Resumed
  <2>2. Resumed /\ job.kind # "reject"
    BY <2>1 DEF CalmState, FlightInv, AtRest
  <2>3. QED
    BY <2>1, <2>2
<1>7. CASE UNCHANGED allVars
  BY <1>1, <1>7 DEF allVars, runVars, chainVars, Resumed
<1>8. QED
  BY <1>2, <1>3, <1>4, <1>5, <1>6, <1>7 DEF CalmStep

\* The next member to run is the one behind those that have.
LEMMA NextToRun ==
    ASSUME CalmState, Resumed, job.kind = "sequence",
           NEW c \in calls, NEW m \in 0..Len(BatchIds), Grown(BatchIds, job.target, m)
    PROVE  /\ m + 1 \in 1..Len(BatchIds) /\ BatchIds[m + 1] = c.id
           /\ c.id \in Ids /\ Delegate(c.id).target = job.target
<1>a. /\ BaseInv /\ RunTypeInv /\ TypeInv /\ OwnInv /\ ListsInv /\ TurnInv
      /\ CoordinatorOrder /\ LifeInv
  BY DEF CalmState, BaseInv
<1>b. /\ AskedBy(BatchIds, Run) /\ JobOf(Run) = job /\ BatchIds \in Seq(Ids)
      /\ Len(BatchIds) \in Nat
  BY <1>a, RunUnderWay DEF Resumed
<1>1. PICK k \in 1..Len(BatchIds) : BatchIds[k] = c.id
  BY <1>b DEF CalmState, FlightInv, Range
<1>2. PICK i \in Ids : i = c.id
  BY <1>a, IdFacts DEF TypeInv
<1>3. ran_at[i] = None /\ Approached(i)
  BY <1>a, <1>2 DEF LifeInv, Approached, Called
<1>4. k > m
  BY <1>1, <1>2, <1>3 DEF Grown
<1>5. /\ slot[i].batch \in 1..Len(batches) /\ slot[i].seq = k - 1
      /\ batches[slot[i].batch] = BatchIds
  BY <1>a, <1>b, <1>1, <1>2, <1>3, InPlace
<1>6. ASSUME k > 1 PROVE k = m + 1
  <2>1. slot[i].batch > 0 /\ slot[i].seq > 0
    BY <1>b, <1>5, <1>6, BatchesType
  <2>2. ran_at[batches[slot[i].batch][slot[i].seq]] # None
    BY <1>a, <2>1 DEF CoordinatorOrder
  <2>3. k - 1 \in 1..Len(BatchIds) /\ ran_at[BatchIds[k - 1]] # None
    BY <1>b, <1>5, <1>6, <2>2
  <2>4. k - 1 <= m
    BY <2>3 DEF Grown
  <2>5. QED
    BY <1>b, <1>4, <2>4
<1>7. k = m + 1
  BY <1>b, <1>4, <1>6
<1>8. Delegate(c.id).target = job.target
  <2>1. Delegate(BatchIds[k]) = JobDelegate(Run, job, job.order[k])
    BY <1>a, <1>b, AskedFacts
  <2>2. QED
    BY <1>1, <2>1 DEF JobDelegate
<1>9. m + 1 \in 1..Len(BatchIds) /\ BatchIds[m + 1] = c.id
  BY <1>1, <1>7
<1>10. QED
  BY <1>2, <1>8, <1>9

LEMMA GrownStep ==
    ASSUME CalmState, [RunNext]_allVars, Calm', CalmStep,
           Resumed', job'.kind = "sequence", Range(ids') \cap failed' = {}
    PROVE  \E m \in 0..Len(BatchIds') : Grown(BatchIds, job.target, m)'
<1>a. /\ BaseInv /\ LifeInv /\ TypeInv
      /\ ran_at = [j \in Ids |-> ran_at[j]] /\ height # None
  BY GateAssumption DEF CalmState, BaseInv, TypeInv, GateTypeOK, GateAssumption
<1>b. Resumed /\ job.kind = "sequence" /\ Range(ids) \cap failed = {} =>
         \E m \in 0..Len(BatchIds) : Grown(BatchIds, job.target, m)
  BY DEF CalmState, ProgressInv
<1>1. CASE UNCHANGED <<ran_at, entries, failed, step, sent, job, ids>>
  <2>1. BatchIds' = BatchIds /\ Resumed
    BY <1>1 DEF BatchIds, Resumed
  <2>2. QED
    BY <1>1, <1>b, <2>1 DEF Grown
<1>2. CASE Deployment \/ UNCHANGED allVars
  BY <1>1, <1>2 DEF Deployment, traceVars, logVars, runVars, chainVars, allVars, vars, gateVars,
                    targetVars
<1>3. CASE RunnerStep
  BY <1>3, CalmRunner DEF CalmState, Resumed, Start, SendSubmit, SendResume, Broadcast,
                          LearnId
<1>4. CASE TransactionStep
  <2>1. PICK tx \in sent : SubmitIncluded(tx) \/ ResumeIncluded(tx) \/ Refused(tx)
    BY <1>4, NeverTaken DEF TransactionStep
  <2>2. UNCHANGED <<step, job, ids, entries>> /\ BatchIds' = BatchIds
    BY <1>4 DEF TransactionStep, runVars, BatchIds, targetVars, logVars
  <2>3. tx.call = "sequence" /\ tx.list = BatchIds
    BY <2>2, InFlight DEF Resumed
  <2>4. ResumeBatchChained("approver", tx.list, tx.attached)
    BY <2>1, <2>3, SequenceNotRefused DEF SubmitIncluded, ResumeIncluded
  <2>5. /\ ran_at' = ran_at /\ \A k \in 1..Len(BatchIds) : BatchIds[k] \in pending
    BY <2>3, <2>4 DEF ResumeBatchChained
  <2>6. \A k \in 1..Len(BatchIds) : ran_at[BatchIds[k]] = None
    BY <1>a, <2>5 DEF LifeInv
  <2>7. /\ AskedBy(BatchIds, Run) /\ Len(BatchIds) \in Nat /\ job \in Jobs
    BY <1>a, <2>3, RunUnderWay, InFlight
  <2>8. Len(entries[job.target]) \in Nat
    <3>1. job.target \in {"register", "ftShim"}
      BY <2>7, JobFacts
    <3>2. QED
      BY <1>a, <3>1 DEF BaseInv, LogInv
  <2>9. Grown(BatchIds, job.target, 0)'
    BY <2>2, <2>5, <2>6, <2>8 DEF Grown
  <2>10. QED
    BY <2>2, <2>7, <2>9
<1>5. CASE GateStep /\ Outside
  <2>1. UNCHANGED <<ran_at, entries, failed>>
    BY <1>5 DEF GateStep, DeliverApprove, DeliverReject, DropStale, ContinueChain,
                ContinueChainPanics, traceVars, targetVars, logVars
  <2>2. QED
    BY <1>1, <1>5, <2>1 DEF Outside, runVars, chainVars
<1>6. CASE TargetStep /\ Outside
  <2>1. PICK c \in calls : CallSucceeds(c) \/ CallFails(c)
    BY <1>6 DEF TargetStep
  <2>2. UNCHANGED <<step, sent, job, ids>> /\ BatchIds' = BatchIds /\ Resumed
    BY <1>6 DEF Outside, runVars, chainVars, BatchIds, Resumed
  <2>3. Range(ids) \cap failed = {}
    BY <2>1, <2>2 DEF CallSucceeds, CallFails
  <2>4. PICK m \in 0..Len(BatchIds) : Grown(BatchIds, job.target, m)
    BY <1>b, <2>2, <2>3
  <2>5. /\ m + 1 \in 1..Len(BatchIds) /\ BatchIds[m + 1] = c.id
        /\ c.id \in Ids /\ Delegate(c.id).target = job.target
    BY <2>2, <2>4, NextToRun
  <2>6. /\ AskedBy(BatchIds, Run) /\ Len(BatchIds) \in Nat /\ job \in Jobs
        /\ JobOf(Run) = job /\ ids \in Seq(Ids) /\ Len(BatchIds) = Len(ids)
        /\ \A k \in 1..Len(BatchIds) : BatchIds[k] \in Ids
    BY <1>a, <2>2, RunUnderWay DEF Resumed
  <2>7. ~CallFails(c)
    <3>1. c.id \in Range(ids)
      <4>1. BatchIds[m + 1] = ids[job.order[m + 1]] /\ job.order[m + 1] \in 1..Len(ids)
        BY <2>5, <2>6, JobFacts DEF BatchIds, IsPermutation
      <4>2. QED
        BY <2>5, <2>6, <4>1 DEF Range
    <3>2. QED
      BY <2>2, <3>1 DEF CallFails
  <2>8. PICK t : t = job.target
    OBVIOUS
  <2>9. t \in {"register", "ftShim"}
    BY <2>6, <2>8, JobFacts
  <2>10. PICK list : list = entries[t]
    OBVIOUS
  <2>11. list \in Seq(Ids \cup {None}) /\ DOMAIN entries = {"register", "ftShim"}
    BY <1>a, <2>9, <2>10 DEF BaseInv, LogInv
  <2>12. entries'[t] = Append(list, c.id)
    BY <2>1, <2>5, <2>7, <2>8, <2>9, <2>10, <2>11 DEF CallSucceeds
  <2>13. /\ Len(entries'[t]) = Len(list) + 1 /\ entries'[t][Len(list) + 1] = c.id
         /\ \A p \in 1..Len(list) : entries'[t][p] = list[p]
         /\ Len(list) \in Nat
    BY <2>5, <2>11, <2>12
  <2>14. ran_at' = [ran_at EXCEPT ![c.id] = height]
    BY <2>1, <2>7 DEF CallSucceeds, TargetExecutes
  <2>15. ASSUME NEW k \in 1..Len(BatchIds)
         PROVE  ran_at'[BatchIds[k]] # None <=> k <= m + 1
    <3>1. CASE k = m + 1
      BY <1>a, <2>5, <2>14, <3>1
    <3>2. CASE k # m + 1
      <4>1. BatchIds[k] # c.id
        BY <1>a, <2>5, <2>6, <3>2, MembersDiffer
      <4>2. ran_at'[BatchIds[k]] = ran_at[BatchIds[k]]
        BY <1>a, <2>6, <2>14, <4>1
      <4>3. ran_at[BatchIds[k]] # None <=> k <= m
        BY <2>4 DEF Grown
      <4>4. QED
        BY <3>2, <4>2, <4>3
    <3>3. QED
      BY <3>1, <3>2
  <2>16. /\ m <= Len(list) /\ m \in Nat
         /\ \A k \in 1..m : list[Len(list) - m + k] = BatchIds[k]
    BY <2>4, <2>8, <2>10 DEF Grown
  <2>17. ASSUME NEW k \in 1..(m + 1)
         PROVE  entries'[t][Len(list) + 1 - (m + 1) + k] = BatchIds[k]
    <3>1. CASE k = m + 1
      BY <2>5, <2>13, <2>16, <3>1
    <3>2. CASE k \in 1..m
      <4>1. Len(list) - m + k \in 1..Len(list)
        BY <2>13, <2>16, <3>2
      <4>2. Len(list) + 1 - (m + 1) + k = Len(list) - m + k
        BY <2>13, <2>16, <3>2
      <4>3. QED
        BY <2>13, <2>16, <3>2, <4>1, <4>2
    <3>3. QED
      BY <2>16, <3>1, <3>2
  <2>18. Grown(BatchIds, job.target, m + 1)'
    <3>1. m + 1 <= Len(entries'[t])
      BY <2>13, <2>16
    <3>2. job'.target = t
      BY <2>2, <2>8
    <3>3. \A k \in 1..(m + 1) : entries'[t][Len(entries'[t]) - (m + 1) + k] = BatchIds[k]
      <4>1. PICK size, grown : size = Len(list) + 1 /\ grown = entries'[t]
        OBVIOUS
      <4>2. size = Len(grown)
        BY <2>13, <4>1
      <4>3. \A k \in 1..(m + 1) : grown[size - (m + 1) + k] = BatchIds[k]
        BY <2>17, <4>1
      <4>4. QED
        BY <4>1, <4>2, <4>3, Zenon
    <3>4. \A k \in 1..Len(BatchIds') : ran_at'[BatchIds'[k]] # None <=> k <= m + 1
      BY <2>2, <2>15
    <3>5. \A k \in 1..(m + 1) :
             entries'[job'.target][Len(entries'[job'.target]) - (m + 1) + k] = BatchIds'[k]
      BY <2>2, <3>2, <3>3
    <3>6. m + 1 <= Len(entries'[job'.target])
      BY <3>1, <3>2
    <3>7. QED
      BY <3>4, <3>5, <3>6 DEF Grown
  <2>19. QED
    BY <2>2, <2>5, <2>18
<1>7. QED
  BY <1>2, <1>3, <1>4, <1>5, <1>6 DEF CalmStep

LEMMA ProgressStep ==
    ASSUME CalmState, [RunNext]_allVars, Calm', CalmStep
    PROVE  ProgressInv'
<1>1. log' # <<>> => current' = log'[Len(log')]
  BY CurrentStep
<1>2. step' # "idle" /\ (~Resumed' \/ job'.kind = "reject") => State(job.target)' = pre'
  BY TargetWaits
<1>3. Resumed' /\ job'.kind = "sequence" /\ Range(ids') \cap failed' = {} =>
         \E m \in 0..Len(BatchIds') : Grown(BatchIds, job.target, m)'
  BY GrownStep
<1>4. QED
  BY <1>1, <1>2, <1>3 DEF ProgressInv

-----------------------------------------------------------------------------
\* What a run reports

LEMMA CalmInvStep ==
    ASSUME BaseInv, OfferInv, CalmInv, [RunNext]_allVars
    PROVE  CalmInv'
<1> SUFFICES ASSUME Calm'
             PROVE  (ReadyInv /\ OneSentInv /\ FlightInv /\ NoneLostInv /\ ProgressInv)'
  BY DEF CalmInv
<1>1. Calm /\ CalmStep
  BY CalmSteps
<1>2. CalmState
  BY <1>1 DEF CalmState, CalmInv
<1>3. QED
  BY <1>1, <1>2, ReadyStep, OneSentStep, FlightStep, NoneLostStep, ProgressStep

LEMMA CalmStart ==
    ASSUME RunInit PROVE OfferInv /\ CalmInv
<1>1. Init /\ DeployInit /\ RegisterInit
  BY DEF RunInit
<1>2. /\ step = "idle" /\ done = <<>> /\ sent = {} /\ log = <<>>
      /\ batches = <<>> /\ batch_chain_tail = <<>> /\ next_intent_id = 0
      /\ intents = [i \in Ids |-> None] /\ resumes = {} /\ calls = {} /\ thens = {}
      /\ fee_tiers = DefaultFeeTiers
  BY <1>1 DEF RunInit, Init, FeeInit, RegisterInit
<1>3. ~tainted /\ ~deployed
  BY <1>1 DEF DeployInit
<1>4. Ids \subseteq Nat /\ 1..Len(batches) = {}
  BY <1>2, IdsAreNat
<1>5. OfferInv
  BY <1>2 DEF OfferInv
<1>6. ReadyInv /\ OneSentInv
  BY <1>2, <1>3 DEF ReadyInv, OneSentInv, Begun
<1>7. FlightInv /\ NoneLostInv /\ ProgressInv
  BY <1>2, <1>4 DEF FlightInv, NoneLostInv, ProgressInv, Resumed, AtRest
<1>8. QED
  BY <1>5, <1>6, <1>7 DEF CalmInv

\* Who ends a run.
LEMMA EndsOfRuns ==
    ASSUME [RunNext]_allVars, done' # done
    PROVE  \/ Finish(job, "interrupted")
           \/ /\ RunnerStep
              /\ \/ \E j \in Jobs : StartThrows(j)
                 \/ AwaitThrows \/ FeeThrows \/ Compare
<1>1. RunInterrupted \/ RunnerStep
  BY DEF RunNext, Deployment, TransactionStep, TransactionLost, ChainStep, allVars
<1>2. QED
  BY <1>1 DEF RunInterrupted, RunnerStep, Start, SendSubmit, SendResume, Broadcast, LearnId

\* Once the batch has run, its values are the last of the target's log.
LEMMA BatchShown ==
    ASSUME CalmState, Resumed, AtRest, job.kind = "sequence", Range(ids) \cap failed = {}
    PROVE  Matches
<1>a. BaseInv /\ RunTypeInv /\ OwnInv /\ LogInv
  BY DEF CalmState, BaseInv
<1>n. PICK t, n, order, own :
         t = job.target /\ n = Len(BatchIds) /\ order = job.order /\ own = BatchIds
  OBVIOUS
<1>b. /\ AskedBy(own, Run) /\ JobOf(Run) = job /\ job \in Jobs
      /\ own \in Seq(Ids) /\ n \in Nat /\ Len(own) = n
      /\ Len(ids) = Len(order) /\ n = Len(ids)
  BY <1>a, <1>n, RunUnderWay DEF Resumed
<1>c. /\ t \in {"register", "ftShim"} /\ order \in Seq(Nat) /\ Len(order) = n /\ n >= 1
  <2>1. /\ t \in {"register", "ftShim"} /\ order \in Seq(Nat) /\ Len(order) \in 1..MaxBatch
    BY <1>b, <1>n, JobFacts
  <2>2. MaxBatch \in Nat
    BY FeeAssumption DEF FeeAssumption
  <2>3. QED
    BY <1>b, <2>1, <2>2
<1>1. PICK m \in 0..n : Grown(own, t, m)
  BY <1>n DEF CalmState, ProgressInv
<1>2. m = n
  <2>1. ran_at[own[n]] # None
    BY <1>b, <1>c, <1>n, SettledRan
  <2>2. QED
    BY <1>b, <1>c, <1>1, <2>1 DEF Grown
<1>s. PICK list, shown : list = entries[t] /\ shown = Shown(t)
  OBVIOUS
<1>3. /\ list \in Seq(Ids \cup {None}) /\ shown \in Seq(Amounts) /\ Len(shown) = Len(list)
      /\ \A p \in 1..Len(list) : Shows(list[p], shown[p])
      /\ Len(list) \in Nat
  <2>1. LogInv /\ t \in {"register", "ftShim"}
    BY <1>a, <1>c
  <2>2. /\ entries[t] \in Seq(Ids \cup {None}) /\ Shown(t) \in Seq(Amounts)
        /\ Len(Shown(t)) = Len(entries[t])
        /\ \A p \in 1..Len(entries[t]) : Shows(entries[t][p], Shown(t)[p])
    BY <2>1, ShownFacts, Zenon
  <2>3. /\ list \in Seq(Ids \cup {None}) /\ shown \in Seq(Amounts) /\ Len(shown) = Len(list)
        /\ \A p \in 1..Len(list) : Shows(list[p], shown[p])
    BY <1>s, <2>2, Zenon
  <2>4. Len(list) \in Nat
    BY <2>3
  <2>5. QED
    BY <2>3, <2>4
<1>4. n <= Len(list) /\ \A k \in 1..n : list[Len(list) - n + k] = own[k]
  <2>1. Grown(own, t, n)
    BY <1>1, <1>2
  <2>2. /\ n <= Len(entries[t])
        /\ \A k \in 1..n : entries[t][Len(entries[t]) - n + k] = own[k]
    BY <2>1, Zenon DEF Grown
  <2>3. QED
    BY <1>s, <2>2, Zenon
<1>5. ASSUME NEW k \in 1..n
      PROVE  shown[Len(shown) - n + k] = order[k]
  <2> PICK p : p = Len(list) - n + k
    OBVIOUS
  <2>1. p \in 1..Len(list) /\ list[p] = own[k]
    BY <1>b, <1>3, <1>4
  <2>2. own[k] \in Ids /\ own[k] # None
    BY <1>b, IdsAreNat, GateAssumption DEF GateAssumption
  <2>3. shown[p] = Delegate(own[k]).value
    BY <1>3, <2>1, <2>2 DEF Shows
  <2>4. Delegate(own[k]) = JobDelegate(Run, job, order[k])
    BY <1>a, <1>b, <1>n, AskedFacts
  <2>5. Delegate(own[k]).value = order[k]
    BY <2>4 DEF JobDelegate, Value
  <2>6. QED
    BY <1>3, <2>3, <2>5
<1>6. /\ Expected = [k \in 1..n |-> order[k]] /\ Len(Expected) = n
      /\ Expected[Len(Expected)] = order[n]
  <2>1. Expected = [k \in 1..n |-> order[k]]
    BY <1>c, <1>n DEF Expected, Value
  <2>2. Len([k \in 1..n |-> order[k]]) = n
    BY <1>b
  <2>3. QED
    BY <1>c, <2>1, <2>2
<1>7. LastOf(shown, n) = Expected
  <2>1. LastOf(shown, n) = SubSeq(shown, Len(shown) - n + 1, Len(shown))
    BY <1>3, <1>4 DEF LastOf
  <2> PICK tail : tail = SubSeq(shown, Len(shown) - n + 1, Len(shown))
    OBVIOUS
  <2>2. /\ tail \in Seq(Amounts) /\ Len(tail) = n
        /\ \A k \in 1..n : tail[k] = shown[Len(shown) - n + k]
    BY <1>b, <1>3, <1>4
  <2>3. tail = [k \in 1..n |-> order[k]]
    <3>1. tail = [k \in 1..n |-> tail[k]]
      BY <1>b, <2>2
    <3>2. QED
      BY <1>5, <2>2, <3>1
  <2>4. QED
    BY <1>6, <2>1, <2>3
<1>8. t = "register" => current = Expected[Len(Expected)]
  <2> SUFFICES ASSUME t = "register" PROVE current = order[n]
    BY <1>6
  <2>1. shown = log
    BY <1>s DEF Shown, Get
  <2>2. log # <<>> /\ Len(log) \in Nat
    BY <1>c, <1>3, <1>4, <2>1
  <2>3. current = log[Len(log)]
    BY <2>2 DEF CalmState, ProgressInv
  <2>4. shown[Len(shown) - n + n] = order[n]
    BY <1>b, <1>c, <1>5
  <2>5. Len(log) - n + n = Len(log)
    BY <1>b, <2>2
  <2>6. QED
    BY <2>1, <2>3, <2>4, <2>5
<1>9. QED
  BY <1>6, <1>7, <1>8, <1>n, <1>s DEF Matches

\* What a run reports of trouble, and what TroubleExplained asks of its record.
Troubles == {"MISMATCH", "changed", "threw"}

Judged(runs, r) ==
    runs[r].verdict \in Troubles =>
        \/ runs[r].mishaps > 0 \/ runs[r].strays > 0
        \/ \E q \in 1..r : ~runs[q].settled
        \/ Range(runs[r].ids) \cap runs[r].failed # {}
        \/ ~MirrorCovers(Len(runs[r].job.order))

\* No run that ends in the calm reports trouble, if its transfers and its fee are taken.
LEMMA NoTrouble ==
    ASSUME BaseInv, OfferInv, CalmInv, [RunNext]_allVars, Calm', RunnerStep,
           Range(ids) \cap failed = {}
    PROVE  /\ \A j \in Jobs : ~StartThrows(j)
           /\ ~AwaitThrows
           /\ MirrorCovers(Len(job.order)) => ~FeeThrows
           /\ Compare => Verdict \notin Troubles
<1>a. CalmState
  BY CalmSteps DEF CalmState, CalmInv
<1>1. ASSUME NEW j \in Jobs, StartThrows(j) PROVE FALSE
  <2>1. ~tainted /\ deployed /\ ~CanStart(j)
    BY <1>a, <1>1 DEF CalmState, ReadyInv, StartThrows
  <2>2. Users \subseteq keys /\ "ftShim" \in initialised
    BY <2>1, InvCompletes DEF BaseInv, DeployComplete
  <2>3. QED
    BY <2>1, <2>2 DEF CanStart
<1>2. ~AwaitThrows
  BY <1>a DEF AwaitThrows, CalmState, OneSentInv
<1>3. MirrorCovers(Len(job.order)) => ~FeeThrows
  BY DEF FeeThrows, Submitted
<1>4. ASSUME Compare PROVE Verdict \notin Troubles
  <2>1. sent = {} /\ resumes = {} /\ calls = {} /\ thens = {} /\ step = "wait"
    BY <1>4, CalmEnd DEF Compare
  <2>2. Resumed /\ AtRest
    BY <1>a, <2>1, SettledRests DEF Resumed, AtRest
  <2>3. CASE job.kind = "sequence"
    <3>1. Matches
      BY <1>a, <2>2, <2>3, BatchShown
    <3>2. QED
      BY <2>3, <3>1 DEF Verdict, Troubles
  <2>4. CASE job.kind = "reject"
    <3>1. State(job.target) = pre
      BY <1>a, <2>1, <2>4 DEF CalmState, ProgressInv
    <3>2. QED
      BY <2>4, <3>1 DEF Verdict, Troubles
  <2>5. CASE job.kind # "sequence" /\ job.kind # "reject"
    BY <2>5 DEF Verdict, Troubles
  <2>6. QED
    BY <2>3, <2>4, <2>5
<1>5. QED
  BY <1>1, <1>2, <1>3, <1>4

LEMMA TroubleStep ==
    ASSUME BaseInv, OfferInv, CalmInv, TroubleExplained, [RunNext]_allVars
    PROVE  TroubleExplained'
<1>a. TroubleExplained <=> \A r \in DOMAIN done : Judged(done, r)
  BY DEF TroubleExplained, Judged, OwnIds, Troubles
<1>b. (\A r \in DOMAIN done' : Judged(done', r)) => TroubleExplained'
  BY DEF TroubleExplained, Judged, OwnIds, Troubles
<1>1. CASE done' = done
  BY <1>1, <1>a, <1>b
<1>2. ASSUME NEW j, NEW verdict, Finish(j, verdict),
             verdict \in Troubles =>
                /\ UNCHANGED boundVars
                /\ ~(Calm' /\ Range(ids) \cap failed = {} /\ MirrorCovers(Len(j.order)))
      PROVE  TroubleExplained'
  <2>a. RunTypeInv /\ Len(done) \in Nat /\ mishaps \in Nat /\ strays \in Nat
    BY RunsAreNat DEF BaseInv, BoundInv
  <2> PICK end : end =
          [job |-> j, ids |-> ids, verdict |-> verdict, seen |-> entries[j.target],
           settled |-> sent = {} /\ resumes = {} /\ calls = {} /\ thens = {},
           failed |-> failed, mishaps |-> mishaps, strays |-> strays]
    OBVIOUS
  <2>1. done' = Append(done, end)
    BY <1>2 DEF Finish
  <2> PICK S : done \in Seq(S)
    BY <2>a DEF RunTypeInv
  <2>2. done \in Seq(S \cup {end})
    OBVIOUS
  <2>3. /\ Len(done') = Len(done) + 1 /\ done'[Len(done) + 1] = end
        /\ \A r \in 1..Len(done) : done'[r] = done[r]
        /\ DOMAIN done = 1..Len(done) /\ DOMAIN done' = 1..Len(done')
    BY <2>a, <2>1, <2>2
  <2>4. ASSUME NEW r \in 1..Len(done) PROVE Judged(done', r)
    <3>1. Judged(done, r)
      BY <1>a, <2>3
    <3>2. 1..r \subseteq 1..Len(done)
      BY <2>a
    <3>3. done'[r] = done[r] /\ \A q \in 1..r : done'[q] = done[q]
      BY <2>3, <3>2
    <3>4. QED
      BY <3>1, <3>3 DEF Judged
  <2>5. Judged(done', Len(done) + 1)
    <3> SUFFICES ASSUME verdict \in Troubles,
                        ~(mishaps > 0), ~(strays > 0),
                        \A q \in 1..(Len(done) + 1) : done'[q].settled,
                        Range(ids) \cap failed = {}, MirrorCovers(Len(j.order))
                 PROVE  FALSE
      BY <2>3 DEF Judged
    <3>1. mishaps' = 0 /\ strays' = 0
      BY <1>2, <2>a DEF boundVars
    <3>2. Calm'
      BY <2>3, <3>1 DEF Calm
    <3>3. QED
      BY <1>2, <3>2
  <2>6. \A r \in DOMAIN done' : Judged(done', r)
    BY <2>a, <2>3, <2>4, <2>5
  <2>7. QED
    BY <1>b, <2>6
<1>3. CASE Finish(job, "interrupted")
  BY <1>2, <1>3 DEF Troubles
<1>4. CASE RunnerStep
  <2>1. UNCHANGED boundVars
    BY <1>4 DEF RunnerStep
  <2>2. ASSUME NEW j \in Jobs, StartThrows(j) PROVE TroubleExplained'
    <3>1. Finish(j, "threw")
      BY <2>2 DEF StartThrows
    <3>2. ~(Calm' /\ Range(ids) \cap failed = {})
      BY <1>4, <2>2, NoTrouble
    <3>3. QED
      BY <1>2, <2>1, <3>1, <3>2
  <2>3. CASE AwaitThrows
    <3>1. Finish(job, "threw")
      BY <2>3 DEF AwaitThrows
    <3>2. ~(Calm' /\ Range(ids) \cap failed = {})
      BY <1>4, <2>3, NoTrouble
    <3>3. QED
      BY <1>2, <2>1, <3>1, <3>2
  <2>4. CASE FeeThrows
    <3>1. Finish(job, "threw")
      BY <2>4 DEF FeeThrows
    <3>2. ~(Calm' /\ Range(ids) \cap failed = {} /\ MirrorCovers(Len(job.order)))
      BY <1>4, <2>4, NoTrouble
    <3>3. QED
      BY <1>2, <2>1, <3>1, <3>2
  <2>5. CASE Compare
    <3>1. Finish(job, Verdict)
      BY <2>5 DEF Compare
    <3>2. Calm' /\ Range(ids) \cap failed = {} => Verdict \notin Troubles
      BY <1>4, <2>5, NoTrouble
    <3>3. QED
      BY <1>2, <2>1, <3>1, <3>2
  <2>6. CASE done' = done
    BY <1>1, <2>6
  <2>7. QED
    BY <1>3, <2>2, <2>3, <2>4, <2>5, <2>6, EndsOfRuns
<1>5. QED
  BY <1>1, <1>3, <1>4, EndsOfRuns

-----------------------------------------------------------------------------

\* What the composition keeps to, whatever disturbs it.
LEMMA RunBase == RunSpec => []BaseInv
<1>1. RunInit => BoundInv /\ DeployInv
  <2>1. RunInit => BoundInv
    BY RunAssumption DEF RunInit, BoundInv, RunAssumption
  <2>2. RunInit => DeployInv
    BY RunStart, DeployInitInv
  <2>3. QED
    BY <2>1, <2>2
<1>2. TypeInv /\ BoundInv /\ DeployInv /\ [RunNext]_allVars => (BoundInv /\ DeployInv)'
  BY BoundStep, RunStepDeploys, DeployInvStep
<1>3. RunSpec => [](BoundInv /\ DeployInv)
  BY <1>1, <1>2, RunIsGate, TypeInvariant, PTL DEF RunSpec
<1>4. /\ RunTypeInv /\ (OwnInv /\ ListsInv /\ OnceInv) /\ (TurnInv /\ RanInv)
      /\ CoordinatorOrder /\ LogInv /\ (BoundInv /\ DeployInv)
      /\ TypeInv /\ LifeInv /\ StuckInv
      => BaseInv
  BY DEF BaseInv
<1>5. QED
  BY <1>3, <1>4, RunTypes, RunLists, RunTurns, RunKeepsOrder, RunLogs, RunIsGate,
     TypeInvariant, LifeInvariant, StuckInvariant, PTL

(***************************************************************************)
(* While nothing is disturbed, nobody else calls a target and every run    *)
(* that is over waited long enough, one transaction is out at a time, what *)
(* is in flight is the run's own, nobody drops out of a batch, and the     *)
(* target's log grows by this batch alone.                                 *)
(***************************************************************************)
THEOREM RunCalm == RunSpec => [](OfferInv /\ CalmInv)
<1>1. RunInit => OfferInv /\ CalmInv
  BY CalmStart
<1>2. BaseInv /\ (OfferInv /\ CalmInv) /\ [RunNext]_allVars => (OfferInv /\ CalmInv)'
  BY OfferStep, CalmInvStep DEF BaseInv
<1>3. QED
  BY <1>1, <1>2, RunBase, PTL DEF RunSpec

(***************************************************************************)
(* A run reports trouble only for a reason, for any number of runs, jobs   *)
(* and intents: an undisturbed sequence whose wait is long enough ends in  *)
(* MATCH and a rejected intent leaves its target alone, whatever became of *)
(* the runs before it.                                                     *)
(***************************************************************************)
THEOREM TroubleHasReason == RunSpec => []TroubleExplained
<1>1. RunInit => TroubleExplained
  BY DEF RunInit, TroubleExplained
<1>2. /\ BaseInv /\ (OfferInv /\ CalmInv) /\ TroubleExplained /\ [RunNext]_allVars
      => TroubleExplained'
  BY TroubleStep
<1>3. QED
  BY <1>1, <1>2, RunBase, RunCalm, PTL DEF RunSpec
=============================================================================
