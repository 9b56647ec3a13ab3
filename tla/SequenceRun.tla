----------------------------- MODULE SequenceRun -----------------------------
(***************************************************************************)
(* The runner against the whole system: it deploys, submits signed intents *)
(* through the relayer, learns their ids, resumes them through the         *)
(* approver in the order it was asked for, waits a fixed time and compares *)
(* the target's log with the log it expects (scripts/src/commands/         *)
(* sequence.ts, submit.ts, directSender.ts). Transactions are broadcast    *)
(* and forgotten: they may be lost, come late, or find their nonce used.   *)
(*                                                                         *)
(* The gate is Gate with EarlyReset, the targets are Register and FtShim,  *)
(* and what disturbs the runner is bounded by MaxMishaps: interruptions,   *)
(* lost transactions, timeouts, owner's calls (mishaps), and calls of      *)
(* others to the targets (strays).                                         *)
(***************************************************************************)
EXTENDS Gate, Register, FtShim, Deploy, Functions

CONSTANTS
    Jobs,          \* what the runner is asked: [kind, target, order]
    MaxRuns,       \* bound on runs
    MaxMishaps,    \* bound on disturbances
    FtSupply       \* FT_SHIM_TOTAL_SUPPLY

VARIABLES
    step,          \* where the run stands
    job,           \* the job of the run
    ids,           \* intent ids learnt so far, in submission order
    pre,           \* the target's state when the run began
    next_nonce,    \* the senders' local nonces
    key_nonce,     \* the access keys' nonces on chain
    sent,          \* transactions broadcast and not yet included
    entries,       \* by target: whose entry each one of its log is
    ran, failed,   \* history: intents in the order they ran; those that failed
    done,          \* the runs that are over
    mishaps, strays

runVars == <<step, job, ids, pre, next_nonce>>
chainVars == <<key_nonce, sent>>
logVars == <<entries, ran, failed>>
boundVars == <<mishaps, strays>>
targetVars == <<registerVars, ftVars, logVars>>
allVars == <<vars, targetVars, deployVars, runVars, chainVars, done, boundVars>>

Senders == {"relayer", "approver"}

\* valuesForRegister and amountsForFtShim: the same distinct values in every run.
Value(k) == k

JobDelegate(r, j, k) ==
    [sender |-> "alice", nonce |-> <<r, k>>, max_block_height |-> MaxHeight + 1,
     decodes |-> TRUE, verifies |-> TRUE, actions |-> 1, gas |-> 1, deposit |-> 0,
     target |-> j.target, value |-> Value(k)]

(***************************************************************************)
(* The accounts are those deploy makes, and new() names the approver. A    *)
(* job asks for a permutation of its intents, of which only sequence       *)
(* submits more than one; the ladder mirrored in config.ts is the gate's.  *)
(***************************************************************************)
IsPermutation(order) ==
    LET n == Len(order)
    IN  /\ \A k \in 1..n : order[k] \in 1..n
        /\ \A k, l \in 1..n : order[k] = order[l] => k = l

ASSUME RunAssumption ==
    /\ Senders \subseteq Accounts /\ InitApprover = "approver" /\ EarlyReset
    /\ MaxRuns \in Nat /\ MaxMishaps \in Nat /\ FtSupply \in Nat /\ None \notin Jobs
    /\ \A j \in Jobs :
          /\ j.kind \in {"sequence", "claim", "reject"}
          /\ j.target \in {"register", "ftShim"}
          /\ j.order \in Seq(Nat) /\ IsPermutation(j.order)
          /\ Len(j.order) \in 1..MaxBatch
          /\ j.kind = "sequence" \/ Len(j.order) = 1
          /\ \A r \in 1..MaxRuns, k \in 1..Len(j.order) : JobDelegate(r, j, k) \in Delegates
    /\ \A k \in 1..Len(DefaultFeeTiers) : DefaultFeeTiers[k].fee \in Deposits

RunInit ==
    /\ Init /\ RegisterInit /\ FtAbsent /\ DeployInit
    /\ step = "idle" /\ job = None /\ ids = <<>> /\ pre = <<>>
    /\ next_nonce = [a \in Senders |-> 0]
    /\ key_nonce = [a \in Senders |-> 0]
    /\ sent = {}
    /\ entries = [t \in {"register", "ftShim"} |-> <<>>]
    /\ ran = <<>> /\ failed = {}
    /\ done = <<>>
    /\ mishaps = 0 /\ strays = 0

Within == mishaps + strays < MaxMishaps
Mishap == Within /\ mishaps' = mishaps + 1 /\ UNCHANGED strays
Stray == Within /\ strays' = strays + 1 /\ UNCHANGED mishaps

(***************************************************************************)
(* Deployment is over once a run has begun. What the owner or anyone else  *)
(* would do before that, they can as well do in the run.                   *)
(***************************************************************************)
Begun == step # "idle" \/ done # <<>>

-----------------------------------------------------------------------------
\* The commands deploy and clean.

DeployStep ==
    /\ \/ StartDeploy \/ StartClean \/ AccountExisted \/ CreateAccount \/ WriteCredential
       \/ DeployContract \/ DeployThrows \/ AccountAbsent \/ RemoveCredential
       \/ CleanThrows \/ CleanDone
    /\ UNCHANGED <<relayers, ftVars, boundVars>>

DeployDisturbed == (Interrupt \/ AccountMisread) /\ Mishap /\ UNCHANGED <<relayers, ftVars>>

DeployChanges ==
    /\ \/ /\ CallNew
          /\ IF Role = "ftShim" THEN FtNew(FtSupply) ELSE UNCHANGED ftVars
          /\ UNCHANGED relayers
       \/ ReportReady /\ relayers' = relayers \cup {"relayer"} /\ UNCHANGED ftVars
       \/ /\ DeleteAccount
          /\ relayers' = IF Role = "gate" THEN {} ELSE relayers
          /\ IF Role = "ftShim" THEN FtDestroyed ELSE UNCHANGED ftVars
    /\ UNCHANGED boundVars

Deployment ==
    /\ ~Begun
    /\ DeployStep \/ DeployDisturbed \/ DeployChanges
    /\ UNCHANGED <<feeVars, approver_id, pending, submitVars, countVars, batchVars, height,
                   receiptVars, traceVars, registerVars, logVars, runVars, chainVars, done>>

-----------------------------------------------------------------------------
\* What the runner does by itself

Run == Len(done) + 1

\* The run is over; what a reader needs to judge its verdict is kept.
Finish(j, verdict) ==
    /\ done' = Append(done,
          [job |-> j, ids |-> ids, verdict |-> verdict, seen |-> entries[j.target],
           settled |-> sent = {} /\ resumes = {} /\ calls = {} /\ thens = {},
           failed |-> failed, mishaps |-> mishaps, strays |-> strays])
    /\ step' = "idle" /\ job' = None /\ ids' = <<>> /\ pre' = <<>>
    /\ next_nonce' = [a \in Senders |-> 0]

\* readTargetState, by the targets' views.
State(target) ==
    IF target = "register" THEN Get ELSE <<BalanceOf("alice"), GetTransferLog>>

\* Alice's key, two senders, the first look at the target.
CanStart(j) ==
    Users \subseteq keys /\ (j.target = "ftShim" => "ftShim" \in initialised)

\* makeDirectSender reads each access key's nonce once.
Start(j) ==
    /\ step = "idle" /\ deployed /\ Run <= MaxRuns
    /\ CanStart(j)
    /\ step' = "submit" /\ job' = j /\ pre' = State(j.target)
    /\ next_nonce' = [a \in Senders |-> key_nonce[a] + 1]
    /\ UNCHANGED <<ids, sent, done>>

StartThrows(j) ==
    /\ step = "idle" /\ deployed /\ Run <= MaxRuns
    /\ ~CanStart(j)
    /\ Finish(j, "threw")
    /\ UNCHANGED sent

BroadcastSameNonce(a, call, delegate, list, attached) ==
    /\ sent' = sent \cup {[by |-> a, nonce |-> next_nonce[a], call |-> call,
                           delegate |-> delegate, list |-> list, attached |-> attached]}
    /\ UNCHANGED <<next_nonce, done>>

Broadcast(a, call, delegate, list, attached) ==
    /\ sent' = sent \cup {[by |-> a, nonce |-> next_nonce[a], call |-> call,
                           delegate |-> delegate, list |-> list, attached |-> attached]}
    /\ next_nonce' = [next_nonce EXCEPT ![a] = next_nonce[a] + 1]
    /\ UNCHANGED done

Awaited == JobDelegate(Run, job, Len(ids) + 1)

Holds(i, delegate) == intents[i] # None /\ Delegate(i) = delegate

SendSubmit ==
    /\ step = "submit"
    /\ Len(ids) < Len(job.order)
    /\ Broadcast("relayer", "submit", Awaited, <<>>, 0)
    /\ step' = "await"
    /\ UNCHANGED <<job, ids, pre>>

\* waitForOuterReceipt finds intent_submitted in the outcome.
LearnId(i) ==
    /\ step = "await"
    /\ Holds(i, Awaited)
    /\ ids' = Append(ids, i)
    /\ step' = "submit"
    /\ UNCHANGED <<job, pre, next_nonce, sent, done>>

\* The submit failed, was lost, or its nonce was taken: no id will come.
AwaitThrows ==
    /\ step = "await"
    /\ ~\E i \in Ids : Holds(i, Awaited)
    /\ ~\E tx \in sent : tx.delegate = Awaited
    /\ Finish(job, "threw")
    /\ UNCHANGED sent

InSubmissionOrder == ids

BatchIds == [k \in 1..Len(job.order) |-> ids[job.order[k]]]

\* feeForBatchSize on the runner's own copy of the ladder.
MirrorCovers(n) == \E k \in 1..Len(DefaultFeeTiers) : n <= DefaultFeeTiers[k].cap

MirrorFee(n) ==
    DefaultFeeTiers[CHOOSE k \in 1..Len(DefaultFeeTiers) :
        /\ n <= DefaultFeeTiers[k].cap
        /\ \A l \in 1..(k - 1) : n > DefaultFeeTiers[l].cap].fee

Submitted == step = "submit" /\ Len(ids) = Len(job.order)

SendResume ==
    /\ Submitted
    /\ MirrorCovers(Len(ids))
    /\ Broadcast("approver", job.kind, None, BatchIds, MirrorFee(Len(ids)))
    /\ step' = "wait"
    /\ UNCHANGED <<job, ids, pre>>

FeeThrows ==
    /\ Submitted
    /\ ~MirrorCovers(Len(ids))
    /\ Finish(job, "threw")
    /\ UNCHANGED sent

\* The values of the target's log.
Shown(target) ==
    IF target = "register" THEN Get[2]
    ELSE [k \in 1..Len(GetTransferLog) |-> GetTransferLog[k][3]]

Expected == [k \in 1..Len(job.order) |-> Value(job.order[k])]

WholeLog(s, n) == s

\* slice(length - n): a negative start counts from the end.
LastOf(s, n) ==
    LET first == IF Len(s) >= n THEN Len(s) - n
                 ELSE IF 2 * Len(s) >= n THEN 2 * Len(s) - n ELSE 0
    IN  SubSeq(s, first + 1, Len(s))

MatchesSoFar ==
    LET tail == LastOf(Shown(job.target), Len(Expected))
    IN  tail # <<>> /\ tail = SubSeq(Expected, 1, Len(tail))

Matches ==
    /\ LastOf(Shown(job.target), Len(Expected)) = Expected
    /\ job.target = "register" => current = Expected[Len(Expected)]

Verdict ==
    CASE job.kind = "sequence" -> IF Matches THEN "MATCH" ELSE "MISMATCH"
      [] job.kind = "reject" -> IF State(job.target) = pre THEN "unchanged" ELSE "changed"
      [] OTHER -> "recorded"

\* The fixed wait is over, however far the chain has come.
Compare ==
    /\ step = "wait"
    /\ Finish(job, Verdict)
    /\ UNCHANGED sent

RunnerStep ==
    /\ \/ \E j \in Jobs : Start(j) \/ StartThrows(j)
       \/ SendSubmit \/ AwaitThrows \/ SendResume \/ FeeThrows \/ Compare
       \/ \E i \in Ids : LearnId(i)
    /\ UNCHANGED <<vars, targetVars, deployVars, key_nonce, boundVars>>

\* ctrl-C, a failing request, or 30 s without an answer.
RunInterrupted ==
    /\ step # "idle"
    /\ Finish(job, "interrupted")
    /\ Mishap
    /\ UNCHANGED <<vars, targetVars, deployVars, chainVars>>

-----------------------------------------------------------------------------
\* What becomes of the transactions

\* A transaction is included once its nonce is ahead of its access key's.
Included(tx) ==
    /\ tx.nonce > key_nonce[tx.by]
    /\ key_nonce' = [key_nonce EXCEPT ![tx.by] = tx.nonce]
    /\ sent' = sent \ {tx}

SubmitIncluded(tx) ==
    /\ tx.call = "submit"
    /\ Included(tx)
    /\ SubmitIntent("relayer", tx.delegate)

ResumeIncluded(tx) ==
    /\ Included(tx)
    /\ \/ tx.call = "sequence" /\ ResumeBatchChained("approver", tx.list, tx.attached)
       \/ tx.call = "claim" /\ ResumeIntent("approver", tx.list[1], TRUE, tx.attached)
       \/ tx.call = "reject" /\ ResumeIntent("approver", tx.list[1], FALSE, tx.attached)

(***************************************************************************)
(* The gate's panics that a transaction of the runner can meet; nothing    *)
(* but the nonce is left of it, and of a resume the runner hears nothing.  *)
(***************************************************************************)
Refused(tx) ==
    /\ \/ tx.call = "submit" /\ "relayer" \notin relayers
       \/ tx.call # "submit" /\ ~Covered(Len(tx.list))
       \/ tx.call # "submit" /\ Covered(Len(tx.list)) /\ tx.attached < FeeFor(Len(tx.list))
       \/ tx.call = "sequence" /\ ~ChainIdle
       \/ \E k \in 1..Len(tx.list) : tx.list[k] \notin pending
    /\ Included(tx)
    /\ UNCHANGED vars

NonceTaken(tx) ==
    /\ tx.nonce <= key_nonce[tx.by]
    /\ sent' = sent \ {tx}
    /\ UNCHANGED <<vars, key_nonce>>

TransactionStep ==
    /\ \E tx \in sent :
          SubmitIncluded(tx) \/ ResumeIncluded(tx) \/ Refused(tx) \/ NonceTaken(tx)
    /\ UNCHANGED <<targetVars, deployVars, runVars, done, boundVars>>

TransactionLost ==
    /\ \E tx \in sent : sent' = sent \ {tx}
    /\ Mishap
    /\ UNCHANGED <<vars, targetVars, deployVars, runVars, key_nonce, done>>

-----------------------------------------------------------------------------
\* The gate's receipts; its calls reach the targets with the gate as caller.

GateStep ==
    /\ \/ \E r \in resumes : DeliverApprove(r) \/ DeliverReject(r) \/ DropStale(r)
       \/ \E t \in thens : ContinueChain(t) \/ ContinueChainPanics(t)
    /\ UNCHANGED <<targetVars, boundVars>>

CallSucceeds(c) ==
    LET target == Delegate(c.id).target
        value == Delegate(c.id).value
    IN  /\ \/ target = "register" /\ Set(value) /\ UNCHANGED ftVars
           \/ target = "ftShim" /\ Transfer("gate", "alice", value) /\ UNCHANGED registerVars
        /\ TargetExecutes(c, TRUE)
        /\ entries' = [entries EXCEPT ![target] = Append(entries[target], c.id)]
        /\ UNCHANGED failed

CallFails(c) ==
    /\ Delegate(c.id).target = "ftShim"
    /\ ~CanTransfer("gate", "alice", Delegate(c.id).value)
    /\ TargetExecutes(c, FALSE)
    /\ failed' = failed \cup {c.id}
    /\ UNCHANGED <<registerVars, ftVars, entries>>

TargetStep ==
    /\ \E c \in calls : (CallSucceeds(c) \/ CallFails(c)) /\ ran' = Append(ran, c.id)
    /\ UNCHANGED boundVars

GateDisturbed ==
    /\ \/ \E i \in yields : TimeoutFires(i)
       \/ ResetBatchTail /\ batch_chain_tail # <<>>
       \/ RemoveRelayer("relayer") /\ "relayer" \in relayers
       \/ /\ \E tiers \in TierChoices : tiers # fee_tiers /\ SetFeeTiers(tiers)
          /\ UNCHANGED gateVars
    /\ Begun
    /\ Mishap
    /\ UNCHANGED targetVars

\* Others call the targets: anyone may set or reset, Alice may transfer.
StrayCall ==
    /\ Begun
    /\ \/ /\ Set(Value(1)) /\ UNCHANGED ftVars
          /\ entries' = [entries EXCEPT !["register"] = Append(entries["register"], None)]
       \/ /\ Reset /\ UNCHANGED ftVars
          /\ entries' = [entries EXCEPT !["register"] = <<>>]
       \/ /\ \E a \in {"alice", "gate"} : Transfer("alice", a, 1)
          /\ UNCHANGED registerVars
          /\ entries' = [entries EXCEPT !["ftShim"] = Append(entries["ftShim"], None)]
    /\ Stray
    /\ UNCHANGED <<vars, ran, failed>>

ChainStep ==
    /\ GateStep \/ TargetStep \/ GateDisturbed \/ StrayCall
    /\ UNCHANGED <<deployVars, runVars, chainVars, done>>

RunNext ==
    \/ Deployment \/ RunnerStep \/ RunInterrupted
    \/ TransactionStep \/ TransactionLost \/ ChainStep

RunSpec == RunInit /\ [][RunNext]_allVars
-----------------------------------------------------------------------------

OwnIds(r) == Range(done[r].ids)

\* The ids of a run that got as far as its batch, in the order it asked for.
Asked(list, j) ==
    IF Len(list) = Len(j.order) THEN [k \in 1..Len(list) |-> list[j.order[k]]] ELSE <<>>

BatchesAsked ==
    {Asked(done[r].ids, done[r].job) : r \in DOMAIN done}
        \cup (IF job = None THEN {} ELSE {Asked(ids, job)})

RunnerTypeOK ==
    /\ DOMAIN key_nonce = Senders /\ DOMAIN next_nonce = Senders
    /\ step \in {"idle", "submit", "await", "wait"}
    /\ job \in Jobs \cup {None} /\ (job = None <=> step = "idle")
    /\ ids \in Seq(Ids) /\ failed \subseteq Ids /\ ran \in Seq(Ids)
    /\ Len(entries["register"]) = Len(log) /\ set_count = Len(log)
    /\ Len(entries["ftShim"]) = Len(transfer_log)
    /\ Len(done) <= MaxRuns /\ mishaps + strays <= MaxMishaps

(***************************************************************************)
(* End to end, intents run in the order the runner was asked for: whatever *)
(* is lost, late, reset, timed out or left over from an earlier run, an    *)
(* intent has run only if the one before it in the permutation has.        *)
(***************************************************************************)
OrderAsAsked ==
    \A b \in BatchesAsked : \A k \in 2..Len(b) : \A p \in 1..Len(ran) :
        ran[p] = b[k] => \E q \in 1..(p - 1) : ran[q] = b[k - 1]

(***************************************************************************)
(* A MATCH that no foreign entry takes part in is earned: if the last n    *)
(* entries are all of this run, they are its batch, whole and in order.    *)
(***************************************************************************)
MatchExplained ==
    \A r \in DOMAIN done :
        LET b == Asked(done[r].ids, done[r].job)
            tail == LastOf(done[r].seen, Len(b))
        IN  (done[r].verdict = "MATCH" /\ Range(tail) \subseteq OwnIds(r)) => tail = b

(***************************************************************************)
(* A run reports trouble only for a reason: something was disturbed, or    *)
(* someone else called the target, or this or an earlier run looked before *)
(* the gate was done, or the token refused one of its transfers, or no     *)
(* tier admits its batch. Otherwise a sequence ends in MATCH and a         *)
(* rejected intent leaves its target alone, also after runs that failed.   *)
(***************************************************************************)
TroubleExplained ==
    \A r \in DOMAIN done :
        done[r].verdict \in {"MISMATCH", "changed", "threw"} =>
            \/ done[r].mishaps > 0 \/ done[r].strays > 0
            \/ \E q \in 1..r : ~done[q].settled
            \/ OwnIds(r) \cap done[r].failed # {}
            \/ ~MirrorCovers(Len(done[r].job.order))

(***************************************************************************)
(* Refuted: comparing "against the N most recent entries in log" copes     *)
(* with entries of earlier runs. The values of every run are the same, so  *)
(* a run none of whose intents ran can find those of the run before it.    *)
(***************************************************************************)
MatchMeansDispatched ==
    \A r \in DOMAIN done :
        done[r].verdict = "MATCH" => OwnIds(r) \subseteq Range(done[r].seen)
=============================================================================
