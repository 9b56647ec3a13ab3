------------------------------ MODULE RunnerInv ------------------------------
(***************************************************************************)
(* The inductive invariants behind SequenceRun's properties: what          *)
(* RunnerProofs proves, and what the runs of MCRunner check beforehand.    *)
(***************************************************************************)
EXTENDS SequenceRun, GateInv

\* A transaction, and what is kept of a run.
Tx == [by : Senders, nonce : Nat, call : {"submit", "sequence", "claim", "reject"},
       delegate : Delegates \cup {None}, list : Seq(Ids), attached : Nat]

Valid(tx) ==
    IF tx.call = "submit" THEN tx.delegate \in Delegates
    ELSE tx.attached \in Deposits /\ Len(tx.list) \in 1..MaxBatch

\* How far the ids of a job have been learnt.
Learnt(list, j) == list \in Seq(Ids) /\ j \in Jobs /\ Len(list) <= Len(j.order)

RunTypeInv ==
    /\ relayers \subseteq {"relayer"}
    /\ key_nonce \in [Senders -> Nat] /\ next_nonce \in [Senders -> Nat]
    /\ sent \subseteq Tx /\ \A tx \in sent : Valid(tx)
    /\ done \in Seq({done[r] : r \in 1..Len(done)}) /\ Len(done) <= MaxRuns
    /\ \A r \in 1..Len(done) : Learnt(done[r].ids, done[r].job)
    /\ \/ step = "idle" /\ job = None /\ ids = <<>>
       \/ step \in {"submit", "await", "wait"} /\ Learnt(ids, job) /\ Run <= MaxRuns
    /\ step = "await" => Len(ids) < Len(job.order)
    /\ step = "wait" => Len(ids) = Len(job.order)

\* The runs that have begun, what each was asked, and the ids it has learnt.
Runs == 1..(IF step = "idle" THEN Len(done) ELSE Run)
JobOf(r) == IF r <= Len(done) THEN done[r].job ELSE job
IdsOf(r) == IF r <= Len(done) THEN done[r].ids ELSE ids

\* What a run has learnt are its own intents, in the order it submitted them.
OwnInv ==
    \A r \in Runs : \A k \in 1..Len(IdsOf(r)) :
        /\ intents[IdsOf(r)[k]] # None
        /\ Delegate(IdsOf(r)[k]) = JobDelegate(r, JobOf(r), k)

(***************************************************************************)
(* Every list of a resume, in flight or in a batch, is what one run asked  *)
(* for, and no run asks twice. The nonce of a member tells which run.      *)
(***************************************************************************)
Resuming == {tx \in sent : tx.call # "submit"}
RunOf(list) == Delegate(list[1]).nonce[1]

AskedBy(list, r) ==
    r \in Runs /\ list # <<>> /\ list = Asked(IdsOf(r), JobOf(r))

ListsInv ==
    /\ \A tx \in Resuming :
          AskedBy(tx.list, RunOf(tx.list)) /\ tx.call = JobOf(RunOf(tx.list)).kind
    /\ \A b \in 1..Len(batches) :
          AskedBy(batches[b], RunOf(batches[b])) /\ JobOf(RunOf(batches[b])).kind = "sequence"

OnceInv ==
    /\ \A tx, ux \in Resuming : RunOf(tx.list) = RunOf(ux.list) => tx = ux
    /\ \A tx \in Resuming, b \in 1..Len(batches) : RunOf(tx.list) # RunOf(batches[b])
    /\ \A b, c \in 1..Len(batches) : RunOf(batches[b]) = RunOf(batches[c]) => b = c
    /\ step # "wait" =>
          /\ \A tx \in Resuming : RunOf(tx.list) # Run
          /\ \A b \in 1..Len(batches) : RunOf(batches[b]) # Run

(***************************************************************************)
(* What the approver has resumed had its turn in a batch, or is the one    *)
(* intent of a claim or a rejection; and targets ran in the order of turns.*)
(***************************************************************************)
Approached(i) == ran_at[i] # None \/ Called(i) \/ \E m \in resumes : m.id = i

SingleOf(i, r) ==
    JobOf(r).kind # "sequence" /\ \E k \in 1..Len(IdsOf(r)) : IdsOf(r)[k] = i

TurnInv ==
    \A i \in Ids : Approached(i) => slot[i].batch > 0 \/ \E r \in Runs : SingleOf(i, r)

RanInv ==
    /\ ran \in Seq(Ids)
    /\ \A i \in Ids : ran_at[i] # None <=> \E q \in 1..Len(ran) : ran[q] = i
    /\ \A p \in 1..Len(ran) : Follows(ran[p]) => \E q \in 1..(p - 1) : ran[q] = Pred(ran[p])

\* A target's log shows the values of the intents whose entries it holds.
Amounts == {Value(1)} \cup {d.value : d \in Delegates}
Transfers == {"alice", "gate"} \X {"alice", "gate"} \X Amounts

Shows(i, v) == i # None => intents[i] # None /\ v = Delegate(i).value

LogInv ==
    /\ entries \in [{"register", "ftShim"} -> Seq(Ids \cup {None})]
    /\ log \in Seq(Amounts) /\ set_count = Len(log) /\ transfer_log \in Seq(Transfers)
    /\ Len(entries["register"]) = Len(log) /\ Len(entries["ftShim"]) = Len(transfer_log)
    /\ Runs = {} => entries["ftShim"] = <<>>
    /\ \A p \in 1..Len(log) : Shows(entries["register"][p], log[p])
    /\ \A p \in 1..Len(transfer_log) : Shows(entries["ftShim"][p], transfer_log[p][3])

\* Disturbances stay within their bound, and only intents fail.
BoundInv ==
    /\ mishaps \in Nat /\ strays \in Nat /\ mishaps + strays <= MaxMishaps
    /\ failed \subseteq Ids

-----------------------------------------------------------------------------

(***************************************************************************)
(* The calm: nothing has been disturbed, nobody else has called a target,  *)
(* and no run that is over looked before the gate was done. While it lasts *)
(* everything in flight belongs to the run under way.                      *)
(***************************************************************************)
Calm == mishaps = 0 /\ strays = 0 /\ \A r \in 1..Len(done) : done[r].settled

\* The runner's transaction to the approver's key is on chain.
Resumed == step = "wait" /\ sent = {}

AtRest == resumes = {} /\ calls = {} /\ thens = {} /\ batch_chain_tail = <<>>

\* Nonces the runner has used: of a run under way, up to the intent it is at.
Offered(nonce) ==
    /\ nonce[1] \in Runs /\ nonce[2] \in Nat
    /\ nonce[1] = Run => nonce[2] <= Len(ids) + (IF step = "await" THEN 1 ELSE 0)

OfferInv ==
    /\ \A tx \in sent : tx.call = "submit" => Offered(tx.delegate.nonce)
    /\ \A i \in Ids : intents[i] # None => Offered(Delegate(i).nonce)

\* Deploy has done its work, and the ladder is the one the runner knows.
ReadyInv ==
    /\ ~tainted /\ fee_tiers = DefaultFeeTiers
    /\ deployed => "relayer" \in relayers
    /\ Begun => deployed

(***************************************************************************)
(* One transaction at a time: the one the runner is at, with a nonce that  *)
(* is still good; a submit that is gone from the network is an intent.     *)
(***************************************************************************)
OneSentInv ==
    /\ \A tx, ux \in sent : tx = ux
    /\ step # "idle" => \A a \in Senders : key_nonce[a] < next_nonce[a]
    /\ \A tx \in sent : key_nonce[tx.by] < tx.nonce /\ tx.nonce < next_nonce[tx.by]
    /\ \A tx \in sent :
          \/ /\ step = "await" /\ tx.call = "submit" /\ tx.list = <<>>
             /\ tx.delegate = Awaited /\ \A i \in Ids : ~Holds(i, Awaited)
          \/ /\ step = "wait" /\ tx.call = job.kind /\ tx.list = BatchIds
             /\ tx.attached = MirrorFee(Len(ids))
    /\ step = "await" /\ sent = {} => \E i \in Ids : Holds(i, Awaited)
    /\ step = "wait" => MirrorCovers(Len(ids))

\* Only the ids of the run's resume are in flight, and only once it is on chain.
FlightInv ==
    /\ ~Resumed => AtRest
    /\ Resumed =>
          /\ \A m \in resumes \cup calls : m.id \in Range(BatchIds)
          /\ \A k \in 1..Len(batch_chain_tail) : batch_chain_tail[k] \in Range(BatchIds)
          /\ \A m \in resumes : m.approve <=> job.kind # "reject"
          /\ job.kind = "reject" => calls = {} /\ batch_chain_tail = <<>>

\* Resumed, and neither rejected nor lost since.
Went(i) ==
    ran_at[i] # None \/ Called(i) \/ (i \in yields /\ \E m \in resumes : m.id = i)

(***************************************************************************)
(* Nobody drops out of a batch: a submitted intent is pending, or went its *)
(* way in a batch, or was resumed alone; who is listed and still pending   *)
(* stands in the tail.                                                     *)
(***************************************************************************)
NoneLostInv ==
    /\ \A i \in Ids : i < next_intent_id =>
          i \in pending \/ (slot[i].batch > 0 /\ Went(i)) \/ \E r \in Runs : SingleOf(i, r)
    /\ \A b \in 1..Len(batches) : \A k \in 1..Len(batches[b]) :
          batches[b][k] \in pending => batches[b][k] \in Range(batch_chain_tail)
    /\ Resumed /\ job.kind = "sequence" =>
          Len(batches) > 0 /\ batches[Len(batches)] = BatchIds

\* The first m members of b have run, and theirs are the last m entries of the log.
Grown(b, target, m) ==
    /\ \A k \in 1..Len(b) : ran_at[b[k]] # None <=> k <= m
    /\ m <= Len(entries[target])
    /\ \A k \in 1..m : entries[target][Len(entries[target]) - m + k] = b[k]

(***************************************************************************)
(* The target's log grows by the run's batch alone, member by member, and  *)
(* by nothing before the resume or after a rejection.                      *)
(***************************************************************************)
ProgressInv ==
    /\ log # <<>> => current = log[Len(log)]
    /\ step # "idle" /\ (~Resumed \/ job.kind = "reject") => State(job.target) = pre
    /\ Resumed /\ job.kind = "sequence" /\ Range(ids) \cap failed = {} =>
          \E m \in 0..Len(BatchIds) : Grown(BatchIds, job.target, m)

CalmInv ==
    Calm => ReadyInv /\ OneSentInv /\ FlightInv /\ NoneLostInv /\ ProgressInv
=============================================================================
