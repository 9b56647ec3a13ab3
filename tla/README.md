# sequential-near in TLA+

TLA+ specifications of sequential-near: a *gate* contract on NEAR that holds
signed intents under yielded callbacks and dispatches them to their targets one
by one or as a chained batch in the approver's order, two demo targets, and a
TypeScript runner that deploys and exercises them. The specifications are
translated from the source (`contracts/`, `scripts/`), checked with TLC on small
instances, and the central properties are proved with TLAPS for every value of
the constants.

## 1. The system

| component | source | state | operations |
|---|---|---|---|
| gate: intents, yields, batches | `contracts/gate/src/lib.rs`, `types.rs` | `owner_id`, `approver_id`, `relayers`, `pending` (id -> yield and call), `used_nonces`, counters, `batch_chain_tail`, `active_batch_id` | `add_relayer`, `remove_relayer`, `set_approver`, `reset_batch_tail`, `submit_intent`, `resume_intent`, `resume_batch_chained`; callbacks `on_intent_resumed`, `continue_chain` |
| gate: fees | `contracts/gate/src/lib.rs` | `fee_tiers`, `fees_collected_total`, `fees_withdrawn_total`, the account's NEAR | `charge_fee` (in both resumes), `set_fee_tiers`, `withdraw_fees` |
| gate: NEP-366 codec | `contracts/gate/src/nep366.rs` | none | borsh decoding, NEP-461 hash, ed25519 check |
| register target | `contracts/register/src/lib.rs` | `current`, `log`, `set_count` | `set`, `reset` |
| ft-shim target | `contracts/ft-shim/src/lib.rs` | `balances`, `total_supply`, `transfer_log` | `new`, `transfer` |
| runner: sequence | `scripts/src/commands/sequence.ts`, `config.ts` | local list of submitted ids, its copy of the fee ladder, `record.json` | submit n, batch, fixed wait, compare |
| runner: submit | `scripts/src/commands/submit.ts`, `delegate.ts` | as above | six variants of one intent |
| runner: deploy, accounts, clean | `scripts/src/commands/deploy.ts`, `clean.ts`, `accounts.ts` | accounts on chain, key files on disk | create, deploy, init, destroy |
| runner: RPC, sending | `scripts/src/rpc.ts`, `directSender.ts` | a local nonce | retries, broadcast, wait for the outer receipt |
| runner: shell | `scripts/src/index.ts`, `env.ts` | none | argument parsing |

How they interact. A relayer's `submit_intent` verifies a signed delegate,
burns its nonce, creates a *yield* whose callback `on_intent_resumed` carries the
call, and enters the id in `pending`. The approver resumes a yield with a
payload (`resume_intent`), or names a list of ids (`resume_batch_chained`): the
first is resumed at once, the rest become `batch_chain_tail`. The payload
reaches `on_intent_resumed` as a receipt of its own; an approval becomes a
function call of the target, and inside a batch that call has a
`.then(continue_chain)`, which pops the tail and resumes the next member. A
yield that is not resumed times out after about 200 blocks and its callback
runs in the error arm. So a batch of n is a chain of 3n receipts, and between
any two of them other intents, timeouts, new batches and owner calls may run.

What is hard about it, and what makes it correct:

* **gate, intents.** A resume, a timeout and `continue_chain` race for the same
  yield; `pending` and the runtime's yields must agree, every intent must be
  resolved once and counted once, and a nonce must never be used twice.
* **gate, batches.** `batch_chain_tail` is one variable shared by everything in
  flight. The chain must advance in order, only after the predecessor's target
  ran, whatever that target returned; it may stop only for a known reason.
* **gate, fees.** The ladder scan, two totals at the width of `u128`, a transfer
  that can bounce after the ledger was debited, and deposits of dispatched
  calls that leave from the account that holds the fees.
* **gate, wire format.** What decodes and verifies must be what the wallet signed,
  to the last field, tag and byte.
* **targets.** ft-shim must conserve its supply; both logs must show the order
  of the chain.
* **runner.** It broadcasts transactions with a local nonce and never learns what
  became of a resume, waits a fixed time for a chain of unknown speed, computes
  fees from a mirror of the ladder, compares with a log that others and earlier
  runs write to, and its deploy and clean can be interrupted at every step.

`PROJECT.json` lists every hazard with its line and the properties aimed at it.

## 2. Modules

| module | what it is |
|---|---|
| `FeeLedger` | fee ladder and ledger, with the account's balance and the transfer receipts of `withdraw_fees`; `FeeSpec` is this part alone |
| `Gate` | extends `FeeLedger`: the whole contract and the NEAR runtime below it |
| `GateInv` | the inductive invariants of `Gate`, its pace under prompt receipts, and the mapping to `IntentPromise` |
| `TimedGate` | extends `GateInv`: `Gate` with a memory for whether anything was late yet |
| `IntentPromise` | abstract: the stages of an intent and the turns of a batch, without receipts, yields or a tail |
| `Nep366` | the wire format of a signed delegate, its hash and its verification, as operators |
| `SignedGate` | extends `Gate` and `Nep366`: the gate whose delegates come from wires |
| `Register`, `FtShim` | the two targets |
| `Deploy` | the commands deploy and clean over the accounts, key files and contracts |
| `SequenceRun` | extends `Gate`, `Register`, `FtShim` and `Deploy`: the runner's sequence, claim and reject against all of them, with transactions and disturbances |
| `RunnerInv` | the inductive invariants of `SequenceRun`, among them what holds while nothing is disturbed |
| `FeeLedgerProofs`, `GateProofs`, `GateChainProofs`, `Nep366Proofs`, `DeployProofs`, `RunnerProofs`, `RunnerVerdictProofs`, `ShimProofs` | theorems, see section 5 |
| `MCFeeLedger`, `MCGate`, `MCTimed`, `MCSigned`, `MCRunner` | constants, constraints and symmetry for TLC |

### Correspondence

*One action is one receipt.* NEAR runs a receipt atomically and reverts one that
panics, so the guard of an action is the conjunction of the method's `require!`s
and `panic_str`s, and a call that panics is no step. The exceptions are panics
that leave something behind, and these are actions: `CallbackPanics` (the yield
is consumed and the entry, removed by the approver's call, stays removed) and
`ContinueChainPanics` (the `.then` is consumed, the tail stays dirty).

| code | action |
|---|---|
| `submit_intent` | `SubmitIntent` |
| `resume_intent`, `resume_batch_chained` | `ResumeIntent`, `ResumeBatchChained`, both through `ChargeFee` and `ResumeYield` |
| `on_intent_resumed`: approve / reject / `Err` / aborted | `DeliverApprove` / `DeliverReject` / `TimeoutFires` / `CallbackPanics` |
| payload that lost to the timeout | `DropStale` (runtime) |
| target's receipt | `TargetExecutes` (external): succeeds or fails, a failure returns the deposit |
| `continue_chain` | `ContinueChain`, `ContinueChainPanics` |
| owner's methods | `AddRelayer`, `RemoveRelayer`, `SetApprover`, `ResetBatchTail`, `SetFeeTiers`, `WithdrawFees` |
| transfer receipt of `withdraw_fees` | `PayoutSettles` (external) |
| block production | `NextBlock` (external) |

Contract fields keep their names. `pending` is the set of ids in the map, and
what an entry and a callback carry is in `intents` (the arguments are fixed when
the yield is made). `yields` are the yields the runtime still waits on;
`resumes`, `calls` and `thens` are receipts in flight, sets without an order.
`batches`, `slot`, `ran_at` and `lost` are history: no guard reads them.

A delegate is a record of what `submit_intent` tells apart: sender, nonce,
`max_block_height`, does it decode, does it verify, how many actions, and the
gas and deposit of its call. `Nep366!Submitted` computes that record from a wire:
a sequence of borsh fields, decoded and verified as `nep366.rs` does it. The gas of the callback is modelled because the
code reserves it statically: `GasSuffices` compares the call's gas, and
`continue_chain`'s when chained, with `GAS_YIELD_CALLBACK`. The callback's leftover gas, which
the default gas weight hands to the call and its `.then`, is not modelled.

**The wire** (`Nep366`). A wire is the sequence of its borsh fields, with a cell of
its own for every tag and for the count of actions; an action is one cell of a tag
and a call. `DecodesAction`, the two `ED25519` tags and the length (`try_from_slice`
refuses bytes left over) are the checks of the four `BorshDeserialize`
implementations; `SignedMessageHash` prepends the NEP-461 discriminant.

**Deployment** (`Deploy`). `command`, `position` and `stage` are the program counter of
`cmdDeploy` or `cmdClean`. Creating an account and writing its key are two steps,
and so are deploying code and calling `new`: `Interrupt` may come between any two
and keeps what is on chain and on disk. `fresh` is the answer of `ensureSubAccount`
that decides about `new`.

| code | action |
|---|---|
| `ensureSubAccount` | `AccountExisted`, or `CreateAccount` and `WriteCredential` |
| `ensureContract` | `DeployContract`, `CallNew`, `DeployThrows` |
| `cmdDeploy`, its end | `ReportReady` (with the gate's `add_relayer`), `DeployThrows` |
| `destroySubAccount` | `AccountAbsent`, or `DeleteAccount` and `RemoveCredential`; `CleanThrows` |
| `accountExists` that answers "no" to an RPC error | `AccountMisread` |

**Runs** (`SequenceRun`). `step` is where `cmdSequence` (or `runClaim`, `runReject`)
stands between two awaits.

| code | action |
|---|---|
| credentials, `makeDirectSender`, first look at the target | `Start`, `StartThrows` |
| `submitIntent` up to its broadcast / the id found / none | `SendSubmit` / `LearnId` / `AwaitThrows` |
| `feeForBatchSize`, the broadcast of the batch | `SendResume`, `FeeThrows` |
| the fixed wait is over, compare, write the record | `Compare` |
| ctrl-C, a failing request, 30 s without an outer receipt | `RunInterrupted` |
| a broadcast transaction on chain | `SubmitIncluded`, `ResumeIncluded`, `Refused`, `NonceTaken`, `TransactionLost` (external) |
| the dispatched call at its target | `CallSucceeds`, `CallFails`, around `TargetExecutes` |
| others | `StrayCall` on the targets, `GateDisturbed` by the owner or a timeout |

Only sending, learning an id and comparing are steps of the runner, and any number of steps of
the chain may lie between two of them: the fixed wait of `sequence.ts:284` is modelled by
its end, which may come at any time. `ran`, `failed`, `entries` (whose entry each
one of a target's log is) and what `done` keeps of a finished run beyond its
verdict are history.

### Assumed, and left out

* A target is a contract other than the gate. The NEAR locked by storage staking
  is not counted (`balance` is what is above it), nor are gas fees and rewards.
* A failed call's refund lands in the step of the call (`TargetExecutes`).
* Owner methods take no caller: `owner_id` is never assigned after `new`, and
  anybody else panics in `assert_owner`.
* `used_nonces` is a set of (sender, nonce) pairs; strings and hashes of the
  storage key are not modelled.
* sha256 is one-to-one and a signature verifies only for the key and message it was
  made with. Damage inside a field shows as another value of its cell; a length
  prefix of a string and the field behind it are one cell.
* `deploy` and `clean` are given before the first run only (`Begun`), and a run only
  after a deploy that reported ready. The owner, a timeout and others disturb the
  system from the first run on. Of the owner's calls `GateDisturbed` has a reset of the tail, a removed
  relayer and a new ladder; a changed approver would refuse a resume as a removed relayer refuses a
  submit, and it, `withdraw_fees` and a further `add_relayer` occur in `Gate` only. A key file that is not the account's counts as none.
* What is asked of the runner (`RunAssumption`): permutations of at most `MaxBatch`
  intents, as `parsePermutation` has them, and single intents for claim and reject.
* Values of a run are 1, 2, 3 in submission order, for the claim and reject
  variants 1; like the code's (`11 + 11i`, `100 + 17i`) they are distinct within
  a run and the same in every run.
* Views and trace lines are left out. Widths of `next_intent_id`, the counters
  and `active_batch_id` are not modelled: they grow by one per call and are
  out of reach of 64 bits, unlike the fee totals, whose width is `U128Max`.

## 3. What is checked

Bounds are constants of the modules: `MaxIntents` intents, batches up to
`MaxBatch`, heights up to `MaxHeight`, `ReceiptDelay` blocks per receipt,
`YieldTimeout` blocks per yield, `U128Max` for the width of the totals.

| run | instance | question |
|---|---|---|
| `fee_ledger` | width 5, ladders of one and two tiers (one free, one descending, one with cap 0, one empty), deposits 0..3, batches up to 4, balance up to 10 | types, smallest tier charged, never overdrawn, the pot backed by NEAR, totals monotonic |
| `gate_chain` | 3 intents, every list of up to 3 pending ids with repeats, all delays 0, timeouts at any moment | `ResumableYields`, `CountersAccount`, `NoReplay`, `ChainCursor`, `CoordinatorOrder`, `ChainInv`, `StuckExplained`, and `KeepsPromise`: `Gate` implements `IntentPromise` |
| `gate_blocks` | 3 intents, batches up to 3, delay 1, timeout 7, height up to 9, receipts and timeouts of batches on time or late | `BlockMonotonic`, `PaceInv`, `ExactUntilLate` |
| `gate_funds` | 2 intents from the wires of five signed delegates (one with a deposit, one with too much gas for a chain, one that expired, one of two calls, one of none) and of 15 ways to damage one, a paid ladder, width 2, an owner who resets at any time | types, counters, `StuckExplained`, `AcceptedAsSigned` |
| `gate_live` | 2 intents, two accounts, approver changes, delay 0, timeout 1, heights 0 and 1 | `PendingCleared`, `BatchesFinish` |
| `runner` | deploy and clean; then 2 runs, each one of: a swapped pair for either target, a batch above the last tier, a claim, a rejection; at most 2 disturbances in all | `CoordinatorOrder`, `OrderAsAsked`, `SupplyConserved`, `DeployComplete`, `MatchExplained`, `TroubleExplained`, `CalmInv`, types |
| `fee_bounce`, `gate_pot`, `gate_twice`, `gate_overlap`, `gate_expiry`, `runner_match` | as the run they are named after | section 4 |

Why the bounds are enough. Three intents are what the hard cases need: a batch of
two and a third id to resume, time out or batch beside it; a list of three with a
repeat; a batch of one followed by one of two. With delay 0 and timeout 0
(`gate_chain`) any receipt may run at any moment and any yield may time out at
any moment, so every order of receipts is covered, including those that real
delays forbid; `gate_blocks` adds the heights. The targets of a batch of
three that starts in block 0 run at heights 2, 5 and 8 if nothing is late; its third member is resumed
at 6 and its payload due at 7, the block of the timeout, so either may come first.
Height 9 leaves a spare block behind the third target, for a late receipt in either
gap, and four behind the second target of a pair: `BlockMonotonic` and `PaceInv` are
checked with gaps of three blocks and of more. `ExactUntilLate` asks for three exactly,
up to the first overdue receipt, which `TimedGate` remembers in `late`. The constraint
`TimedBound` cuts none of this. Intents are submitted in block 0 and the first batch starts there, as
do single resumes; a later batch, behind a tail that emptied or was reset, starts by block 3
(`LastStart`), when its second target is due at 8. Receipts and
timeouts outside any batch are on time, for no pace depends on them, and since intents of one
block are alike but for their ids, the first batch lists them in the order of
submission. Width 5 is passed by
two charges of the dearest tier. `BalanceBound` cuts only deposits in excess of
the fee. Symmetry is over nonces alone, which no property orders, and is not
used in the liveness run.

In `runner`, two runs are what it takes for one to meet what another left: held
intents, late transactions, a nonce taken twice, a dirty tail, a log with entries.
`MaxMishaps` is one budget for everything that disturbs (an interruption, a lost
transaction, a misread account, a timeout, an owner's call, a stray call): two of
them combine in every pair. A batch of three meets the mirror's end (`PairLadder`
stops at two); the owner may install a dearer ladder under the mirror's feet
(`DearLadder`); a supply of 4 is used up by the second swapped pair, so that a
transfer is refused. A pair is enough for order here, since `gate_chain` has the
batches of three. The runs are bounded, and the system stops after them
(`CHECK_DEADLOCK FALSE`). `OrderAsAsked` is the promise of the whole system:
whatever is lost, late, reset or left over, an intent has run only if the one
before it in the permutation the user gave has. `MatchExplained` and
`TroubleExplained` say what the runner's verdict is worth in each direction: MATCH
on entries of this run alone means the batch ran whole and in order; MISMATCH, a
changed target after a rejection, or an error have one of five named causes.

`EarlyReset = FALSE` (all runs but `gate_funds`, `runner` and `runner_match`) restricts the owner to resetting
the tail while no link of its chain is in flight: the comment of
`reset_batch_tail` calls it an "emergency cleanup if a batch failed mid-chain",
and the contract cannot tell. With an earlier reset, a `.then` of the old chain
that waits for an id can advance a new batch that has this id at its head before
its predecessor ran (`gate_chain` with `EarlyReset = TRUE` ends in this after
eleven states). The order properties are stated under this condition;
`StuckExplained`, the counters and the types are checked without it. Without an id
that is listed twice the order survives early resets too (`OrderOnceListed`), and
the runner lists every id in one batch only: `runner` checks the order there, and
`RunKeepsOrder` proves it.

**Fairness** (`Fairness`): the runtime executes every receipt it holds, one weak
fairness condition per intent and kind of receipt, and produces blocks (`gate_live` needs the next one for a timeout). No
relayer, approver or owner is assumed to act. A yield that is not resumed does
time out (NEP-519), but that is the antecedent `TimeoutsFire` of `PendingCleared`
alone: `BatchesFinish` must not owe its progress to timeouts.

`StuckExplained` says when a chain may stop: the batch listed an id twice, or a
member left the chain (resumed alone, timed out, lost its callback). The outcome
of a target never stops it. `BatchesFinish` is the same as a liveness property.

## 4. Where the code and its documentation disagree

* `fee_bounce`: a bounced withdrawal stays debited; `collected - withdrawn` is
  then less than the fees at the gate, for good.
* `gate_pot`: deposits of dispatched intents come out of the account that holds
  the fees; the ledger can promise more than the account has.
* `gate_twice`: the pre-validation of a batch accepts an id listed twice, whose
  second turn panics and leaves the tail dirty.
* `gate_overlap`: the tail is empty from the moment the last member is *resumed*,
  so the next batch can start while the previous one is unfinished.
* `gate_expiry`: `max_block_height` is checked at submission and not at dispatch.
* `runner_match`: the verdict compares the last n entries of the log "since state may
  have prior entries", but a run's values are those of the run before: a batch
  that never ran is a MATCH behind an equal one that did.

One more thing the model shows, without a run of its own: a deploy interrupted
between creating `ftShim` and its `new` is reported "ready" by the next deploy,
which skips `new` on an account that exists. `DeployComplete` states what
"ready" does mean: everything, when nothing was disturbed since the last clean
slate; otherwise code and keys of all contracts and an initialised gate.

Each is a run that TLC must end with a counterexample; `PROJECT.json` quotes the
lines.

## 5. What is proved

TLAPS checks these for every value of the constants that satisfies
`FeeAssumption` and `GateAssumption`: any number of accounts, delegates and
intents, any batch length, delay, timeout and width.

* **`FeeLedgerProofs`** (of `FeeSpec`). `LedgerInv` = types, a valid installed
  ladder and `LedgerBounded` is inductive; one lemma per action says so in
  whatever specification the action occurs, for `GateProofs` to cite. That the
  front-to-back scan stops at the first tier that fits (`FirstFit`) comes from
  the well-founded order of the naturals, and with the ladder's order it is the
  smallest such tier. Theorems `LedgerTypes`, `NeverOverdrawn`, `SmallestTier`,
  `PotBacked` (on top of `LedgerInv`), `TotalsMonotonic`.
* **`GateProofs`** (of `Spec`, with an owner who may reset at any time).
  `TypeInv` = ledger + types + `Known`: `TypeOK` alone is not inductive, since a
  callback and a failed call read the deposit from the arguments stored with the
  intent, and must find them. On top of it `LifeInv`: an intent moves one way
  through pending, yield, payload, call, run, and no stage holds it twice.
  Theorems `TypeCorrect`, `GateNeverOverdrawn`, `AlwaysResumable`,
  `NeverReplayed`, `CountersCorrect` (the last counts yields with the library's
  cardinality facts).
* **`GateChainProofs`**, order and pace (of `Spec`, assuming `EarlyReset = FALSE`). `ChainInv`
  says that the tail is what the cursor has not reached of the latest batch, and
  that the one link in flight, whatever its form, stands at the cursor and names
  the head of the tail. Most actions only take links away (`NoNewLink`); four
  lemmas follow the link through its forms: `ChainStarts`, `PayloadToCall`,
  `CallToThen`, `ThenToPayload`. `PaceInv` adds when each form was created: one
  delay or more after the form before. The same step lemmas, with equality where
  the state is `Prompt`, give the pace to the block. Theorems `OrderKept`
  (coordinator ordering), `CursorKept`, `PaceInvariant`, `PaceKept` (block monotonic) and
  `PaceExact`: a behaviour of `Spec` that is always `Prompt` keeps the quantum of
  exactly three receipts.
* **`GateChainProofs`**, refinement. `GateKeepsPromise`: `Gate` implements `IntentPromise`
  (with `EarlyReset = FALSE`). `StageOf` reads an intent's stage off the pending map, the yields and
  the receipts; one lemma per action shows that it moves one intent to a stage
  that may come next (`OneMoves`), moves none (`NoneMoves`), or gives a turn.
  Which stage an intent leaves comes from `LifeInv`; that a turn is given to a
  held member, behind a target that has run, from `ChainInv`.
* **`GateChainProofs`**, any owner (of `Spec`, with resets at any time). Here the
  tail and the links no longer agree, and two weaker invariants take `ChainInv`'s
  place. `StuckInv`: while the tail is not empty, a link in flight names its head, or
  the batch listed an id twice or lost a member. Its hard steps are those that
  remove a link: the member it resumed has either run on, and a link with the same
  head follows, or is abandoned for good. `LooseInv`: wherever a link of a reset
  chain has got to, it stands between two neighbours of the batch it came from, the
  first of which has run once the link is a `.then`. Theorems `StuckHasReason`, and
  `OrderOnceListed`: a behaviour in which no id is ever listed twice
  (`ListedOnce`) keeps the coordinator's order. The hypothesis is needed: see the
  counterexample in section 3.
* **`Nep366Proofs`**. For a wire with any number of actions: what is encoded
  decodes to itself (`RoundTrip`), what decodes is the encoding of what it decodes
  to (`Canonical`), and so what decodes and verifies is the wire a wallet makes of
  its delegate action (`VerifiedIsSigned`). The layout lemmas say which cell of the
  wire holds which field. `HeldAsSigned` takes this through the contract: in
  `SignedGate`, whatever wires relayers send, a held intent's wire is one a wallet
  made (`AcceptedAsSigned`). It assumes that signatures cannot be forged
  (`Unforged`) and that the cells of the wires are of their fields' types.
* **`DeployProofs`**. `DeployInv` has a part for every state (`PassedInv`: the accounts
  deploy has passed exist with key and code, those clean has passed have no key) and
  one for a slate not disturbed since it was clean (`SlateInv`: every account but
  the current one is whole or gone, and the current one is between two steps of
  its own). `DeployReady`: what "ready" means, after any number of deploys, cleans,
  interruptions and misread answers.
* **`RunnerProofs`** (of `RunSpec`, for any number of runs, jobs and disturbances). The
  composition is not proved from scratch: `RunIsGate` shows that every step of it is a
  step of `Gate` or leaves the gate alone, so the theorems of `GateProofs` and
  those of `GateChainProofs` for any owner hold in it, and likewise `RunDeploys`. On top of them:
  1. `RunTypeInv`, `OwnInv`: what a run has learnt are its own intents, in submission
     order; the nonce of an intent tells its run.
  2. `ListsInv`, `OnceInv`: every list in flight or in a batch is the permuted ids of
     one run, and a run has one such list at most. This gives `ListedOnce`, and with
     `OrderOnceListed` the order of batches under any resets (`RunKeepsOrder`).
  3. `TurnInv`, `RanInv`: what the approver resumed had a turn, or is the one intent of a
     claim or a rejection; the history `ran` has every intent behind the one whose
     turn was before. With 2, `RunsInOrder`: end to end, intents run in the order the
     user asked for.
  4. `LogInv`: an entry of a target's log that an intent made shows this intent's value.
     Since the values of a run are distinct and its intents run once, entries
     that match and are the run's own are its batch: `MatchIsEarned`.
  `RunnerTyped` adds the bounds.

* **`RunnerVerdictProofs`** (of `RunSpec`). `TroubleHasReason`: a verdict of trouble has
  one of five causes (`TroubleExplained`). What must be shown is the contrapositive: in
  the *calm* (no disturbance, no stray call, no finished run that looked before the
  gate was done) a run that is over has its whole batch in the log. The calm only ever
  ends, so its invariant `CalmInv` is an implication whose step lemmas start and end in
  the calm. Its parts, each resting on those before it:
  1. `ReadyInv`, `OfferInv`: the gate the runner found is the one deploy made, with the
     ladder the runner mirrors, and no nonce is in use that the runner has yet to offer
     (`OfferInv` holds out of the calm, too).
  2. `OneSentInv`: at most one transaction is out, the one the runner is at, with a nonce
     ahead of its key's; so none is refused for its nonce, and a submit that left the
     network is an intent.
  3. `FlightInv`: whatever is in flight at the gate belongs to the resume of the run
     under way. A run starts with nothing in flight since the runs before it settled.
  4. `NoneLostInv`: a submitted intent is pending, or went its way in a batch, or was
     resumed alone, and a pending member of a batch stands in the tail. With `StuckInv`
     of the gate this leaves a settled run without a member that has not run.
  5. `ProgressInv`: the members of the batch that have run are its first m, and the last
     m entries of the target's log; a target nobody resumed for, or whose intent was
     rejected, is as the run found it.
  `EndsOfRuns`, `BatchShown` and `NoTrouble` take this to the verdict: the log's tail
  shows the expected values. `RunCalm` states the invariant itself.
* **`ShimProofs`** (of `RunSpec`). `TokenConserved`: `SupplyConserved` for every supply,
  owner, log and redeployment. Its sums are folds of the community modules, which pick
  members of a set by `CHOOSE`. The prover has no induction rule that takes a formula,
  so induction over the naturals is had from a set of them that has 0 and is closed
  under + 1 (`AllNumbers`, from the well-founded order), and the induction hypotheses
  are such sets: over the size of the set summed, the fold is defined (`SumExists`), any
  member's share can be taken out first (`SumTakes`), and the sum depends on the shares
  alone (`SumAgrees`). `ShimInv` unrolls the property: over the accounts there can be,
  and over the log one move at a time (`OneMoreMove`); each transfer keeps it
  (`TransferKeeps`). The amounts are naturals since what the gate calls for is the
  intent of a run (`CalledValue`).

The proofs of `RunnerProofs`, `RunnerVerdictProofs` and `ShimProofs` assume `RunAssumption` as
well. Every inductive invariant was checked with TLC first, on the instance of the run
that has its property (`ShimInv` as the property it unrolls); `ChainInv`, `PaceInv` and
`CalmInv` stay in the runs.

**Only model-checked**: `PendingCleared` and `BatchesFinish`. Liveness under fairness, and
ENABLED, are outside the prover. `ExactUntilLate` is proved as `PaceExact`, for behaviours in
which nothing is ever late; all other properties of passing runs are stated by a theorem.

## 6. Not modelled

* the shitzu branch of `sequence.ts` and `submit.ts`: an external token on mainnet
  without a log, compared by balances;
* the timeout, bad-sig, expired and replay variants of `submit.ts`: they classify
  the traces of refusals and timeouts that `gate_funds` and `gate_chain` have;
* retries, backoff and provider choice inside one RPC request (`rpc.ts`): a request
  succeeds or fails, and the nonce makes a repeated broadcast harmless (`NonceTaken`);
* the shell (`index.ts`, `env.ts`), which keeps no state.
