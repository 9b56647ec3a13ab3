------------------------------ MODULE FeeLedger ------------------------------
(***************************************************************************)
(* The fee ladder and the fee ledger of the gate contract                  *)
(* (contracts/gate/src/lib.rs): what a resume is charged, what the owner   *)
(* may withdraw, and the NEAR on the gate account that both are about.     *)
(*                                                                         *)
(* A call that panics reverts everything it did, so an action's guard is   *)
(* the conjunction of the call's require!s, and a refused call is no step. *)
(* The owner's calls need no caller: owner_id never changes, and a call of *)
(* anyone else panics in assert_owner.                                     *)
(*                                                                         *)
(* Gate.tla extends this module; FeeSpec below is the ledger on its own,   *)
(* without the deposits that dispatched intents carry away.                *)
(***************************************************************************)
EXTENDS Naturals, Sequences, FiniteSets

CONSTANTS
    U128Max,          \* largest value of the two ledger totals
    InitBalance,      \* NEAR above the storage stake when new() runs
    DefaultFeeTiers,  \* the ladder new() installs
    TierChoices,      \* the ladders the owner asks for
    Deposits,         \* what an approver attaches to a resume
    MaxBatch          \* longest batch an approver submits

VARIABLES
    fee_tiers,              \* ladder: sequence of [cap, fee]
    fees_collected_total,
    fees_withdrawn_total,
    balance,                \* NEAR of the gate above its storage stake
    payouts,                \* transfers of withdraw_fees not yet executed
    paid_out                \* history: what those transfers have delivered

feeVars == <<fee_tiers, fees_collected_total, fees_withdrawn_total, balance,
             payouts, paid_out>>

\* A fee tier: batches of up to cap intents cost fee.
Tier == [cap : Nat, fee : Nat]

(***************************************************************************)
(* set_fee_tiers: non-empty, every cap above zero and above the caps       *)
(* before it. The code compares neighbours; over a transitive order that   *)
(* is every pair.                                                          *)
(***************************************************************************)
LadderUnordered(tiers) ==
    tiers # <<>> /\ \A i \in 1..Len(tiers) : tiers[i].cap > 0

ValidLadder(tiers) ==
    /\ tiers # <<>>
    /\ \A i \in 1..Len(tiers) : tiers[i].cap > 0
    /\ \A i, j \in 1..Len(tiers) : i < j => tiers[i].cap < tiers[j].cap

ASSUME FeeAssumption ==
    /\ U128Max \in Nat /\ InitBalance \in Nat /\ MaxBatch \in Nat
    /\ Deposits \subseteq Nat
    /\ TierChoices \subseteq Seq(Tier)
    /\ DefaultFeeTiers \in Seq(Tier) /\ ValidLadder(DefaultFeeTiers)

(***************************************************************************)
(* fee_for: scan the ladder from the front, stop at the first tier whose   *)
(* cap admits n. A batch that no tier admits panics.                       *)
(***************************************************************************)
Covered(n) == \E i \in 1..Len(fee_tiers) : n <= fee_tiers[i].cap

TierFor(n) ==
    CHOOSE i \in 1..Len(fee_tiers) :
        /\ n <= fee_tiers[i].cap
        /\ \A j \in 1..(i - 1) : n > fee_tiers[j].cap

FeeFor(n) == fee_tiers[TierFor(n)].fee

\* What withdraw_fees may pay out (checked_sub, or 0).
Available ==
    IF fees_withdrawn_total <= fees_collected_total
    THEN fees_collected_total - fees_withdrawn_total
    ELSE 0

\* The two checked_adds: they panic where the field would overflow.
CollectWrapping(fee) ==
    fees_collected_total' = (fees_collected_total + fee) % (U128Max + 1)

CollectUnchecked(fee) == fees_collected_total' = fees_collected_total + fee

Collect(fee) ==
    /\ fees_collected_total + fee <= U128Max
    /\ fees_collected_total' = fees_collected_total + fee

DebitUnbounded(amount) ==
    /\ fees_withdrawn_total + amount <= U128Max
    /\ fees_withdrawn_total' = fees_withdrawn_total + amount

Debit(amount) ==
    /\ amount <= Available
    /\ fees_withdrawn_total + amount <= U128Max
    /\ fees_withdrawn_total' = fees_withdrawn_total + amount

FeeInit ==
    /\ fee_tiers = DefaultFeeTiers
    /\ fees_collected_total = 0
    /\ fees_withdrawn_total = 0
    /\ balance = InitBalance
    /\ payouts = {}
    /\ paid_out = 0

(***************************************************************************)
(* charge_fee(n) of a call with the given deposit attached. The ledger     *)
(* records the fee of the tier; the whole deposit stays on the account.    *)
(***************************************************************************)
CoversAny(attached, fee) == TRUE

Covers(attached, fee) == attached >= fee

ChargeFee(n, attached) ==
    /\ Covered(n)
    /\ Covers(attached, FeeFor(n))
    /\ Collect(FeeFor(n))
    /\ balance' = balance + attached
    /\ UNCHANGED <<fee_tiers, fees_withdrawn_total, payouts, paid_out>>

SetFeeTiers(tiers) ==
    /\ ValidLadder(tiers)
    /\ fee_tiers' = tiers
    /\ UNCHANGED <<fees_collected_total, fees_withdrawn_total, balance,
                   payouts, paid_out>>

(***************************************************************************)
(* withdraw_fees: debit the ledger, then create the transfer; the runtime  *)
(* takes the NEAR from the account with the receipt and panics the call    *)
(* when the account does not have it. A transfer is named by the withdrawn *)
(* total it brought the ledger to.                                         *)
(***************************************************************************)
WithdrawFees(amount) ==
    /\ Debit(amount)
    /\ amount <= balance
    /\ balance' = balance - amount
    /\ payouts' = payouts \cup
                    {[amount |-> amount, upto |-> fees_withdrawn_total + amount]}
    /\ UNCHANGED <<fee_tiers, fees_collected_total, paid_out>>

(***************************************************************************)
(* The transfer receipt executes: it reaches its account, or that account  *)
(* does not exist and the runtime refunds the gate. No callback is         *)
(* attached, so the ledger hears of neither.                               *)
(***************************************************************************)
PayoutSettles(p, delivered) ==
    /\ payouts' = payouts \ {p}
    /\ IF delivered
       THEN paid_out' = paid_out + p.amount /\ UNCHANGED balance
       ELSE balance' = balance + p.amount /\ UNCHANGED paid_out
    /\ UNCHANGED <<fee_tiers, fees_collected_total, fees_withdrawn_total>>

OwnerFeeNext ==
    \/ \E tiers \in TierChoices : SetFeeTiers(tiers)
    \/ \E amount \in 0..U128Max : WithdrawFees(amount)

PayoutNext ==
    \E p \in payouts, delivered \in BOOLEAN : PayoutSettles(p, delivered)

FeeNext ==
    \/ \E n \in 1..MaxBatch, attached \in Deposits : ChargeFee(n, attached)
    \/ OwnerFeeNext
    \/ PayoutNext

FeeSpec == FeeInit /\ [][FeeNext]_feeVars

-----------------------------------------------------------------------------

(***************************************************************************)
(* Types; the two totals stay within the width of their fields.            *)
(***************************************************************************)
LedgerTypeOK ==
    /\ fee_tiers \in Seq(Tier)
    /\ fees_collected_total \in 0..U128Max
    /\ fees_withdrawn_total \in 0..U128Max
    /\ balance \in Nat
    /\ payouts \subseteq [amount : Nat, upto : Nat]
    /\ paid_out \in Nat

(***************************************************************************)
(* No batch pays for a larger tier than it needs: of all tiers that admit  *)
(* n, fee_for's front-to-back scan stops at the one with the smallest cap. *)
(* It rests on the order set_fee_tiers enforces, whatever the fees are.    *)
(***************************************************************************)
SmallestTierCharged ==
    \A n \in 1..MaxBatch : Covered(n) =>
        \A i \in 1..Len(fee_tiers) :
            n <= fee_tiers[i].cap => fee_tiers[TierFor(n)].cap <= fee_tiers[i].cap

(***************************************************************************)
(* The ledger is never overdrawn: the owner has not withdrawn more than    *)
(* was collected, whatever was withdrawn before, in flight or bounced.     *)
(***************************************************************************)
LedgerBounded == fees_withdrawn_total <= fees_collected_total

(***************************************************************************)
(* The fee pot is backed by NEAR: whatever collected - withdrawn says is   *)
(* available is on the account (comment of fees_withdrawn_total: the       *)
(* account "may exceed this"). Charges, withdrawals and bounced transfers  *)
(* keep it so.                                                             *)
(***************************************************************************)
FeePotBacked == balance + fees_withdrawn_total >= fees_collected_total

(***************************************************************************)
(* Lifetime totals are monotonic, as both doc comments say, also when the  *)
(* next charge would pass the width of the field.                          *)
(***************************************************************************)
LedgerMonotonic ==
    [][/\ fees_collected_total' >= fees_collected_total
       /\ fees_withdrawn_total' >= fees_withdrawn_total]_feeVars

(***************************************************************************)
(* Refuted: "collected - withdrawn is the fee-balance available for        *)
(* withdraw". Once no transfer is in flight, the fees still at the gate    *)
(* are what the ledger offers. A bounced transfer leaves its amount at the *)
(* gate and outside the ledger for ever.                                   *)
(***************************************************************************)
AvailableIsFeeBalance ==
    payouts = {} => Available = fees_collected_total - paid_out
=============================================================================
