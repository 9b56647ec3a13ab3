--------------------------- MODULE FeeLedgerProofs ---------------------------
(***************************************************************************)
(* What FeeLedger promises for every width, ladder, deposit and amount.    *)
(*                                                                         *)
(* LedgerInv joins the type invariant, the order of the installed ladder   *)
(* and the bound on withdrawals. Every action of the ledger preserves it,  *)
(* in whatever specification the action occurs; the lemmas below say so    *)
(* action by action, for GateProofs to cite.                               *)
(***************************************************************************)
EXTENDS FeeLedger, WellFoundedInduction, TLAPS

LadderInv == ValidLadder(fee_tiers)

LedgerInv == LedgerTypeOK /\ LadderInv /\ LedgerBounded

\* Caps and fees of the installed ladder are natural numbers.
LEMMA TierType ==
    ASSUME LedgerTypeOK, NEW i \in 1..Len(fee_tiers)
    PROVE  fee_tiers[i].cap \in Nat /\ fee_tiers[i].fee \in Nat
<1>1. fee_tiers[i] \in Tier
  BY DEF LedgerTypeOK
<1>2. QED
  BY <1>1 DEF Tier

(***************************************************************************)
(* First fit exists: when a tier admits n, the scan stops at one, and all  *)
(* tiers before it do not admit n.                                         *)
(***************************************************************************)
LEMMA FirstFit ==
    ASSUME LedgerTypeOK, NEW n \in Nat, Covered(n)
    PROVE  /\ TierFor(n) \in 1..Len(fee_tiers)
           /\ n <= fee_tiers[TierFor(n)].cap
           /\ \A j \in 1..(TierFor(n) - 1) : n > fee_tiers[j].cap
<1> DEFINE Fit == {i \in 1..Len(fee_tiers) : n <= fee_tiers[i].cap}
<1>1. Fit \subseteq Nat /\ Fit # {}
  BY DEF Covered, LedgerTypeOK
<1>2. PICK i \in Fit : \A j \in Fit : ~(<<j, i>> \in OpToRel(<, Nat))
  BY <1>1, NatLessThanWellFounded, WFMin, Zenon
<1>3. \A j \in Fit : ~(j < i)
  BY <1>1, <1>2 DEF OpToRel
<1>4. \A j \in 1..Len(fee_tiers) : fee_tiers[j].cap \in Nat
  BY TierType
<1>5. Len(fee_tiers) \in Nat
  BY DEF LedgerTypeOK
<1>6. \A j \in 1..(i - 1) : n > fee_tiers[j].cap
  BY <1>1, <1>3, <1>4, <1>5
<1>7. QED
  BY <1>6 DEF TierFor

\* The fee of an admitted batch is a natural number.
LEMMA FeeForType ==
    ASSUME LedgerTypeOK, NEW n \in Nat, Covered(n)
    PROVE  FeeFor(n) \in Nat
BY FirstFit, TierType DEF FeeFor

LEMMA ChargeFeeInv ==
    ASSUME LedgerInv, FeeAssumption,
           NEW n \in Nat, NEW attached \in Deposits, ChargeFee(n, attached)
    PROVE  LedgerInv'
<1>1. FeeFor(n) \in Nat /\ attached \in Nat
  BY FeeForType DEF ChargeFee, LedgerInv, FeeAssumption
<1>2. QED
  BY <1>1 DEF LedgerInv, LedgerTypeOK, LadderInv, ValidLadder, LedgerBounded,
              ChargeFee, Collect, FeeAssumption

LEMMA SetFeeTiersInv ==
    ASSUME LedgerInv, FeeAssumption, NEW tiers \in TierChoices, SetFeeTiers(tiers)
    PROVE  LedgerInv'
BY DEF LedgerInv, LedgerTypeOK, LadderInv, ValidLadder, LedgerBounded,
       SetFeeTiers, FeeAssumption

LEMMA WithdrawFeesInv ==
    ASSUME LedgerInv, FeeAssumption, NEW amount \in 0..U128Max, WithdrawFees(amount)
    PROVE  LedgerInv'
BY DEF LedgerInv, LedgerTypeOK, LadderInv, ValidLadder, LedgerBounded,
       WithdrawFees, Debit, Available, FeeAssumption

LEMMA PayoutSettlesInv ==
    ASSUME LedgerInv, FeeAssumption, NEW p \in payouts, NEW delivered \in BOOLEAN,
           PayoutSettles(p, delivered)
    PROVE  LedgerInv'
<1>1. p.amount \in Nat
  BY DEF LedgerInv, LedgerTypeOK
<1>2. QED
  BY <1>1 DEF LedgerInv, LedgerTypeOK, LadderInv, ValidLadder, LedgerBounded,
              PayoutSettles

LEMMA LedgerInvInit == ASSUME FeeAssumption, FeeInit PROVE LedgerInv
BY DEF LedgerInv, LedgerTypeOK, LadderInv, LedgerBounded, FeeInit, FeeAssumption

LEMMA LedgerInvStutter == ASSUME LedgerInv, UNCHANGED feeVars PROVE LedgerInv'
BY DEF LedgerInv, LedgerTypeOK, LadderInv, ValidLadder, LedgerBounded, feeVars

(***************************************************************************)
(* On its own the ledger never leaves LedgerInv.                           *)
(***************************************************************************)
THEOREM LedgerInvariant == FeeSpec => []LedgerInv
<1>1. FeeInit => LedgerInv
  BY LedgerInvInit, FeeAssumption
<1>2. LedgerInv /\ [FeeNext]_feeVars => LedgerInv'
  <2> SUFFICES ASSUME LedgerInv, [FeeNext]_feeVars PROVE LedgerInv'
    OBVIOUS
  <2>1. ASSUME NEW n \in 1..MaxBatch, NEW attached \in Deposits, ChargeFee(n, attached)
        PROVE  LedgerInv'
    BY <2>1, ChargeFeeInv, FeeAssumption
  <2>2. CASE OwnerFeeNext
    BY <2>2, SetFeeTiersInv, WithdrawFeesInv, FeeAssumption DEF OwnerFeeNext
  <2>3. CASE PayoutNext
    BY <2>3, PayoutSettlesInv, FeeAssumption DEF PayoutNext
  <2>4. CASE UNCHANGED feeVars
    BY <2>4, LedgerInvStutter
  <2>5. QED
    BY <2>1, <2>2, <2>3, <2>4 DEF FeeNext
<1>3. QED
  BY <1>1, <1>2, PTL DEF FeeSpec

(***************************************************************************)
(* Every ledger total stays within the width of its field.                 *)
(***************************************************************************)
THEOREM LedgerTypes == FeeSpec => []LedgerTypeOK
<1>1. LedgerInv => LedgerTypeOK
  BY DEF LedgerInv
<1>2. QED
  BY <1>1, LedgerInvariant, PTL

(***************************************************************************)
(* The owner never withdraws more than was collected.                      *)
(***************************************************************************)
THEOREM NeverOverdrawn == FeeSpec => []LedgerBounded
<1>1. LedgerInv => LedgerBounded
  BY DEF LedgerInv
<1>2. QED
  BY <1>1, LedgerInvariant, PTL

(***************************************************************************)
(* Whatever ladder set_fee_tiers admits, in whatever order the fees are,   *)
(* fee_for charges the tier with the smallest cap that holds the batch.    *)
(***************************************************************************)
LEMMA ValidLadderCharges ==
    ASSUME LedgerInv, FeeAssumption PROVE SmallestTierCharged
<1> SUFFICES ASSUME NEW n \in 1..MaxBatch, Covered(n),
                    NEW i \in 1..Len(fee_tiers), n <= fee_tiers[i].cap
             PROVE  fee_tiers[TierFor(n)].cap <= fee_tiers[i].cap
  BY DEF SmallestTierCharged
<1> DEFINE t == TierFor(n)
<1>1. n \in Nat /\ \A j \in 1..Len(fee_tiers) : fee_tiers[j].cap \in Nat
  BY TierType, FeeAssumption DEF LedgerInv, FeeAssumption
<1>2. t \in 1..Len(fee_tiers) /\ \A j \in 1..(t - 1) : n > fee_tiers[j].cap
  BY <1>1, FirstFit DEF LedgerInv
<1>3. ~(i < t)
  BY <1>1, <1>2
<1>4. t < i => fee_tiers[t].cap < fee_tiers[i].cap
  BY <1>2 DEF LedgerInv, LadderInv, ValidLadder
<1>5. QED
  BY <1>1, <1>2, <1>3, <1>4

(***************************************************************************)
(* The front-to-back scan of charge_fee stops at the smallest tier that    *)
(* holds the batch, whatever ladder set_fee_tiers has installed.           *)
(***************************************************************************)
THEOREM SmallestTier == FeeSpec => []SmallestTierCharged
<1>1. LedgerInv => SmallestTierCharged
  BY ValidLadderCharges, FeeAssumption
<1>2. QED
  BY <1>1, LedgerInvariant, PTL

(***************************************************************************)
(* As long as nothing but fees and withdrawals moves the gate's NEAR, the  *)
(* account holds what the ledger offers.                                   *)
(***************************************************************************)
THEOREM PotBacked == FeeSpec => []FeePotBacked
<1>1. FeeInit => FeePotBacked
  BY FeeAssumption DEF FeeInit, FeePotBacked, FeeAssumption
<1>2. LedgerInv /\ FeePotBacked /\ [FeeNext]_feeVars => FeePotBacked'
  <2> SUFFICES ASSUME LedgerInv, FeePotBacked, [FeeNext]_feeVars PROVE FeePotBacked'
    OBVIOUS
  <2>1. /\ fees_collected_total \in Nat /\ fees_withdrawn_total \in Nat /\ balance \in Nat
        /\ \A p \in payouts : p.amount \in Nat
    BY FeeAssumption DEF LedgerInv, LedgerTypeOK, FeeAssumption
  <2>2. ASSUME NEW n \in 1..MaxBatch, NEW attached \in Deposits, ChargeFee(n, attached)
        PROVE  FeePotBacked'
    <3>1. FeeFor(n) \in Nat /\ attached \in Nat
      BY <2>2, FeeForType, FeeAssumption DEF ChargeFee, LedgerInv, FeeAssumption
    <3>2. QED
      BY <2>1, <2>2, <3>1 DEF ChargeFee, Collect, Covers, FeePotBacked
  <2>3. ASSUME NEW tiers \in TierChoices, SetFeeTiers(tiers) PROVE FeePotBacked'
    BY <2>3 DEF SetFeeTiers, FeePotBacked
  <2>4. ASSUME NEW amount \in 0..U128Max, WithdrawFees(amount) PROVE FeePotBacked'
    BY <2>1, <2>4, FeeAssumption DEF WithdrawFees, Debit, FeePotBacked, FeeAssumption
  <2>5. ASSUME NEW p \in payouts, NEW delivered \in BOOLEAN, PayoutSettles(p, delivered)
        PROVE  FeePotBacked'
    BY <2>1, <2>5 DEF PayoutSettles, FeePotBacked
  <2>6. CASE UNCHANGED feeVars
    BY <2>6 DEF feeVars, FeePotBacked
  <2>7. QED
    BY <2>2, <2>3, <2>4, <2>5, <2>6 DEF FeeNext, OwnerFeeNext, PayoutNext
<1>3. QED
  BY <1>1, <1>2, LedgerInvariant, PTL DEF FeeSpec

(***************************************************************************)
(* Both lifetime totals only ever grow.                                    *)
(***************************************************************************)
THEOREM TotalsMonotonic == FeeSpec => LedgerMonotonic
<1>1. LedgerInv /\ [FeeNext]_feeVars
        => [/\ fees_collected_total' >= fees_collected_total
            /\ fees_withdrawn_total' >= fees_withdrawn_total]_feeVars
  <2> SUFFICES ASSUME LedgerInv, FeeNext
               PROVE  /\ fees_collected_total' >= fees_collected_total
                      /\ fees_withdrawn_total' >= fees_withdrawn_total
    OBVIOUS
  <2>1. fees_collected_total \in Nat /\ fees_withdrawn_total \in Nat
    BY FeeAssumption DEF LedgerInv, LedgerTypeOK, FeeAssumption
  <2>2. ASSUME NEW n \in 1..MaxBatch, NEW attached \in Deposits, ChargeFee(n, attached)
        PROVE  fees_collected_total' >= fees_collected_total
                 /\ fees_withdrawn_total' = fees_withdrawn_total
    <3>1. FeeFor(n) \in Nat
      BY <2>2, FeeForType, FeeAssumption DEF ChargeFee, LedgerInv, FeeAssumption
    <3>2. QED
      BY <2>1, <2>2, <3>1 DEF ChargeFee, Collect
  <2>3. ASSUME NEW amount \in 0..U128Max, WithdrawFees(amount)
        PROVE  fees_withdrawn_total' >= fees_withdrawn_total
                 /\ fees_collected_total' = fees_collected_total
    BY <2>1, <2>3, FeeAssumption DEF WithdrawFees, Debit, FeeAssumption
  <2>4. ASSUME NEW tiers \in TierChoices, SetFeeTiers(tiers)
        PROVE  UNCHANGED <<fees_collected_total, fees_withdrawn_total>>
    BY <2>4 DEF SetFeeTiers
  <2>5. ASSUME NEW p \in payouts, NEW delivered \in BOOLEAN, PayoutSettles(p, delivered)
        PROVE  UNCHANGED <<fees_collected_total, fees_withdrawn_total>>
    BY <2>5 DEF PayoutSettles
  <2>6. QED
    BY <2>1, <2>2, <2>3, <2>4, <2>5 DEF FeeNext, OwnerFeeNext, PayoutNext
<1>2. QED
  BY <1>1, LedgerInvariant, PTL DEF FeeSpec, LedgerMonotonic
=============================================================================
