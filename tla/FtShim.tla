-------------------------------- MODULE FtShim --------------------------------
(***************************************************************************)
(* The ft-shim target (contracts/ft-shim/src/lib.rs): balances that move   *)
(* from the caller of transfer to its receiver, and the log of all moves.  *)
(* An account without an entry has balance 0.                              *)
(***************************************************************************)
EXTENDS Naturals, Sequences, FiniteSetsExt, Functions

CONSTANTS
    MaxBalance,   \* u128::MAX
    FtOwner       \* the account `new` gives all supply to

VARIABLES total_supply, balances, transfer_log

ftVars == <<total_supply, balances, transfer_log>>

NoEntries == [a \in {} |-> 0]

\* No state: the account is empty, or `new` has not run.
FtAbsent == total_supply = 0 /\ balances = NoEntries /\ transfer_log = <<>>

FtNew(supply) ==
    /\ total_supply' = supply
    /\ balances' = [a \in {FtOwner} |-> supply]
    /\ transfer_log' = <<>>

FtDestroyed == total_supply' = 0 /\ balances' = NoEntries /\ transfer_log' = <<>>

BalanceOf(a) == IF a \in DOMAIN balances THEN balances[a] ELSE 0

GetTransferLog == transfer_log

CanTransferToSelf(sender, receiver, amount) ==
    /\ amount > 0
    /\ BalanceOf(sender) >= amount
    /\ BalanceOf(receiver) + amount <= MaxBalance

CanTransfer(sender, receiver, amount) ==
    /\ amount > 0
    /\ sender # receiver
    /\ BalanceOf(sender) >= amount
    /\ BalanceOf(receiver) + amount <= MaxBalance

\* The map with a's entry set to b.
Insert(map, a, b) == [x \in DOMAIN map \cup {a} |-> IF x = a THEN b ELSE map[x]]

(***************************************************************************)
(* Both balances are read first; the sender's entry is written, or removed *)
(* at zero, before the receiver's.                                         *)
(***************************************************************************)
Transfer(sender, receiver, amount) ==
    LET left == BalanceOf(sender) - amount
        debited == IF left = 0 THEN Restrict(balances, DOMAIN balances \ {sender})
                   ELSE Insert(balances, sender, left)
    IN  /\ CanTransfer(sender, receiver, amount)
        /\ balances' = Insert(debited, receiver, BalanceOf(receiver) + amount)
        /\ transfer_log' = Append(transfer_log, <<sender, receiver, amount>>)
        /\ UNCHANGED total_supply

-----------------------------------------------------------------------------

\* What account a was sent (end = 2) or sent itself (end = 1).
Moved(a, end) ==
    MapThenSumSet(LAMBDA k : IF transfer_log[k][end] = a THEN transfer_log[k][3] ELSE 0,
                  DOMAIN transfer_log)

(***************************************************************************)
(* transfer moves and never makes or loses: the balances sum up to the     *)
(* supply, no entry is left at zero (but the owner's of an empty supply),  *)
(* and every balance is what the log says went in and out of it.           *)
(***************************************************************************)
SupplyConserved ==
    /\ MapThenSumSet(BalanceOf, DOMAIN balances) = total_supply
    /\ \A a \in DOMAIN balances : balances[a] > 0 \/ total_supply = 0
    /\ \A a \in {FtOwner} \cup UNION {{m[1], m[2]} : m \in Range(transfer_log)} :
          BalanceOf(a) + Moved(a, 1) = Moved(a, 2) + (IF a = FtOwner THEN total_supply ELSE 0)
=============================================================================
