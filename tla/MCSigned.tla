------------------------------ MODULE MCSigned ------------------------------
(***************************************************************************)
(* SignedGate for TLC: five wishes of a wallet, and every kind of damage   *)
(* to the wire of one of them.                                             *)
(***************************************************************************)
EXTENDS SignedGate, MCGate

\* A delegate action of the wallet with one call for each gas and deposit given.
Wish(n, expiry, costs) ==
    [sender_id |-> Sender, receiver_id |-> "target", nonce |-> n,
     max_block_height |-> expiry, public_key |-> "key",
     actions |-> [k \in 1..Len(costs) |->
                     [method_name |-> "m", gas |-> costs[k][1], deposit |-> costs[k][2]]]]

\* One call with a deposit, one that fills the callback's gas and so cannot be
\* chained from, one expired, one of two calls and one of none.
WalletWishes ==
    {Wish("a", 1, <<<<1, 2>>>>), Wish("b", 1, <<<<CallbackGas, 0>>>>),
     Wish("c", 0, <<<<1, 0>>>>), Wish("c", 1, <<<<1, 0>>, <<1, 0>>>>), Wish("c", 1, <<>>)}

WalletWires == {Encode(SignDelegate(d)) : d \in WalletWishes}

(***************************************************************************)
(* What can become of the wire of one call on its way: a field changed, a  *)
(* byte too few or too many, a tag of another variant or key type, and a   *)
(* signature made without the discriminant.                                *)
(***************************************************************************)
Damages ==
    {<<1, "other">>, <<2, "other">>, <<3, 0>>, <<3, 2>>, <<5, "other">>, <<6, 2>>,
     <<7, ED25519 + 1>>, <<8, "other">>, <<9, ED25519 + 1>>, <<10, Signature("key", <<>>)>>,
     <<4, [tag |-> ACTION_TAG_DELEGATE, call |-> "nested"]>>,
     <<4, EncodeAction([method_name |-> "m", gas |-> 1, deposit |-> 0])>>,
     <<10, Signature("key", EncodeDelegate(Wish("a", 1, <<<<1, 2>>>>)))>>}

DamagedWires ==
    LET w == Encode(SignDelegate(Wish("a", 1, <<<<1, 2>>>>)))
    IN  {[w EXCEPT ![x[1]] = x[2]] : x \in Damages}
        \cup {Append(w, "more"), SubSeq(w, 1, Len(w) - 1)}

AllWires == WalletWires \cup DamagedWires

FundsDelegates == {Submitted(w) : w \in AllWires}
=============================================================================
