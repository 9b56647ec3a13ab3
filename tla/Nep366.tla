-------------------------------- MODULE Nep366 --------------------------------
(***************************************************************************)
(* The wire format and the signature of a signed delegate                  *)
(* (contracts/gate/src/nep366.rs).                                         *)
(*                                                                         *)
(* A wire is the sequence of its borsh fields: a cell for each tag, length *)
(* and value, and one cell [tag, call] for each action. Damage inside a    *)
(* field shows as another value of its cell. sha256 and ed25519 are ideal: *)
(* a hash is the message it is of, and a signature verifies only for the   *)
(* key and the message it was made with.                                   *)
(***************************************************************************)
EXTENDS Naturals, Sequences

NEP_366_DELEGATE_DISCRIMINANT == 2^30 + 366
ED25519 == 0
ACTION_TAG_FUNCTION_CALL == 2
ACTION_TAG_DELEGATE == 8

-----------------------------------------------------------------------------
\* Serialisation

EncodeEd25519(bytes) == <<ED25519, bytes>>

EncodeAction(call) == [tag |-> ACTION_TAG_FUNCTION_CALL, call |-> call]

EncodeDelegate(d) ==
    <<d.sender_id, d.receiver_id, Len(d.actions)>>
    \o [k \in 1..Len(d.actions) |-> EncodeAction(d.actions[k])]
    \o <<d.nonce, d.max_block_height>> \o EncodeEd25519(d.public_key)

Encode(s) == EncodeDelegate(s.delegate_action) \o EncodeEd25519(s.signature)

-----------------------------------------------------------------------------
\* Deserialisation

\* A nested delegate and every other variant fail.
DecodesAction(cell) == cell.tag = ACTION_TAG_FUNCTION_CALL

Count(w) == w[3]

\* Every field is there with a tag the gate knows; more may follow.
DecodesPrefix(w) ==
    /\ Len(w) >= 3 /\ Count(w) \in Nat
    /\ Len(w) >= Count(w) + 9
    /\ \A k \in 1..Count(w) : DecodesAction(w[k + 3])
    /\ w[Count(w) + 6] = ED25519 /\ w[Count(w) + 8] = ED25519

\* try_from_slice also wants nothing left over.
Decodes(w) == DecodesPrefix(w) /\ Len(w) = Count(w) + 9

DecodeDelegate(w) ==
    [sender_id |-> w[1], receiver_id |-> w[2],
     actions |-> [k \in 1..Count(w) |-> w[k + 3].call],
     nonce |-> w[Count(w) + 4], max_block_height |-> w[Count(w) + 5],
     public_key |-> w[Count(w) + 7]]

Decode(w) == [delegate_action |-> DecodeDelegate(w), signature |-> w[Count(w) + 9]]

-----------------------------------------------------------------------------
\* Hash, signature and the one call

HashWithoutNonce(d) ==
    <<NEP_366_DELEGATE_DISCRIMINANT>> \o EncodeDelegate([d EXCEPT !.nonce = ""])

SignedMessageHash(d) == <<NEP_366_DELEGATE_DISCRIMINANT>> \o EncodeDelegate(d)

Signature(key, hash) == [by |-> key, of |-> hash]

\* What a wallet makes of a delegate action.
SignDelegate(d) ==
    [delegate_action |-> d, signature |-> Signature(d.public_key, SignedMessageHash(d))]

Verify(s) ==
    LET d == s.delegate_action
    IN  s.signature = Signature(d.public_key, SignedMessageHash(d))

RequireSingleFunctionCall(d) == Len(d.actions) = 1

-----------------------------------------------------------------------------

(***************************************************************************)
(* What submit_intent learns of a wire. Of one that does not decode it     *)
(* learns just that.                                                       *)
(***************************************************************************)
Undecodable(w) ==
    [wire |-> w, decodes |-> FALSE, verifies |-> FALSE, sender |-> "", nonce |-> "",
     max_block_height |-> 0, actions |-> 0, gas |-> 0, deposit |-> 0]

Submitted(w) ==
    IF ~Decodes(w) THEN Undecodable(w)
    ELSE LET d == DecodeDelegate(w)
             single == RequireSingleFunctionCall(d)
         IN  [wire |-> w, decodes |-> TRUE, verifies |-> Verify(Decode(w)),
              sender |-> d.sender_id, nonce |-> d.nonce,
              max_block_height |-> d.max_block_height, actions |-> Len(d.actions),
              gas |-> IF single THEN d.actions[1].gas ELSE 0,
              deposit |-> IF single THEN d.actions[1].deposit ELSE 0]
=============================================================================
