----------------------------- MODULE SignedGate -----------------------------
(***************************************************************************)
(* The gate behind its wire format: a relayer submits wires, and of each   *)
(* the gate reads what nep366.rs decodes and verifies (lib.rs,             *)
(* submit_intent).                                                         *)
(***************************************************************************)
EXTENDS Gate, Nep366

CONSTANTS
    Wishes,        \* the delegate actions a wallet has signed
    Wires          \* what relayers send: signed, damaged on the way or made up

(***************************************************************************)
(* Ed25519 cannot be forged: a signature that verifies is one the wallet   *)
(* made, though not necessarily for the delegate it comes with.            *)
(***************************************************************************)
Unforged ==
    \A w \in Wires : Decodes(w) /\ Verify(Decode(w)) =>
        \E d \in Wishes : Decode(w).signature = SignDelegate(d).signature

ASSUME SignedAssumption == Delegates = {Submitted(w) : w \in Wires} /\ Unforged

(***************************************************************************)
(* The gate holds an intent only for a wire exactly as a wallet signed it: *)
(* no field, tag, length or trailing byte can differ from what was signed  *)
(* and still decode and verify.                                            *)
(***************************************************************************)
AcceptedAsSigned ==
    \A i \in Ids : intents[i] # None =>
        Delegate(i).wire \in {Encode(SignDelegate(d)) : d \in Wishes}
=============================================================================
