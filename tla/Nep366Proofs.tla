------------------------------ MODULE Nep366Proofs ------------------------------
(***************************************************************************)
(* The codec for delegates of any number of actions and fields of any      *)
(* type: it loses nothing, it accepts one form only, and so a signature    *)
(* that verifies fixes the whole wire. Hence what the gate holds is what a *)
(* wallet signed.                                                          *)
(***************************************************************************)
EXTENDS SignedGate, GateProofs

\* A set that holds whatever a cell can be.
IsCells(Cells, Calls) ==
    Nat \subseteq Cells /\ \A c \in Calls : EncodeAction(c) \in Cells

DelegateActions(Cells, Calls) ==
    [sender_id : Cells, receiver_id : Cells, actions : Seq(Calls), nonce : Cells,
     max_block_height : Cells, public_key : Cells]

SignedDelegateActions(Cells, Calls) ==
    [delegate_action : DelegateActions(Cells, Calls), signature : Cells]

\* Wires of cells; where actions are counted there are cells of actions.
IsWire(w, Cells, Calls) ==
    /\ w \in Seq(Cells)
    /\ \A k \in 4..Len(w) : k <= Count(w) + 3 => w[k] \in [tag : Nat, call : Calls]

\* Where the elements of a concatenation are.
IsJoin(a, s, t) ==
    /\ Len(a) = Len(s) + Len(t)
    /\ \A k \in 1..Len(s) : a[k] = s[k]
    /\ \A k \in 1..Len(t) : a[k + Len(s)] = t[k]

LEMMA Joined ==
    ASSUME NEW S, NEW s \in Seq(S), NEW t \in Seq(S)
    PROVE  s \o t \in Seq(S) /\ IsJoin(s \o t, s, t)
BY DEF IsJoin

\* Where the elements of the three parts of a delegate are, and of its key.
HasParts(e, s, t, u, v, n) ==
    /\ Len(e) = n + 7
    /\ e[1] = s[1] /\ e[2] = s[2] /\ e[3] = s[3]
    /\ \A k \in 1..n : e[k + 3] = t[k]
    /\ e[n + 4] = u[1] /\ e[n + 5] = u[2]
    /\ e[n + 6] = v[1] /\ e[n + 7] = v[2]

LEMMA JoinedParts ==
    ASSUME NEW S, NEW s \in Seq(S), NEW t \in Seq(S), NEW u \in Seq(S), NEW v \in Seq(S),
           NEW a \in Seq(S), IsJoin(a, s, t), NEW b \in Seq(S), IsJoin(b, a, u),
           NEW e \in Seq(S), IsJoin(e, b, v),
           NEW n \in Nat, n = Len(t), Len(s) = 3, Len(u) = 2, Len(v) = 2
    PROVE  HasParts(e, s, t, u, v, n)
<1>1. /\ Len(a) = n + 3
      /\ a[1] = s[1] /\ a[2] = s[2] /\ a[3] = s[3]
      /\ \A k \in 1..n : a[k + 3] = t[k]
  BY DEF IsJoin
<1>2. /\ Len(b) = n + 5
      /\ \A k \in 1..(n + 3) : b[k] = a[k]
      /\ b[n + 4] = u[1] /\ b[n + 5] = u[2]
  <2>1. /\ Len(b) = n + 5
        /\ \A k \in 1..(n + 3) : b[k] = a[k]
        /\ b[1 + (n + 3)] = u[1] /\ b[2 + (n + 3)] = u[2]
    BY <1>1 DEF IsJoin
  <2>2. 1 + (n + 3) = n + 4 /\ 2 + (n + 3) = n + 5
    OBVIOUS
  <2>3. QED
    BY <2>1, <2>2
<1>3. /\ Len(e) = n + 7
      /\ \A k \in 1..(n + 5) : e[k] = b[k]
      /\ e[n + 6] = v[1] /\ e[n + 7] = v[2]
  <2>1. /\ Len(e) = n + 7
        /\ \A k \in 1..(n + 5) : e[k] = b[k]
        /\ e[1 + (n + 5)] = v[1] /\ e[2 + (n + 5)] = v[2]
    BY <1>2 DEF IsJoin
  <2>2. 1 + (n + 5) = n + 6 /\ 2 + (n + 5) = n + 7
    OBVIOUS
  <2>3. QED
    BY <2>1, <2>2
<1>4. e[1] = s[1] /\ e[2] = s[2] /\ e[3] = s[3]
  <2>1. 1 \in 1..(n + 3) /\ 2 \in 1..(n + 3) /\ 3 \in 1..(n + 3)
    OBVIOUS
  <2>2. 1 \in 1..(n + 5) /\ 2 \in 1..(n + 5) /\ 3 \in 1..(n + 5)
    OBVIOUS
  <2>3. e[1] = b[1] /\ e[2] = b[2] /\ e[3] = b[3]
    BY <1>3, <2>2
  <2>4. b[1] = a[1] /\ b[2] = a[2] /\ b[3] = a[3]
    BY <1>2, <2>1
  <2>5. QED
    BY <1>1, <2>3, <2>4
<1>5. \A k \in 1..n : e[k + 3] = t[k]
  <2>1. SUFFICES ASSUME NEW k \in 1..n PROVE e[k + 3] = t[k]
    OBVIOUS
  <2>2. k + 3 \in 1..(n + 3) /\ k + 3 \in 1..(n + 5)
    OBVIOUS
  <2>3. QED
    BY <1>1, <1>2, <1>3, <2>2
<1>6. e[n + 4] = u[1] /\ e[n + 5] = u[2]
  <2>1. n + 4 \in 1..(n + 5) /\ n + 5 \in 1..(n + 5)
    OBVIOUS
  <2>2. QED
    BY <1>2, <1>3, <2>1
<1>7. QED
  BY <1>3, <1>4, <1>5, <1>6 DEF HasParts

\* Where the fields of a delegate with n actions are.
IsDelegate(e, d, n) ==
    /\ Len(e) >= n + 7
    /\ e[1] = d.sender_id /\ e[2] = d.receiver_id /\ e[3] = n
    /\ \A k \in 1..n : e[k + 3] = EncodeAction(d.actions[k])
    /\ e[n + 4] = d.nonce /\ e[n + 5] = d.max_block_height
    /\ e[n + 6] = ED25519 /\ e[n + 7] = d.public_key

LEMMA DelegateLayout ==
    ASSUME NEW Cells, NEW Calls, IsCells(Cells, Calls),
           NEW d \in DelegateActions(Cells, Calls),
           NEW n \in Nat, n = Len(d.actions)
    PROVE  /\ EncodeDelegate(d) \in Seq(Cells) /\ Len(EncodeDelegate(d)) = n + 7
           /\ IsDelegate(EncodeDelegate(d), d, n)
<1>1. /\ d.sender_id \in Cells /\ d.receiver_id \in Cells /\ d.actions \in Seq(Calls)
      /\ d.nonce \in Cells /\ d.max_block_height \in Cells /\ d.public_key \in Cells
  BY DEF DelegateActions
<1>2. n \in Nat /\ n \in Cells /\ ED25519 \in Cells
  BY <1>1 DEF IsCells, ED25519
<1>3. PICK s : s = <<d.sender_id, d.receiver_id, n>>
  OBVIOUS
<1>4. PICK t : t = [k \in 1..n |-> EncodeAction(d.actions[k])]
  OBVIOUS
<1>5. PICK u : u = <<d.nonce, d.max_block_height>>
  OBVIOUS
<1>6. PICK v : v = <<ED25519, d.public_key>>
  OBVIOUS
<1>7. /\ s \in Seq(Cells) /\ Len(s) = 3
      /\ s[1] = d.sender_id /\ s[2] = d.receiver_id /\ s[3] = n
  BY <1>1, <1>2, <1>3
<1>8. t \in Seq(Cells) /\ Len(t) = n /\ \A k \in 1..n : t[k] = EncodeAction(d.actions[k])
  <2>1. \A k \in 1..n : EncodeAction(d.actions[k]) \in Cells
    BY <1>1 DEF IsCells
  <2>2. QED
    BY <1>2, <1>4, <2>1
<1>9. u \in Seq(Cells) /\ Len(u) = 2 /\ u[1] = d.nonce /\ u[2] = d.max_block_height
  BY <1>1, <1>5
<1>10. v \in Seq(Cells) /\ Len(v) = 2 /\ v[1] = ED25519 /\ v[2] = d.public_key
  BY <1>1, <1>2, <1>6
<1>11. PICK a \in Seq(Cells) : a = s \o t /\ IsJoin(a, s, t)
  BY <1>7, <1>8, Joined, Zenon
<1>12. PICK b \in Seq(Cells) : b = a \o u /\ IsJoin(b, a, u)
  BY <1>9, <1>11, Joined, Zenon
<1>13. PICK e \in Seq(Cells) : e = b \o v /\ IsJoin(e, b, v)
  BY <1>10, <1>12, Joined, Zenon
<1>14. e = EncodeDelegate(d)
  BY <1>3, <1>4, <1>5, <1>6, <1>11, <1>12, <1>13 DEF EncodeDelegate, EncodeEd25519
<1>15. HasParts(e, s, t, u, v, n)
  <2>1. /\ s \in Seq(Cells) /\ t \in Seq(Cells) /\ u \in Seq(Cells) /\ v \in Seq(Cells)
        /\ n = Len(t) /\ Len(s) = 3 /\ Len(u) = 2 /\ Len(v) = 2
    BY <1>7, <1>8, <1>9, <1>10
  <2>2. QED
    BY <1>11, <1>12, <1>13, <2>1, JoinedParts, Zenon
<1>16. Len(e) = n + 7 /\ IsDelegate(e, d, n)
  BY <1>7, <1>8, <1>9, <1>10, <1>15 DEF HasParts, IsDelegate
<1>17. QED
  BY <1>14, <1>16

\* The same with the signature behind it.
IsSigned(w, s, n) ==
    /\ Len(w) = n + 9
    /\ IsDelegate(w, s.delegate_action, n)
    /\ w[n + 8] = ED25519 /\ w[n + 9] = s.signature

LEMMA SignedLayout ==
    ASSUME NEW Cells, NEW Calls, IsCells(Cells, Calls),
           NEW s \in SignedDelegateActions(Cells, Calls)
    PROVE  /\ Len(s.delegate_action.actions) \in Nat
           /\ Encode(s) \in Seq(Cells)
           /\ IsSigned(Encode(s), s, Len(s.delegate_action.actions))
<1>1. PICK d \in DelegateActions(Cells, Calls) : d = s.delegate_action
  BY DEF SignedDelegateActions
<1>2. PICK n \in Nat : n = Len(d.actions)
  BY DEF DelegateActions
<1>3. PICK e \in Seq(Cells) : e = EncodeDelegate(d) /\ Len(e) = n + 7 /\ IsDelegate(e, d, n)
  BY <1>2, DelegateLayout, Zenon
<1>4. PICK v : v = <<ED25519, s.signature>>
  OBVIOUS
<1>5. v \in Seq(Cells) /\ Len(v) = 2 /\ v[1] = ED25519 /\ v[2] = s.signature
  BY <1>4 DEF IsCells, ED25519, SignedDelegateActions
<1>6. PICK w \in Seq(Cells) : w = e \o v /\ IsJoin(w, e, v)
  BY <1>3, <1>5, Joined, Zenon
<1>7. w = Encode(s)
  BY <1>1, <1>3, <1>4, <1>6 DEF Encode, EncodeEd25519
<1>8. /\ Len(w) = n + 9
      /\ \A k \in 1..(n + 7) : w[k] = e[k]
      /\ w[1 + (n + 7)] = v[1] /\ w[2 + (n + 7)] = v[2]
  BY <1>3, <1>5, <1>6 DEF IsJoin
<1>9. w[n + 8] = ED25519 /\ w[n + 9] = s.signature
  <2>1. 1 + (n + 7) = n + 8 /\ 2 + (n + 7) = n + 9
    OBVIOUS
  <2>2. QED
    BY <1>5, <1>8, <2>1
<1>10. \A k \in 1..n : w[k + 3] = EncodeAction(d.actions[k])
  <2>1. SUFFICES ASSUME NEW k \in 1..n PROVE w[k + 3] = EncodeAction(d.actions[k])
    OBVIOUS
  <2>2. k + 3 \in 1..(n + 7)
    OBVIOUS
  <2>3. QED
    BY <1>3, <1>8, <2>2 DEF IsDelegate
<1>11. /\ w[1] = d.sender_id /\ w[2] = d.receiver_id /\ w[3] = n
       /\ w[n + 4] = d.nonce /\ w[n + 5] = d.max_block_height
       /\ w[n + 6] = ED25519 /\ w[n + 7] = d.public_key
  <2>1. /\ 1 \in 1..(n + 7) /\ 2 \in 1..(n + 7) /\ 3 \in 1..(n + 7)
        /\ n + 4 \in 1..(n + 7) /\ n + 5 \in 1..(n + 7)
        /\ n + 6 \in 1..(n + 7) /\ n + 7 \in 1..(n + 7)
    OBVIOUS
  <2>2. QED
    BY <1>3, <1>8, <2>1 DEF IsDelegate
<1>12. IsSigned(w, s, n)
  BY <1>1, <1>8, <1>9, <1>10, <1>11 DEF IsSigned, IsDelegate
<1>13. QED
  BY <1>1, <1>2, <1>7, <1>12

(***************************************************************************)
(* Nothing is lost on the wire: what a wallet encodes is accepted by       *)
(* try_from_slice and read back as it was, however many actions it has.    *)
(***************************************************************************)
THEOREM RoundTrip ==
    ASSUME NEW Cells, NEW Calls, IsCells(Cells, Calls),
           NEW s \in SignedDelegateActions(Cells, Calls)
    PROVE  Decodes(Encode(s)) /\ Decode(Encode(s)) = s
<1>1. PICK d : d = s.delegate_action
  OBVIOUS
<1>2. PICK n : n = Len(d.actions)
  OBVIOUS
<1>3. PICK w : w = Encode(s)
  OBVIOUS
<1>4. n \in Nat /\ IsSigned(w, s, n)
  <2>1. n = Len(s.delegate_action.actions)
    BY <1>1, <1>2
  <2>2. QED
    BY <1>3, <2>1, SignedLayout, Zenon
<1>5. /\ Len(w) = n + 9
      /\ w[1] = d.sender_id /\ w[2] = d.receiver_id /\ w[3] = n
      /\ w[n + 4] = d.nonce /\ w[n + 5] = d.max_block_height
      /\ w[n + 6] = ED25519 /\ w[n + 7] = d.public_key
      /\ w[n + 8] = ED25519 /\ w[n + 9] = s.signature
  BY <1>1, <1>4 DEF IsSigned, IsDelegate
<1>6. \A k \in 1..n : /\ w[k + 3].tag = ACTION_TAG_FUNCTION_CALL
                      /\ w[k + 3].call = d.actions[k]
  <2>1. SUFFICES ASSUME NEW k \in 1..n
                 PROVE  /\ w[k + 3].tag = ACTION_TAG_FUNCTION_CALL
                        /\ w[k + 3].call = d.actions[k]
    OBVIOUS
  <2>2. w[k + 3] = EncodeAction(d.actions[k])
    BY <1>1, <1>4 DEF IsSigned, IsDelegate
  <2>3. QED
    BY <2>2 DEF EncodeAction
<1>7. Decodes(w)
  <2>1. Count(w) = n
    BY <1>5 DEF Count
  <2>2. \A k \in 1..n : DecodesAction(w[k + 3])
    BY <1>6 DEF DecodesAction
  <2>3. QED
    BY <1>4, <1>5, <2>1, <2>2 DEF Decodes, DecodesPrefix
<1>8. DecodeDelegate(w) = d
  <2>1. d \in DelegateActions(Cells, Calls)
    BY <1>1 DEF SignedDelegateActions
  <2>2. d.actions \in Seq(Calls)
    BY <2>1 DEF DelegateActions
  <2>3. d.actions = [k \in 1..n |-> w[k + 3].call]
    BY <1>2, <1>6, <2>2
  <2>4. d = [sender_id |-> d.sender_id, receiver_id |-> d.receiver_id,
             actions |-> d.actions, nonce |-> d.nonce,
             max_block_height |-> d.max_block_height, public_key |-> d.public_key]
    BY <2>1 DEF DelegateActions
  <2>5. QED
    BY <1>5, <2>3, <2>4 DEF DecodeDelegate, Count
<1>9. Decode(w) = s
  BY <1>1, <1>5, <1>8 DEF Decode, Count, SignedDelegateActions
<1>10. QED
  BY <1>3, <1>7, <1>9

\* What a wire that decodes is read as.
LEMMA DecodesTo ==
    ASSUME NEW Cells, NEW Calls, IsCells(Cells, Calls),
           NEW w, IsWire(w, Cells, Calls), Decodes(w)
    PROVE  Decode(w) \in SignedDelegateActions(Cells, Calls)
<1>1. PICK n \in Nat : n = Count(w)
  BY DEF Decodes, DecodesPrefix
<1>2. w \in Seq(Cells) /\ Len(w) = n + 9
  BY <1>1 DEF Decodes, IsWire
<1>3. \A k \in 1..(n + 9) : w[k] \in Cells
  BY <1>2
<1>4. /\ w[1] \in Cells /\ w[2] \in Cells /\ w[n + 4] \in Cells /\ w[n + 5] \in Cells
      /\ w[n + 7] \in Cells /\ w[n + 9] \in Cells
  BY <1>3
<1>5. [k \in 1..n |-> w[k + 3].call] \in Seq(Calls)
  <2>1. \A k \in 1..n : w[k + 3].call \in Calls
    <3>1. SUFFICES ASSUME NEW k \in 1..n PROVE w[k + 3].call \in Calls
      OBVIOUS
    <3>2. k + 3 \in 4..Len(w) /\ k + 3 <= Count(w) + 3
      BY <1>1, <1>2
    <3>3. w[k + 3] \in [tag : Nat, call : Calls]
      BY <3>2 DEF IsWire
    <3>4. QED
      BY <3>3
  <2>2. QED
    BY <2>1
<1>6. DecodeDelegate(w) \in DelegateActions(Cells, Calls)
  BY <1>1, <1>4, <1>5 DEF DecodeDelegate, DelegateActions
<1>7. QED
  BY <1>1, <1>4, <1>6 DEF Decode, SignedDelegateActions

(***************************************************************************)
(* One form only: a wire that try_from_slice accepts is the encoding of    *)
(* what it is read as. No other tag, length or trailing field is accepted. *)
(***************************************************************************)
THEOREM Canonical ==
    ASSUME NEW Cells, NEW Calls, IsCells(Cells, Calls),
           NEW w, IsWire(w, Cells, Calls), Decodes(w)
    PROVE  Encode(Decode(w)) = w
<1>1. PICK n \in Nat : n = Count(w)
  BY DEF Decodes, DecodesPrefix
<1>2. w \in Seq(Cells) /\ Len(w) = n + 9 /\ w[3] = n
  BY <1>1 DEF Decodes, IsWire, Count
<1>3. PICK d : d = DecodeDelegate(w)
  OBVIOUS
<1>4. PICK s : s = Decode(w)
  OBVIOUS
<1>5. s.delegate_action = d /\ s.signature = w[n + 9]
  BY <1>1, <1>3, <1>4 DEF Decode
<1>6. /\ d.sender_id = w[1] /\ d.receiver_id = w[2]
      /\ d.actions = [k \in 1..n |-> w[k + 3].call]
      /\ d.nonce = w[n + 4] /\ d.max_block_height = w[n + 5] /\ d.public_key = w[n + 7]
  BY <1>1, <1>3 DEF DecodeDelegate
<1>7. Len(d.actions) = n
  BY <1>6
<1>8. PICK v : v = Encode(s)
  OBVIOUS
<1>9. v \in Seq(Cells) /\ IsSigned(v, s, n)
  <2>1. s \in SignedDelegateActions(Cells, Calls)
    BY <1>4, DecodesTo, Zenon
  <2>2. n = Len(s.delegate_action.actions)
    BY <1>5, <1>7
  <2>3. QED
    BY <1>8, <2>1, <2>2, SignedLayout, Zenon
<1>10. /\ Len(v) = n + 9
       /\ v[1] = w[1] /\ v[2] = w[2] /\ v[3] = n
       /\ v[n + 4] = w[n + 4] /\ v[n + 5] = w[n + 5]
       /\ v[n + 6] = ED25519 /\ v[n + 7] = w[n + 7]
       /\ v[n + 8] = ED25519 /\ v[n + 9] = w[n + 9]
  BY <1>5, <1>6, <1>9 DEF IsSigned, IsDelegate
<1>11. w[n + 6] = ED25519 /\ w[n + 8] = ED25519
  BY <1>1 DEF Decodes, DecodesPrefix
<1>12. \A k \in 1..n : v[k + 3] = w[k + 3]
  <2>1. SUFFICES ASSUME NEW k \in 1..n PROVE v[k + 3] = w[k + 3]
    OBVIOUS
  <2>2. v[k + 3] = EncodeAction(d.actions[k])
    BY <1>5, <1>9 DEF IsSigned, IsDelegate
  <2>3. d.actions[k] = w[k + 3].call
    BY <1>6
  <2>4. k + 3 \in 4..Len(w) /\ k + 3 <= Count(w) + 3
    BY <1>1, <1>2
  <2>5. w[k + 3] \in [tag : Nat, call : Calls]
    BY <2>4 DEF IsWire
  <2>6. w[k + 3].tag = ACTION_TAG_FUNCTION_CALL
    BY <1>1 DEF Decodes, DecodesPrefix, DecodesAction
  <2>7. QED
    BY <2>2, <2>3, <2>5, <2>6 DEF EncodeAction
<1>13. \A k \in 1..(n + 9) : v[k] = w[k]
  <2>1. SUFFICES ASSUME NEW k \in 1..(n + 9) PROVE v[k] = w[k]
    OBVIOUS
  <2>2. CASE k \in 4..(n + 3)
    <3>1. k - 3 \in 1..n /\ (k - 3) + 3 = k
      BY <2>2
    <3>2. QED
      BY <1>12, <3>1
  <2>3. CASE k \notin 4..(n + 3)
    <3>1. k \in {1, 2, 3, n + 4, n + 5, n + 6, n + 7, n + 8, n + 9}
      BY <2>3
    <3>2. QED
      BY <1>2, <1>10, <1>11, <3>1
  <2>4. QED
    BY <2>2, <2>3
<1>14. v = w
  BY <1>2, <1>9, <1>10, <1>13
<1>15. QED
  BY <1>4, <1>8, <1>14

(***************************************************************************)
(* A wire that decodes and verifies is, field by field and to its last     *)
(* byte, what the holder of the key it names made by signing the delegate  *)
(* it carries.                                                             *)
(***************************************************************************)
THEOREM VerifiedIsSigned ==
    ASSUME NEW Cells, NEW Calls, IsCells(Cells, Calls),
           NEW w, IsWire(w, Cells, Calls), Decodes(w), Verify(Decode(w))
    PROVE  w = Encode(SignDelegate(DecodeDelegate(w)))
<1>1. Decode(w) = SignDelegate(DecodeDelegate(w))
  BY DEF Verify, Decode, SignDelegate
<1>2. QED
  BY <1>1, Canonical, Zenon

-----------------------------------------------------------------------------

\* One hash, one delegate on the wire.
LEMMA HashFixesWire ==
    ASSUME NEW Cells, NEW Calls, IsCells(Cells, Calls),
           NEW d \in DelegateActions(Cells, Calls), NEW e \in DelegateActions(Cells, Calls),
           SignedMessageHash(d) = SignedMessageHash(e)
    PROVE  EncodeDelegate(d) = EncodeDelegate(e)
<1>1. PICK a \in Seq(Cells) : a = EncodeDelegate(d)
  <2>1. Len(d.actions) \in Nat
    BY DEF DelegateActions
  <2>2. QED
    BY <2>1, DelegateLayout, Zenon
<1>2. PICK b \in Seq(Cells) : b = EncodeDelegate(e)
  <2>1. Len(e.actions) \in Nat
    BY DEF DelegateActions
  <2>2. QED
    BY <2>1, DelegateLayout, Zenon
<1>3. PICK h : h = <<NEP_366_DELEGATE_DISCRIMINANT>>
  OBVIOUS
<1>4. h \in Seq(Cells) /\ Len(h) = 1
  BY <1>3 DEF IsCells, NEP_366_DELEGATE_DISCRIMINANT
<1>5. PICK g : g = h \o a /\ g = h \o b
  BY <1>1, <1>2, <1>3 DEF SignedMessageHash
<1>6. IsJoin(g, h, a) /\ IsJoin(g, h, b)
  BY <1>1, <1>2, <1>4, <1>5, Joined, Zenon
<1>7. Len(a) = Len(b) /\ \A k \in 1..Len(a) : a[k] = b[k]
  BY <1>1, <1>2, <1>4, <1>6 DEF IsJoin
<1>8. a = b
  BY <1>1, <1>2, <1>7
<1>9. QED
  BY <1>1, <1>2, <1>8

\* A wire that decodes and verifies is one of those a wallet made for its wishes.
LEMMA VerifiedIsWish ==
    ASSUME NEW Cells, NEW Calls, IsCells(Cells, Calls),
           NEW w \in Wires, IsWire(w, Cells, Calls),
           Wishes \subseteq DelegateActions(Cells, Calls),
           Decodes(w), Verify(Decode(w))
    PROVE  \E d \in Wishes : w = Encode(SignDelegate(d))
<1>1. PICK d \in Wishes : Decode(w).signature = SignDelegate(d).signature
  BY SignedAssumption DEF Unforged
<1>2. PICK e : e = DecodeDelegate(w)
  OBVIOUS
<1>3. w = Encode(SignDelegate(e)) /\ e \in DelegateActions(Cells, Calls)
  <2>1. w = Encode(SignDelegate(e))
    BY <1>2, VerifiedIsSigned, Zenon
  <2>2. Decode(w) \in SignedDelegateActions(Cells, Calls)
    BY DecodesTo, Zenon
  <2>3. QED
    BY <1>2, <2>1, <2>2 DEF Decode, SignedDelegateActions
<1>4. Signature(e.public_key, SignedMessageHash(e))
        = Signature(d.public_key, SignedMessageHash(d))
  BY <1>1, <1>2 DEF Verify, Decode, SignDelegate
<1>5. SignedMessageHash(e) = SignedMessageHash(d)
  BY <1>4 DEF Signature
<1>6. EncodeDelegate(e) = EncodeDelegate(d)
  BY <1>3, <1>5, HashFixesWire, Zenon
<1>7. Encode(SignDelegate(e)) = Encode(SignDelegate(d))
  BY <1>4, <1>6 DEF Encode, SignDelegate
<1>8. QED
  BY <1>3, <1>7

\* What submit_intent has accepted was checked then.
Checked ==
    \A i \in Ids : intents[i] # None =>
        Delegate(i) \in Delegates /\ Delegate(i).decodes /\ Delegate(i).verifies

LEMMA CheckedStep == TypeInv /\ Checked /\ [Next]_vars => Checked'
<1> SUFFICES ASSUME TypeInv, Checked, [Next]_vars PROVE Checked'
  OBVIOUS
<1>1. ASSUME NEW by \in Accounts, NEW d \in Delegates, SubmitIntent(by, d)
      PROVE  Checked'
  <2> PICK new \in Ids : new = next_intent_id
    BY <1>1 DEF SubmitIntent
  <2>1. /\ d.decodes /\ d.verifies
        /\ intents' = [intents EXCEPT ![new] = [delegate |-> d, at |-> height]]
    BY <1>1 DEF SubmitIntent
  <2>2. Delegate(new)' = d
    BY <2>1, IntentsType DEF Delegate
  <2>3. \A i \in Ids : i # new =>
           intents'[i] = intents[i] /\ Delegate(i)' = Delegate(i)
    BY <2>1, IntentsType DEF Delegate
  <2>4. QED
    BY <2>1, <2>2, <2>3 DEF Checked
<1>2. CASE UNCHANGED submitVars
  BY <1>2 DEF Checked, submitVars, Delegate
<1>3. QED
  BY <1>1, <1>2, SubmitOnly

(***************************************************************************)
(* The gate holds only what a wallet signed, to the last byte, whatever    *)
(* wires the relayers send and whatever fields they have: sha256 and       *)
(* ed25519 ideal, the codec and the checks of submit_intent as they are.   *)
(***************************************************************************)
THEOREM HeldAsSigned ==
    ASSUME NEW CONSTANT Cells, NEW CONSTANT Calls, IsCells(Cells, Calls),
           \A w \in Wires : IsWire(w, Cells, Calls),
           Wishes \subseteq DelegateActions(Cells, Calls)
    PROVE  Spec => []AcceptedAsSigned
<1>1. Init => Checked
  BY DEF Init, Checked
<1>2. Checked => AcceptedAsSigned
  <2> SUFFICES ASSUME Checked, NEW i \in Ids, intents[i] # None
               PROVE  \E d \in Wishes : Delegate(i).wire = Encode(SignDelegate(d))
    BY DEF AcceptedAsSigned
  <2>1. PICK w \in Wires : Delegate(i) = Submitted(w)
    BY SignedAssumption DEF Checked
  <2>2. Submitted(w).decodes /\ Submitted(w).verifies
    BY <2>1 DEF Checked
  <2>3. Decodes(w)
    BY <2>2 DEF Submitted, Undecodable
  <2>4. Verify(Decode(w)) /\ Submitted(w).wire = w
    BY <2>2, <2>3 DEF Submitted
  <2>5. \E d \in Wishes : w = Encode(SignDelegate(d))
    BY <2>3, <2>4, VerifiedIsWish, Zenon
  <2>6. QED
    BY <2>1, <2>4, <2>5
<1>3. QED
  BY <1>1, <1>2, CheckedStep, TypeInvariant, PTL DEF Spec
=============================================================================
