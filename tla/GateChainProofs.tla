--------------------------- MODULE GateChainProofs ---------------------------
(***************************************************************************)
(* The order and the pace of chained batches, for batches of any length,   *)
(* any number of them, and any delay: the receipts of other intents, their *)
(* timeouts and failures come between the links of a chain in any order.   *)
(*                                                                         *)
(* The first two parts assume an owner who resets the tail only when its   *)
(* chain is dead (EarlyReset = FALSE); with a reset in between, a link of  *)
(* the old chain meets the tail of a new one. The last part is about what  *)
(* holds whatever the owner does.                                          *)
(***************************************************************************)
EXTENDS GateProofs

(***************************************************************************)
(* A step that makes no link and leaves tail and slots alone cannot        *)
(* disturb the chain, whatever links it takes away.                        *)
(***************************************************************************)
LEMMA NoNewLink ==
    ASSUME ChainInv, UNCHANGED <<batch_chain_tail, active_batch_id, batches, slot>>,
           \A r \in ChainResumes' : r \in ChainResumes,
           \A c \in ChainCalls' : c \in ChainCalls,
           \A t \in thens' : t \in thens,
           \A i : ran_at[i] # None => ran_at'[i] # None
    PROVE  ChainInv'
<1>1. CoordinatorOrder'
  BY DEF ChainInv, CoordinatorOrder
<1>2. TailInv'
  BY DEF ChainInv, TailInv, Cursor, Members
<1>3. LinkInv'
  BY DEF ChainInv, LinkInv, Cursor, Members
<1>4. OneLink'
  BY DEF ChainInv, OneLink
<1>5. QED
  BY <1>1, <1>2, <1>3, <1>4 DEF ChainInv

\* Without a tail there is no link.
LEMMA IdleHasNoLink ==
    ASSUME LinkInv, batch_chain_tail = <<>>
    PROVE  ChainResumes = {} /\ ChainCalls = {} /\ thens = {}
BY DEF LinkInv

\* Where the cursor stands while there is a tail.
LEMMA CursorType ==
    ASSUME GateTypeOK, TailInv, batch_chain_tail # <<>>
    PROVE  /\ active_batch_id \in 1..Len(batches)
           /\ Members \in Seq(Ids) /\ Len(Members) \in Nat
           /\ Cursor \in Nat \ {0} /\ Cursor < Len(Members)
           /\ Members[Cursor + 1] = Head(batch_chain_tail)
<1>1. active_batch_id \in 1..Len(batches)
  BY DEF GateTypeOK, TailInv
<1>2. Members \in Seq(Ids)
  BY <1>1 DEF Members, GateTypeOK
<1>3. batch_chain_tail \in Seq(Ids) /\ Len(batch_chain_tail) \in Nat \ {0}
  BY DEF GateTypeOK
<1>4. Len(Members) \in Nat
  BY <1>2
<1>5. Cursor \in Nat \ {0} /\ Cursor < Len(Members)
  BY <1>3, <1>4 DEF TailInv, Cursor
<1>6. Members[Cursor + 1] = Head(batch_chain_tail)
  BY <1>3 DEF TailInv
<1>7. QED
  BY <1>1, <1>2, <1>4, <1>5, <1>6

\* resume_batch_chained starts a chain: it finds no link, and makes one at cursor 1.
LEMMA ChainStarts ==
    ASSUME TypeInv, ChainInv, NEW by, NEW attached \in Deposits, NEW n \in 1..MaxBatch,
           NEW ids \in [1..n -> pending], ResumeBatchChained(by, ids, attached)
    PROVE  ChainInv'
<1> DEFINE new == [id |-> ids[1], approve |-> TRUE, seq |-> 0,
                   next |-> FirstOf(Tail(ids)), at |-> height]
<1>1. /\ ids \in Seq(Ids) /\ Len(ids) \in Nat \ {0} /\ ids # <<>>
      /\ Tail(ids) \in Seq(Ids) /\ Len(Tail(ids)) = Len(ids) - 1
      /\ \A j \in 1..Len(Tail(ids)) : Tail(ids)[j] = ids[1 + j]
  BY BatchType, FeeAssumption DEF TypeInv, FeeAssumption
<1>2. /\ batch_chain_tail = <<>> /\ batch_chain_tail' = Tail(ids)
      /\ active_batch_id' = active_batch_id + 1
      /\ batches' = Append(batches, ids)
      /\ slot' = [slot EXCEPT ![ids[1]] = [batch |-> active_batch_id + 1, seq |-> 0]]
      /\ resumes' = resumes \cup {new}
      /\ UNCHANGED <<yields, calls, thens, ran_at>>
  BY DEF ResumeBatchChained, ChainIdle, ResumeYield
<1>3. ChainResumes = {} /\ ChainCalls = {} /\ thens = {}
  BY <1>2, IdleHasNoLink DEF ChainInv
<1>4. /\ batches \in Seq(Seq(Ids)) /\ active_batch_id \in Nat
      /\ Len(batches) = active_batch_id
  BY DEF TypeInv, GateTypeOK, ChainInv, TailInv
<1>5. /\ Len(batches') = active_batch_id' /\ active_batch_id' > 0
      /\ batches'[active_batch_id + 1] = ids
      /\ \A b \in 1..Len(batches) : batches'[b] = batches[b]
  BY <1>1, <1>2, <1>4
<1>6. Members' = ids /\ Cursor' = 1
  BY <1>1, <1>2, <1>5 DEF Members, Cursor
<1>7. CoordinatorOrder'
  <2>1. slot \in [Ids -> [batch : Nat, seq : Nat]] /\ ids[1] \in Ids
    BY <1>1 DEF TypeInv, GateTypeOK
  <2> SUFFICES ASSUME NEW i \in Ids, slot'[i].batch > 0
               PROVE  /\ slot'[i].batch <= Len(batches')
                      /\ slot'[i].seq < Len(batches'[slot'[i].batch])
                      /\ batches'[slot'[i].batch][slot'[i].seq + 1] = i
                      /\ slot'[i].seq > 0 =>
                            ran_at'[batches'[slot'[i].batch][slot'[i].seq]] # None
    BY DEF CoordinatorOrder
  <2>2. CASE i = ids[1]
    <3>1. slot'[i].batch = active_batch_id + 1 /\ slot'[i].seq = 0
      BY <1>2, <2>1, <2>2
    <3>2. QED
      BY <1>1, <1>2, <1>4, <1>5, <2>2, <3>1
  <2>3. CASE i # ids[1]
    <3>1. slot'[i] = slot[i] /\ slot[i].batch \in Nat /\ slot[i].seq \in Nat
      BY <1>2, <2>1, <2>3
    <3>2. slot[i].batch > 0
      BY <3>1
    <3>3. /\ slot[i].batch <= Len(batches) /\ slot[i].seq < Len(batches[slot[i].batch])
          /\ batches[slot[i].batch][slot[i].seq + 1] = i
          /\ slot[i].seq > 0 => ran_at[batches[slot[i].batch][slot[i].seq]] # None
      BY <3>2 DEF ChainInv, CoordinatorOrder
    <3>4. slot[i].batch \in 1..Len(batches)
      BY <1>4, <3>1, <3>2, <3>3
    <3>5. QED
      BY <1>2, <1>4, <1>5, <3>1, <3>3, <3>4
  <2>4. QED
    BY <2>2, <2>3
<1>8. TailInv'
  BY <1>1, <1>2, <1>5, <1>6 DEF TailInv
<1>9. ChainCalls' = {} /\ thens' = {} /\ \A r \in ChainResumes' : r = new /\ r.next # None
  BY <1>2, <1>3 DEF ChainCalls, ChainResumes
<1>10. LinkInv'
  <2>1. ASSUME NEW r \in ChainResumes'
        PROVE  /\ batch_chain_tail' # <<>> /\ r.next = Head(batch_chain_tail')
               /\ r.seq = Cursor' - 1 /\ r.id = Members'[Cursor']
    <3>1. r = new /\ FirstOf(Tail(ids)) # None
      BY <1>9, <2>1
    <3>2. Tail(ids) # <<>> /\ FirstOf(Tail(ids)) = Head(Tail(ids))
      BY <3>1 DEF FirstOf
    <3>3. QED
      BY <1>2, <1>6, <3>1, <3>2
  <2>2. QED
    BY <1>9, <2>1 DEF LinkInv
<1>11. OneLink'
  BY <1>9 DEF OneLink
<1>12. QED
  BY <1>7, <1>8, <1>10, <1>11 DEF ChainInv

\* The payload of a chain becomes the call of its member, still at the cursor.
LEMMA PayloadToCall ==
    ASSUME TypeInv, ChainInv, NEW r \in resumes, DeliverApprove(r)
    PROVE  ChainInv'
<1> DEFINE new == [id |-> r.id, next |-> r.next, seq |-> NextSeq(r.seq), at |-> height]
<1>1. /\ r.id \in yields /\ resumes' = resumes \ {r} /\ yields' = yields \ {r.id}
      /\ calls' = calls \cup {new}
      /\ UNCHANGED <<batch_chain_tail, active_batch_id, batches, thens, slot, ran_at>>
  BY DEF DeliverApprove, Delivered, Resolve, batchVars, traceVars
<1>2. \A q \in ChainResumes' : q \in ChainResumes /\ q # r
  BY <1>1 DEF ChainResumes
<1>3. CASE r.next = None
  <2>1. \A c \in ChainCalls' : c \in ChainCalls
    BY <1>1, <1>3 DEF ChainCalls
  <2>2. QED
    BY <1>1, <1>2, <2>1, NoNewLink
<1>4. CASE r.next # None
  <2>1. r \in ChainResumes
    BY <1>1, <1>4 DEF ChainResumes
  <2>2. ChainCalls = {} /\ thens = {} /\ ChainResumes' = {}
    BY <1>2, <2>1 DEF ChainInv, OneLink
  <2>3. \A c \in ChainCalls' : c = new
    BY <1>1, <2>2 DEF ChainCalls
  <2>4. /\ batch_chain_tail # <<>> /\ r.next = Head(batch_chain_tail)
        /\ r.seq = Cursor - 1 /\ r.id = Members[Cursor]
    BY <2>1 DEF ChainInv, LinkInv
  <2>5. new.seq = Cursor
    <3>1. Cursor \in Nat \ {0}
      BY <2>4, CursorType DEF TypeInv, ChainInv
    <3>2. r.seq \in Nat /\ r.seq # None
      BY <2>4, <3>1, GateAssumption DEF GateAssumption
    <3>3. QED
      BY <2>4, <3>1, <3>2 DEF NextSeq
  <2>6. Cursor' = Cursor /\ Members' = Members
    BY <1>1 DEF Cursor, Members
  <2>7. LinkInv'
    BY <1>1, <2>2, <2>3, <2>4, <2>5, <2>6 DEF LinkInv
  <2>8. OneLink'
    BY <1>1, <2>2, <2>3 DEF OneLink
  <2>9. CoordinatorOrder' /\ TailInv'
    BY <1>1, <2>6 DEF ChainInv, CoordinatorOrder, TailInv
  <2>10. QED
    BY <2>7, <2>8, <2>9 DEF ChainInv
<1>5. QED
  BY <1>3, <1>4

\* The call of a chain, once run, becomes the .then that waits on it.
LEMMA CallToThen ==
    ASSUME TypeInv, ChainInv, NEW c \in calls, NEW ok, TargetExecutes(c, ok)
    PROVE  ChainInv'
<1> DEFINE new == [next |-> c.next, seq |-> c.seq, from |-> c.id, at |-> height]
<1>1. /\ calls' = calls \ {c} /\ ran_at' = [ran_at EXCEPT ![c.id] = height]
      /\ thens' = thens \cup ThenOf(c, ok)
      /\ UNCHANGED <<batch_chain_tail, active_batch_id, batches, yields, resumes, slot>>
  BY DEF TargetExecutes, batchVars
<1>2. height # None /\ ran_at = [i \in Ids |-> ran_at[i]] /\ c.id \in Ids
  BY GateAssumption, IdFacts DEF TypeInv, GateAssumption
<1>3. ran_at'[c.id] # None /\ \A i : ran_at[i] # None => ran_at'[i] # None
  BY <1>1, <1>2
<1>4. ChainResumes' = ChainResumes /\ \A d \in ChainCalls' : d \in ChainCalls /\ d # c
  BY <1>1 DEF ChainResumes, ChainCalls
<1>5. CASE c.next = None
  <2>1. thens' = thens
    BY <1>1, <1>5 DEF ThenOf
  <2>2. QED
    BY <1>1, <1>3, <1>4, <2>1, NoNewLink
<1>6. CASE c.next # None
  <2>1. c \in ChainCalls
    BY <1>6 DEF ChainCalls
  <2>2. ChainResumes' = {} /\ ChainCalls' = {} /\ thens = {}
    BY <1>4, <2>1 DEF ChainInv, OneLink
  <2>3. thens' = {new}
    BY <1>1, <1>6, <2>2 DEF ThenOf
  <2>4. /\ batch_chain_tail # <<>> /\ c.next = Head(batch_chain_tail)
        /\ c.seq = Cursor /\ c.id = Members[Cursor]
    BY <2>1 DEF ChainInv, LinkInv
  <2>5. Cursor' = Cursor /\ Members' = Members
    BY <1>1 DEF Cursor, Members
  <2>6. LinkInv'
    BY <1>1, <1>3, <2>2, <2>3, <2>4, <2>5 DEF LinkInv
  <2>7. OneLink'
    BY <2>2, <2>3 DEF OneLink
  <2>8. TailInv'
    BY <1>1, <2>5 DEF ChainInv, TailInv
  <2>9. CoordinatorOrder'
    BY <1>1, <1>3 DEF ChainInv, CoordinatorOrder
  <2>10. QED
    BY <2>6, <2>7, <2>8, <2>9 DEF ChainInv
<1>7. QED
  BY <1>5, <1>6

\* continue_chain takes the head of the tail and moves the cursor with it.
LEMMA ThenToPayload ==
    ASSUME TypeInv, LifeInv, ChainInv, NEW t \in thens, ContinueChain(t)
    PROVE  ChainInv'
<1> DEFINE new == [id |-> t.next, approve |-> TRUE, seq |-> t.seq,
                   next |-> FirstOf(Tail(batch_chain_tail)), at |-> height]
<1>1. /\ t.next \in yields /\ thens' = thens \ {t}
      /\ batch_chain_tail' = Tail(batch_chain_tail)
      /\ resumes' = resumes \cup {new}
      /\ slot' = [slot EXCEPT ![t.next] = [batch |-> active_batch_id, seq |-> t.seq]]
      /\ UNCHANGED <<active_batch_id, batches, yields, calls, ran_at>>
  BY DEF ContinueChain, ResumeYield
<1>2. /\ batch_chain_tail # <<>> /\ t.next = Head(batch_chain_tail)
      /\ t.seq = Cursor /\ t.from = Members[Cursor] /\ ran_at[t.from] # None
      /\ ChainResumes = {} /\ ChainCalls = {} /\ \A u \in thens : u = t
  BY DEF ChainInv, LinkInv, OneLink
<1>3. /\ active_batch_id \in 1..Len(batches)
      /\ Members \in Seq(Ids) /\ Len(Members) \in Nat
      /\ Cursor \in Nat \ {0} /\ Cursor < Len(Members)
      /\ Members[Cursor + 1] = t.next
  BY <1>2, CursorType DEF TypeInv, ChainInv
<1>4. /\ batch_chain_tail \in Seq(Ids) /\ Len(batch_chain_tail) \in Nat \ {0}
      /\ Len(Tail(batch_chain_tail)) = Len(batch_chain_tail) - 1
      /\ Tail(batch_chain_tail) \in Seq(Ids)
      /\ \A j \in 1..Len(Tail(batch_chain_tail)) :
            Tail(batch_chain_tail)[j] = batch_chain_tail[j + 1]
  BY <1>2 DEF TypeInv, GateTypeOK
<1>5. Members' = Members /\ Cursor' = Cursor + 1
  BY <1>1, <1>3, <1>4 DEF Members, Cursor
<1>6. CoordinatorOrder'
  <2>1. slot \in [Ids -> [batch : Nat, seq : Nat]] /\ t.next \in Ids
    BY IdFacts DEF TypeInv, GateTypeOK
  <2>2. slot'[t.next].batch = active_batch_id /\ slot'[t.next].seq = Cursor
    BY <1>1, <1>2, <2>1
  <2>3. \A i \in Ids : i # t.next => slot'[i] = slot[i]
    BY <1>1, <2>1
  <2> SUFFICES ASSUME NEW i \in Ids, slot'[i].batch > 0
               PROVE  /\ slot'[i].batch <= Len(batches')
                      /\ slot'[i].seq < Len(batches'[slot'[i].batch])
                      /\ batches'[slot'[i].batch][slot'[i].seq + 1] = i
                      /\ slot'[i].seq > 0 =>
                            ran_at'[batches'[slot'[i].batch][slot'[i].seq]] # None
    BY DEF CoordinatorOrder
  <2>4. CASE i = t.next
    <3>1. batches[active_batch_id] = Members
      BY DEF Members
    <3>2. active_batch_id <= Len(batches)
      BY <1>3
    <3>3. QED
      BY <1>1, <1>2, <1>3, <2>2, <2>4, <3>1, <3>2
  <2>5. CASE i # t.next
    BY <1>1, <2>3, <2>5 DEF ChainInv, CoordinatorOrder
  <2>6. QED
    BY <2>4, <2>5
<1>7. TailInv'
  <2>1. Len(batches') = active_batch_id' /\ active_batch_id' > 0 /\ Cursor' > 0
    BY <1>1, <1>3, <1>5 DEF ChainInv, TailInv
  <2>2. ASSUME NEW j \in 1..Len(batch_chain_tail')
        PROVE  batch_chain_tail'[j] = Members'[Cursor' + j]
    <3>1. batch_chain_tail'[j] = batch_chain_tail[j + 1]
      BY <1>1, <1>4
    <3>2. j + 1 \in 1..Len(batch_chain_tail)
      BY <1>1, <1>4
    <3>3. batch_chain_tail[j + 1] = Members[Cursor + (j + 1)]
      BY <1>2, <3>2 DEF ChainInv, TailInv
    <3>4. Cursor + (j + 1) = Cursor' + j
      BY <1>1, <1>3, <1>4, <1>5
    <3>5. QED
      BY <1>5, <3>1, <3>3, <3>4
  <2>3. QED
    BY <2>1, <2>2 DEF TailInv
<1>8. ChainCalls' = {} /\ thens' = {} /\ \A r \in ChainResumes' : r = new /\ r.next # None
  BY <1>1, <1>2 DEF ChainCalls, ChainResumes
<1>9. LinkInv'
  <2>1. ASSUME NEW r \in ChainResumes'
        PROVE  /\ batch_chain_tail' # <<>> /\ r.next = Head(batch_chain_tail')
               /\ r.seq = Cursor' - 1 /\ r.id = Members'[Cursor']
    <3>1. r = new /\ FirstOf(Tail(batch_chain_tail)) # None
      BY <1>8, <2>1
    <3>2. /\ Tail(batch_chain_tail) # <<>>
          /\ FirstOf(Tail(batch_chain_tail)) = Head(Tail(batch_chain_tail))
      BY <3>1 DEF FirstOf
    <3>3. QED
      BY <1>1, <1>2, <1>3, <1>5, <3>1, <3>2
  <2>2. QED
    BY <1>8, <2>1 DEF LinkInv
<1>10. OneLink'
  BY <1>8 DEF OneLink
<1>11. QED
  BY <1>6, <1>7, <1>9, <1>10 DEF ChainInv

LEMMA ChainInit == Init => ChainInv
BY DEF Init, ChainInv, CoordinatorOrder, TailInv, LinkInv, OneLink, ChainResumes,
       ChainCalls

\* ChainInv is inductive while the owner resets only a dead chain.
LEMMA ChainInvStep ==
    ASSUME EarlyReset = FALSE
    PROVE  TypeInv /\ LifeInv /\ ChainInv /\ [Next]_vars => ChainInv'
<1> SUFFICES ASSUME TypeInv, LifeInv, ChainInv, [Next]_vars PROVE ChainInv'
  OBVIOUS
<1>a. /\ next_intent_id \in Nat /\ \A i \in Ids : i \in Nat
      /\ \A r \in resumes : r.id \in Ids
  BY IdFacts DEF TypeInv
<1>1. ASSUME NEW by \in Accounts, NEW d \in Delegates, SubmitIntent(by, d)
      PROVE  ChainInv'
  <2>1. \A r \in resumes : r.id # next_intent_id
    BY <1>a DEF LifeInv
  <2>2. /\ yields' = yields \cup {next_intent_id}
        /\ UNCHANGED <<batch_chain_tail, active_batch_id, batches, resumes, calls,
                       thens, slot, ran_at>>
    BY <1>1 DEF SubmitIntent, batchVars, traceVars
  <2>3. ChainResumes' = ChainResumes /\ ChainCalls' = ChainCalls
    BY <2>1, <2>2 DEF ChainResumes, ChainCalls
  <2>4. QED
    BY <2>2, <2>3, NoNewLink
<1>2. ASSUME UNCHANGED <<batch_chain_tail, active_batch_id, batches, slot, thens,
                         calls, ran_at>>,
             resumes' \subseteq resumes, yields' \subseteq yields
      PROVE  ChainInv'
  BY <1>2, NoNewLink DEF ChainResumes, ChainCalls
<1>3. CASE (EarlyReset \/ ~ChainAlive) /\ ResetBatchTail
  <2>1. ChainResumes = {} /\ ChainCalls = {} /\ thens = {}
    BY <1>3 DEF ChainAlive, Links
  <2>2. /\ batch_chain_tail' = <<>>
        /\ UNCHANGED <<active_batch_id, batches, resumes, yields, calls, thens, slot,
                       ran_at>>
    BY <1>3 DEF ResetBatchTail, receiptVars, traceVars
  <2>3. ChainResumes' = {} /\ ChainCalls' = {} /\ thens' = {}
    BY <2>1, <2>2 DEF ChainResumes, ChainCalls
  <2>4. CoordinatorOrder' /\ TailInv'
    BY <2>2 DEF ChainInv, CoordinatorOrder, TailInv
  <2>5. QED
    BY <2>3, <2>4 DEF ChainInv, LinkInv, OneLink
<1>4. ASSUME NEW by, NEW i, NEW approve, NEW attached,
             ResumeIntent(by, i, approve, attached)
      PROVE  ChainInv'
  <2>1. \A r \in ChainResumes' : r \in ChainResumes
    BY <1>4 DEF ResumeIntent, ResumeYield, ChainResumes
  <2>2. QED
    BY <1>4, <2>1, NoNewLink DEF ResumeIntent, batchVars, traceVars, ChainCalls
<1>5. ASSUME NEW by \in Accounts, NEW attached \in Deposits, NEW n \in 1..MaxBatch,
             NEW ids \in [1..n -> pending], ResumeBatchChained(by, ids, attached)
      PROVE  ChainInv'
  BY <1>5, ChainStarts
<1>6. ASSUME NEW r \in resumes, DeliverApprove(r) PROVE ChainInv'
  BY <1>6, PayloadToCall
<1>7. ASSUME NEW c \in calls, NEW ok \in BOOLEAN, TargetExecutes(c, ok) PROVE ChainInv'
  BY <1>7, CallToThen
<1>8. ASSUME NEW t \in thens, ContinueChain(t) PROVE ChainInv'
  BY <1>8, ThenToPayload
<1>9. ASSUME NEW t \in thens, ContinueChainPanics(t) PROVE ChainInv'
  BY <1>9, NoNewLink DEF ContinueChainPanics, batchVars, traceVars, ChainResumes,
                         ChainCalls
<1>10. ASSUME NEW r \in resumes,
              DeliverReject(r) \/ CallbackPanics(r) \/ DropStale(r)
       PROVE  ChainInv'
  BY <1>2, <1>10 DEF DeliverReject, CallbackPanics, DropStale, Delivered, Resolve,
                     batchVars, traceVars
<1>11. ASSUME NEW i \in yields, TimeoutFires(i) PROVE ChainInv'
  BY <1>2, <1>11 DEF TimeoutFires, Resolve, batchVars, traceVars
<1>12. ASSUME NEW a, AddRelayer(a) \/ RemoveRelayer(a) \/ SetApprover(a)
       PROVE  ChainInv'
  BY <1>2, <1>12 DEF AddRelayer, RemoveRelayer, SetApprover, batchVars, receiptVars,
                     traceVars
<1>13. CASE NextBlock \/ UNCHANGED gateVars
  BY <1>2, <1>13 DEF NextBlock, gateVars, batchVars, receiptVars, traceVars
<1>14. QED
  BY <1>1, <1>3, <1>4, <1>5, <1>6, <1>7, <1>8, <1>9, <1>10, <1>11, <1>12, <1>13
     DEF Next, OwnerNext, ApproverNext, RuntimeNext, vars

(***************************************************************************)
(* The tail is what the cursor has not reached of the latest batch, and    *)
(* the one link in flight stands at the cursor and names the tail's head.  *)
(***************************************************************************)
THEOREM ChainInvariant ==
    ASSUME EarlyReset = FALSE
    PROVE  Spec => []ChainInv
BY ChainInit, ChainInvStep, TypeInvariant, LifeInvariant, PTL DEF Spec

(***************************************************************************)
(* Coordinator ordering: a member of a batch is resumed in its place and   *)
(* only after the target of the member before it has run.                  *)
(***************************************************************************)
THEOREM OrderKept ==
    ASSUME EarlyReset = FALSE
    PROVE  Spec => []CoordinatorOrder
<1>1. ChainInv => CoordinatorOrder
  BY DEF ChainInv
<1>2. QED
  BY <1>1, ChainInvariant, PTL

(***************************************************************************)
(* At most one receipt carries the chain, and it is for the head of the    *)
(* tail: continue_chain never panics on a mismatch or an empty tail.       *)
(***************************************************************************)
THEOREM CursorKept ==
    ASSUME EarlyReset = FALSE
    PROVE  Spec => []ChainCursor
<1>1. TypeInv /\ ChainInv => ChainCursor
  BY DEF ChainInv, ChainCursor, Links, LinkInv, OneLink, FirstOf
<1>2. QED
  BY <1>1, TypeInvariant, ChainInvariant, PTL

-----------------------------------------------------------------------------

\* What a member of a batch has behind it: a predecessor that has run.
LEMMA PredRan ==
    ASSUME TypeInv, ChainInv, NEW i \in Ids, Follows(i)
    PROVE  Pred(i) \in Ids /\ ran_at[Pred(i)] \in Nat
<1>1. /\ slot[i].batch \in Nat /\ slot[i].seq \in Nat /\ slot[i].batch > 0
      /\ slot[i].seq > 0 /\ batches \in Seq(Seq(Ids))
  BY DEF TypeInv, GateTypeOK, Follows
<1>2. /\ slot[i].batch <= Len(batches) /\ slot[i].seq < Len(batches[slot[i].batch])
      /\ ran_at[Pred(i)] # None
  BY <1>1 DEF ChainInv, CoordinatorOrder, Pred
<1>3. slot[i].batch \in 1..Len(batches)
  BY <1>1, <1>2
<1>4. batches[slot[i].batch] \in Seq(Ids)
  BY <1>1, <1>3
<1>5. slot[i].seq \in 1..Len(batches[slot[i].batch])
  BY <1>1, <1>2, <1>4
<1>6. Pred(i) \in Ids
  BY <1>4, <1>5 DEF Pred
<1>7. QED
  BY <1>2, <1>6 DEF TypeInv, GateTypeOK

\* The pace holds on where nobody is called, runs or gets a predecessor.
LEMMA PaceUnchanged ==
    ASSUME TypeInv, LifeInv, ChainInv, NEW e \in BOOLEAN, Paced(e),
           UNCHANGED <<slot, ran_at>>, calls' = calls,
           \A i \in Ids : Follows(i) => Pred(i)' = Pred(i),
           \A r \in resumes' : r \in resumes \/ ~Follows(r.id),
           \A t \in thens' : t \in thens
    PROVE  Paced(e)'
<1>1. \A i : Follows(i)' <=> Follows(i)
  BY DEF Follows
<1>2. \A r \in resumes : r.id \in Ids
  BY IdFacts DEF TypeInv
<1>3. \A c \in calls : c.id \in Ids
  BY IdFacts DEF TypeInv
<1>4. \A t \in thens' : Apart(t.at, ran_at'[t.from], e)
  BY DEF Paced
<1>5. \A r \in resumes' : Follows(r.id)' =>
         Apart(r.at, ran_at'[Pred(r.id)'] + ReceiptDelay, e)
  BY <1>1, <1>2 DEF Paced
<1>6. \A c \in calls' : Follows(c.id)' =>
         Apart(c.at, ran_at'[Pred(c.id)'] + 2 * ReceiptDelay, e)
  BY <1>1, <1>3 DEF Paced
<1>7. \A i \in Ids : Follows(i) /\ ran_at[i] # None
                       => Apart(ran_at[i], ran_at[Pred(i)] + 3 * ReceiptDelay, e)
  BY DEF Paced
<1>8. \A i \in Ids : Follows(i)' /\ ran_at'[i] # None
                       => Apart(ran_at'[i], ran_at'[Pred(i)'] + 3 * ReceiptDelay, e)
  BY <1>1, <1>7
<1>9. QED
  BY <1>4, <1>5, <1>6, <1>8 DEF Paced

\* The first member of a batch follows nobody, and the others keep who they follow.
LEMMA PaceAtStart ==
    ASSUME TypeInv, LifeInv, ChainInv, NEW e \in BOOLEAN, Paced(e),
           NEW by, NEW attached \in Deposits,
           NEW n \in 1..MaxBatch, NEW ids \in [1..n -> pending],
           ResumeBatchChained(by, ids, attached)
    PROVE  Paced(e)'
<1> DEFINE new == [id |-> ids[1], approve |-> TRUE, seq |-> 0,
                   next |-> FirstOf(Tail(ids)), at |-> height]
<1>1. /\ batches' = Append(batches, ids) /\ resumes' = resumes \cup {new}
      /\ slot' = [slot EXCEPT ![ids[1]] = [batch |-> active_batch_id + 1, seq |-> 0]]
      /\ UNCHANGED <<calls, thens, ran_at>>
  BY DEF ResumeBatchChained, ResumeYield
<1>2. /\ slot = [i \in Ids |-> slot[i]] /\ \A r \in resumes : r.id \in Ids
      /\ \A c \in calls : c.id \in Ids
  BY IdFacts DEF TypeInv
<1>3. ids[1] \in Ids
  BY BatchType, FeeAssumption DEF TypeInv, FeeAssumption
<1>4. slot'[ids[1]].seq = 0 /\ \A i \in Ids : i # ids[1] => slot'[i] = slot[i]
  BY <1>1, <1>2, <1>3
<1>5. ASSUME NEW i \in Ids, Follows(i)'
      PROVE  Follows(i) /\ Pred(i)' = Pred(i)
  <2>1. slot'[i] = slot[i] /\ Follows(i)
    BY <1>4, <1>5 DEF Follows
  <2>2. /\ slot[i].batch \in 1..Len(batches) /\ batches \in Seq(Seq(Ids))
    BY <2>1 DEF ChainInv, CoordinatorOrder, TypeInv, GateTypeOK, Follows
  <2>3. batches'[slot[i].batch] = batches[slot[i].batch]
    BY <1>1, <2>2
  <2>4. QED
    BY <2>1, <2>3 DEF Pred
<1>6. \A t \in thens' : Apart(t.at, ran_at'[t.from], e)
  BY <1>1 DEF Paced
<1>7. \A r \in resumes' : Follows(r.id)' =>
         Apart(r.at, ran_at'[Pred(r.id)'] + ReceiptDelay, e)
  <2>1. ~Follows(ids[1])'
    BY <1>4 DEF Follows
  <2>2. QED
    BY <1>1, <1>2, <1>5, <2>1 DEF Paced
<1>8. \A c \in calls' : Follows(c.id)' =>
         Apart(c.at, ran_at'[Pred(c.id)'] + 2 * ReceiptDelay, e)
  BY <1>1, <1>2, <1>5 DEF Paced
<1>9. \A i \in Ids : Follows(i) /\ ran_at[i] # None
                       => Apart(ran_at[i], ran_at[Pred(i)] + 3 * ReceiptDelay, e)
  BY DEF Paced
<1>10. \A i \in Ids : Follows(i)' /\ ran_at'[i] # None
                        => Apart(ran_at'[i], ran_at'[Pred(i)'] + 3 * ReceiptDelay, e)
  BY <1>1, <1>5, <1>9
<1>11. QED
  BY <1>6, <1>7, <1>8, <1>10 DEF Paced

\* A payload waits ReceiptDelay before it becomes a call.
LEMMA PaceOfCall ==
    ASSUME TypeInv, LifeInv, ChainInv, NEW e \in BOOLEAN, Paced(e), e => Prompt,
           NEW r \in resumes, DeliverApprove(r)
    PROVE  Paced(e)'
<1> DEFINE new == [id |-> r.id, next |-> r.next, seq |-> NextSeq(r.seq), at |-> height]
<1>1. /\ height >= r.at + ReceiptDelay /\ (e => height <= r.at + ReceiptDelay)
      /\ resumes' = resumes \ {r} /\ calls' = calls \cup {new}
      /\ UNCHANGED <<thens, slot, ran_at, batches>>
  BY DEF DeliverApprove, Delivered, Due, Prompt, batchVars, traceVars
<1>2. /\ r.id \in Ids /\ \A c \in calls : c.id \in Ids
      /\ r.at \in Nat /\ height \in Nat /\ ReceiptDelay \in Nat
  BY GateAssumption DEF TypeInv, GateTypeOK, GateAssumption, Resume, Call
<1>3. \A i : (Follows(i)' <=> Follows(i)) /\ Pred(i)' = Pred(i)
  BY <1>1 DEF Follows, Pred
<1>4. ASSUME Follows(r.id)
      PROVE  Apart(height, ran_at[Pred(r.id)] + 2 * ReceiptDelay, e)
  <2>1. ran_at[Pred(r.id)] \in Nat
    BY <1>2, <1>4, PredRan
  <2>2. Apart(r.at, ran_at[Pred(r.id)] + ReceiptDelay, e)
    BY <1>4 DEF Paced
  <2>3. QED
    BY <1>1, <1>2, <2>1, <2>2 DEF Apart
<1>5. \A c \in calls' : Follows(c.id)' =>
         Apart(c.at, ran_at'[Pred(c.id)'] + 2 * ReceiptDelay, e)
  BY <1>1, <1>3, <1>4 DEF Paced
<1>6. \A q \in resumes' : Follows(q.id)' =>
         Apart(q.at, ran_at'[Pred(q.id)'] + ReceiptDelay, e)
  BY <1>1, <1>3 DEF Paced
<1>7. \A t \in thens' : Apart(t.at, ran_at'[t.from], e)
  BY <1>1 DEF Paced
<1>8. \A i \in Ids : Follows(i)' /\ ran_at'[i] # None
                       => Apart(ran_at'[i], ran_at'[Pred(i)'] + 3 * ReceiptDelay, e)
  BY <1>1, <1>3 DEF Paced
<1>9. QED
  BY <1>5, <1>6, <1>7, <1>8 DEF Paced

\* A call waits ReceiptDelay before its target runs; nobody follows it yet.
LEMMA PaceOfRun ==
    ASSUME TypeInv, LifeInv, ChainInv, NEW e \in BOOLEAN, Paced(e), e => Prompt,
           NEW c \in calls, NEW ok, TargetExecutes(c, ok)
    PROVE  Paced(e)'
<1> DEFINE new == [next |-> c.next, seq |-> c.seq, from |-> c.id, at |-> height]
<1>1. /\ height >= c.at + ReceiptDelay /\ (e => height <= c.at + ReceiptDelay)
      /\ calls' = calls \ {c} /\ ran_at' = [ran_at EXCEPT ![c.id] = height]
      /\ \A t \in thens' : t \in thens \/ t = new
      /\ UNCHANGED <<resumes, slot, batches>>
  BY DEF TargetExecutes, Due, ThenOf, Prompt, batchVars
<1>2. /\ c.id \in Ids /\ ran_at[c.id] = None /\ ran_at = [i \in Ids |-> ran_at[i]]
      /\ \A r \in resumes : r.id \in Ids
      /\ \A d \in calls : d.id \in Ids
  BY IdFacts DEF TypeInv, LifeInv
<1>3. ran_at'[c.id] = height /\ \A i \in Ids : i # c.id => ran_at'[i] = ran_at[i]
  BY <1>1, <1>2
<1>4. c.at \in Nat /\ height \in Nat /\ ReceiptDelay \in Nat /\ None \notin Nat
  BY GateAssumption DEF TypeInv, GateTypeOK, GateAssumption, Call
<1>5. \A i : (Follows(i)' <=> Follows(i)) /\ Pred(i)' = Pred(i)
  BY <1>1 DEF Follows, Pred
<1>6. \A i \in Ids : Follows(i) =>
          Pred(i) \in Ids /\ ran_at[Pred(i)] \in Nat /\ ran_at'[Pred(i)] = ran_at[Pred(i)]
  BY <1>2, <1>3, <1>4, PredRan
<1>7. \A t \in thens' : Apart(t.at, ran_at'[t.from], e)
  <2>1. \A t \in thens : t.from \in Ids /\ ran_at[t.from] # None
    BY DEF TypeInv, GateTypeOK, Then, ChainInv, LinkInv
  <2>2. QED
    BY <1>1, <1>2, <1>3, <1>4, <2>1 DEF Paced, Apart
<1>8. \A r \in resumes' : Follows(r.id)' =>
         Apart(r.at, ran_at'[Pred(r.id)'] + ReceiptDelay, e)
  BY <1>1, <1>2, <1>5, <1>6 DEF Paced
<1>9. \A d \in calls' : Follows(d.id)' =>
         Apart(d.at, ran_at'[Pred(d.id)'] + 2 * ReceiptDelay, e)
  BY <1>1, <1>2, <1>5, <1>6 DEF Paced
<1>10. ASSUME NEW i \in Ids, Follows(i), ran_at'[i] # None
       PROVE  Apart(ran_at'[i], ran_at[Pred(i)] + 3 * ReceiptDelay, e)
  <2>1. CASE i = c.id
    <3>1. Apart(c.at, ran_at[Pred(i)] + 2 * ReceiptDelay, e)
      BY <1>10, <2>1 DEF Paced
    <3>2. ran_at[Pred(i)] \in Nat
      BY <1>6, <1>10
    <3>3. QED
      BY <1>1, <1>3, <1>4, <2>1, <3>1, <3>2 DEF Apart
  <2>2. CASE i # c.id
    BY <1>3, <1>10, <2>2 DEF Paced
  <2>3. QED
    BY <2>1, <2>2
<1>11. \A i \in Ids : Follows(i)' /\ ran_at'[i] # None
                        => Apart(ran_at'[i], ran_at'[Pred(i)'] + 3 * ReceiptDelay, e)
  BY <1>5, <1>6, <1>10
<1>12. QED
  BY <1>7, <1>8, <1>9, <1>11 DEF Paced

\* continue_chain waits ReceiptDelay after the target that it now gives a follower.
LEMMA PaceOfNext ==
    ASSUME TypeInv, LifeInv, ChainInv, NEW e \in BOOLEAN, Paced(e), e => Prompt,
           NEW t \in thens, ContinueChain(t)
    PROVE  Paced(e)'
<1> DEFINE new == [id |-> t.next, approve |-> TRUE, seq |-> t.seq,
                   next |-> FirstOf(Tail(batch_chain_tail)), at |-> height]
<1>1. /\ height >= t.at + ReceiptDelay /\ (e => height <= t.at + ReceiptDelay)
      /\ t.next \in pending
      /\ thens' = thens \ {t} /\ resumes' = resumes \cup {new}
      /\ slot' = [slot EXCEPT ![t.next] = [batch |-> active_batch_id, seq |-> t.seq]]
      /\ UNCHANGED <<calls, batches, ran_at>>
  BY DEF ContinueChain, Continuable, ResumeYield, Due, Prompt
<1>2. t.seq = Cursor /\ t.from = Members[Cursor] /\ ran_at[t.from] # None
  BY DEF ChainInv, LinkInv
<1>3. /\ \A r \in resumes : r.id \in Ids /\ r.id # t.next
      /\ \A c \in calls : c.id \in Ids /\ c.id # t.next
      /\ ran_at[t.next] = None
  BY <1>1, IdFacts DEF TypeInv, LifeInv
<1>4. /\ slot = [i \in Ids |-> slot[i]] /\ t.next \in Ids /\ t.from \in Ids
      /\ t.at \in Nat /\ height \in Nat /\ ReceiptDelay \in Nat
      /\ ran_at[t.from] \in Nat
  BY <1>2, GateAssumption DEF TypeInv, GateTypeOK, GateAssumption, Then
<1>5. slot'[t.next].batch = active_batch_id /\ slot'[t.next].seq = Cursor
  BY <1>1, <1>2, <1>4
<1>6. \A i \in Ids : i # t.next =>
          (Follows(i)' <=> Follows(i)) /\ Pred(i)' = Pred(i)
  BY <1>1, <1>4 DEF Follows, Pred
<1>7. Pred(t.next)' = t.from
  BY <1>1, <1>2, <1>5 DEF Pred, Members
<1>8. Apart(height, ran_at[t.from] + ReceiptDelay, e)
  <2>1. Apart(t.at, ran_at[t.from], e)
    BY DEF Paced
  <2>2. QED
    BY <1>1, <1>4, <2>1 DEF Apart
<1>9. \A r \in resumes' : Follows(r.id)' =>
         Apart(r.at, ran_at'[Pred(r.id)'] + ReceiptDelay, e)
  BY <1>1, <1>3, <1>6, <1>7, <1>8 DEF Paced
<1>10. \A c \in calls' : Follows(c.id)' =>
          Apart(c.at, ran_at'[Pred(c.id)'] + 2 * ReceiptDelay, e)
  BY <1>1, <1>3, <1>6 DEF Paced
<1>11. \A u \in thens' : Apart(u.at, ran_at'[u.from], e)
  BY <1>1 DEF Paced
<1>12. \A i \in Ids : Follows(i) /\ ran_at[i] # None
                        => Apart(ran_at[i], ran_at[Pred(i)] + 3 * ReceiptDelay, e)
  BY DEF Paced
<1>13. \A i \in Ids : Follows(i)' /\ ran_at'[i] # None
                        => Apart(ran_at'[i], ran_at'[Pred(i)'] + 3 * ReceiptDelay, e)
  BY <1>1, <1>3, <1>6, <1>12
<1>14. QED
  BY <1>9, <1>10, <1>11, <1>13 DEF Paced

LEMMA PaceStep ==
    ASSUME EarlyReset = FALSE, NEW e \in BOOLEAN, e => Prompt,
           TypeInv, LifeInv, ChainInv, Paced(e), [Next]_vars
    PROVE  Paced(e)'
<1>1. ASSUME UNCHANGED <<slot, ran_at, calls, batches>>,
             resumes' \subseteq resumes, thens' \subseteq thens
      PROVE  Paced(e)'
  <2>1. \A i \in Ids : Pred(i)' = Pred(i)
    BY <1>1 DEF Pred
  <2>2. QED
    BY <1>1, <2>1, PaceUnchanged
<1>2. ASSUME NEW by, NEW attached, NEW i \in pending, NEW approve,
             ResumeIntent(by, i, approve, attached)
      PROVE  Paced(e)'
  <2>1. ~Follows(i)
    <3>1. i \in Ids /\ slot[i].batch = 0
      BY <1>2, IdFacts DEF TypeInv, LifeInv
    <3>2. QED
      BY <3>1 DEF Follows
  <2>2. \A j \in Ids : Pred(j)' = Pred(j)
    BY <1>2 DEF ResumeIntent, batchVars, traceVars, Pred
  <2>3. \A r \in resumes' : r \in resumes \/ r.id = i
    BY <1>2 DEF ResumeIntent, ResumeYield
  <2>4. QED
    BY <1>2, <2>1, <2>2, <2>3, PaceUnchanged DEF ResumeIntent, traceVars
<1>3. ASSUME NEW by \in Accounts, NEW attached \in Deposits, NEW n \in 1..MaxBatch,
             NEW ids \in [1..n -> pending], ResumeBatchChained(by, ids, attached)
      PROVE  Paced(e)'
  BY <1>3, PaceAtStart
<1>4. ASSUME NEW r \in resumes, DeliverApprove(r) PROVE Paced(e)'
  BY <1>4, PaceOfCall
<1>5. ASSUME NEW c \in calls, NEW ok \in BOOLEAN, TargetExecutes(c, ok) PROVE Paced(e)'
  BY <1>5, PaceOfRun
<1>6. ASSUME NEW t \in thens, ContinueChain(t) PROVE Paced(e)'
  BY <1>6, PaceOfNext
<1>7. ASSUME NEW t \in thens, ContinueChainPanics(t) PROVE Paced(e)'
  BY <1>1, <1>7 DEF ContinueChainPanics, batchVars, traceVars
<1>8. ASSUME NEW r \in resumes,
             DeliverReject(r) \/ CallbackPanics(r) \/ DropStale(r)
      PROVE  Paced(e)'
  BY <1>1, <1>8 DEF DeliverReject, CallbackPanics, DropStale, Delivered, batchVars,
                    traceVars
<1>9. ASSUME NEW i \in yields, TimeoutFires(i) PROVE Paced(e)'
  BY <1>1, <1>9 DEF TimeoutFires, batchVars, traceVars
<1>10. ASSUME NEW by \in Accounts, NEW d \in Delegates, SubmitIntent(by, d)
       PROVE  Paced(e)'
  BY <1>1, <1>10 DEF SubmitIntent, batchVars, traceVars
<1>11. ASSUME NEW a, AddRelayer(a) \/ RemoveRelayer(a) \/ SetApprover(a)
       PROVE  Paced(e)'
  BY <1>1, <1>11 DEF AddRelayer, RemoveRelayer, SetApprover, batchVars, receiptVars,
                     traceVars
<1>12. CASE ResetBatchTail \/ NextBlock \/ UNCHANGED gateVars
  BY <1>1, <1>12 DEF ResetBatchTail, NextBlock, gateVars, batchVars, receiptVars,
                     traceVars
<1>13. QED
  BY <1>2, <1>3, <1>4, <1>5, <1>6, <1>7, <1>8, <1>9, <1>10, <1>11, <1>12
     DEF Next, OwnerNext, ApproverNext, RuntimeNext, vars

(***************************************************************************)
(* The pace of a batch: on the way from one target to the next, each       *)
(* receipt comes at least one delay after the one before it.               *)
(***************************************************************************)
THEOREM PaceInvariant ==
    ASSUME EarlyReset = FALSE
    PROVE  Spec => []PaceInv
<1>1. Init => PaceInv
  BY DEF Init, PaceInv, Paced
<1>2. TypeInv /\ LifeInv /\ ChainInv /\ PaceInv /\ [Next]_vars => PaceInv'
  BY PaceStep DEF PaceInv
<1>3. QED
  BY <1>1, <1>2, TypeInvariant, LifeInvariant, ChainInvariant, PTL DEF Spec

(***************************************************************************)
(* Dispatches of a batch are block-monotonic: the targets of neighbours    *)
(* run at least three receipt delays apart.                                *)
(***************************************************************************)
THEOREM PaceKept ==
    ASSUME EarlyReset = FALSE
    PROVE  Spec => []BlockMonotonic
<1>1. PaceInv => BlockMonotonic
  BY DEF PaceInv, Paced, Apart, BlockMonotonic, Follows, Pred
<1>2. QED
  BY <1>1, PaceInvariant, PTL

(***************************************************************************)
(* Where no receipt is ever late, the targets of neighbours run exactly    *)
(* three receipt delays apart.                                             *)
(***************************************************************************)
THEOREM PaceExact ==
    ASSUME EarlyReset = FALSE
    PROVE  Spec /\ []Prompt => []ExactQuantum
<1>1. Init => Paced(TRUE)
  BY DEF Init, Paced
<1>2. Prompt /\ TypeInv /\ LifeInv /\ ChainInv /\ Paced(TRUE) /\ [Next]_vars
        => Paced(TRUE)'
  BY PaceStep
<1>3. Paced(TRUE) => ExactQuantum
  BY DEF Paced, Apart, ExactQuantum, Follows, Pred
<1>4. QED
  BY <1>1, <1>2, <1>3, TypeInvariant, LifeInvariant, ChainInvariant, PTL DEF Spec

-----------------------------------------------------------------------------
(***************************************************************************)
(* The gate implements IntentPromise, for any number of intents, batches   *)
(* of any length and any delay: Init maps to Init, and every step to a     *)
(* move of one intent, to a turn in a batch, or to no step at all. Which   *)
(* stage an intent leaves comes from LifeInv, that a turn is given behind  *)
(* a target that has run from ChainInv.                                    *)
(***************************************************************************)

\* A step that moves one intent to a stage allowed next is a Move.
LEMMA OneMoves ==
    ASSUME NEW i \in Ids, StageOf(i)' \in Promise!After[StageOf(i)],
           \A j \in Ids : j # i => StageOf(j)' = StageOf(j),
           UNCHANGED <<batches, slot>>
    PROVE  Promise!Next
<1> DEFINE S == [j \in Ids |-> StageOf(j)]
<1>1. S' = [S EXCEPT ![i] = S'[i]]
  OBVIOUS
<1>2. Promise!Move(i)
  BY <1>1 DEF Promise!Move
<1>3. QED
  BY <1>2 DEF Promise!Next

\* A step that moves no intent is none for the promise.
LEMMA NoneMoves ==
    ASSUME \A j \in Ids : StageOf(j)' = StageOf(j), UNCHANGED <<batches, slot>>
    PROVE  UNCHANGED Promise!promiseVars
BY DEF Promise!promiseVars

LEMMA PromiseInit == Init => Promise!Init
<1> SUFFICES ASSUME Init PROVE Promise!Init
  OBVIOUS
<1>1. \A i \in Ids : StageOf(i) = "new"
  BY IdsAreNat DEF Init, StageOf
<1>2. QED
  BY <1>1 DEF Init, Promise!Init

-----------------------------------------------------------------------------
\* What a step does to the stages

\* submit_intent: the id next in line, and no other, leaves "new".
LEMMA SubmitMoves ==
    ASSUME TypeInv, LifeInv, NEW by \in Accounts, NEW d \in Delegates,
           SubmitIntent(by, d)
    PROVE  Promise!Next
<1>a. /\ next_intent_id \in Nat /\ \A i \in Ids : i \in Nat
      /\ pending \subseteq Ids /\ yields \subseteq Ids
  BY IdFacts DEF TypeInv
<1>1. /\ next_intent_id \in Ids /\ next_intent_id' = next_intent_id + 1
      /\ yields' = yields \cup {next_intent_id}
      /\ pending' = pending \cup {next_intent_id}
      /\ UNCHANGED <<calls, ran_at, lost, batches, slot>>
  BY DEF SubmitIntent, batchVars, traceVars
<1>3. PICK n \in Ids : n = next_intent_id /\ StageOf(n) = "new" /\ StageOf(n)' = "held"
  BY <1>a, <1>1 DEF StageOf
<1>4. ASSUME NEW j \in Ids, j # n PROVE StageOf(j)' = StageOf(j)
  <2>1. j \in Nat /\ (j >= next_intent_id' <=> j >= next_intent_id)
    BY <1>a, <1>1, <1>3, <1>4
  <2>2. /\ j \in pending' <=> j \in pending
        /\ j \in yields' <=> j \in yields
        /\ Called(j)' <=> Called(j)
    BY <1>1, <1>3, <1>4 DEF Called
  <2>3. QED
    BY <1>1, <2>1, <2>2 DEF StageOf
<1>5. StageOf(n)' \in Promise!After[StageOf(n)]
  BY <1>3 DEF Promise!After
<1>6. QED
  BY <1>1, <1>4, <1>5, OneMoves

\* A resume takes an intent from "held" to "resumed", by whichever call.
LEMMA ResumeStage ==
    ASSUME TypeInv, LifeInv, NEW i \in pending, pending' = pending \ {i},
           UNCHANGED <<next_intent_id, yields, calls, ran_at, lost>>
    PROVE  /\ i \in Ids /\ StageOf(i) = "held" /\ StageOf(i)' = "resumed"
           /\ \A j \in Ids : j # i => StageOf(j)' = StageOf(j)
<1>1. /\ next_intent_id \in Nat /\ \A j \in Ids : j \in Nat
      /\ i \in Ids /\ i \in yields /\ i < next_intent_id
  BY IdFacts DEF TypeInv, LifeInv
<1>2. StageOf(i) = "held" /\ StageOf(i)' = "resumed"
  BY <1>1 DEF StageOf
<1>3. ASSUME NEW j \in Ids, j # i PROVE StageOf(j)' = StageOf(j)
  BY <1>3 DEF StageOf, Called
<1>4. QED
  BY <1>1, <1>2, <1>3

(***************************************************************************)
(* The callback takes an intent out of its yield: to "called", "lost" or   *)
(* "rejected", whatever stands in calls and lost behind it.                *)
(***************************************************************************)
LEMMA SettleStage ==
    ASSUME TypeInv, LifeInv, NEW i \in yields, yields' = yields \ {i},
           pending' = pending \ {i}, UNCHANGED <<next_intent_id, ran_at>>,
           \A j \in Ids : j # i => (Called(j)' <=> Called(j)),
           \A j \in Ids : j # i => (j \in lost' <=> j \in lost)
    PROVE  /\ i \in Ids
           /\ StageOf(i) = IF i \in pending THEN "held" ELSE "resumed"
           /\ StageOf(i)' = IF Called(i)' THEN "called"
                            ELSE IF i \in lost' THEN "lost" ELSE "rejected"
           /\ \A j \in Ids : j # i => StageOf(j)' = StageOf(j)
<1>1. /\ next_intent_id \in Nat /\ \A j \in Ids : j \in Nat
      /\ i \in Ids /\ i < next_intent_id /\ ran_at[i] = None
  BY IdFacts DEF TypeInv, LifeInv
<1>2. StageOf(i) = IF i \in pending THEN "held" ELSE "resumed"
  BY <1>1 DEF StageOf
<1>3. StageOf(i)' = IF Called(i)' THEN "called"
                   ELSE IF i \in lost' THEN "lost" ELSE "rejected"
  BY <1>1 DEF StageOf
<1>4. ASSUME NEW j \in Ids, j # i PROVE StageOf(j)' = StageOf(j)
  BY <1>4 DEF StageOf
<1>5. QED
  BY <1>1, <1>2, <1>3, <1>4

\* A rejection and a timeout settle an intent as rejected.
LEMMA RejectMoves ==
    ASSUME TypeInv, LifeInv, NEW i \in yields, Resolve(i),
           UNCHANGED <<next_intent_id, ran_at, calls, lost, batches, slot>>
    PROVE  Promise!Next
<1>1. ~Called(i)' /\ i \notin lost'
  BY DEF LifeInv, Called
<1>2. /\ i \in Ids /\ StageOf(i) \in {"held", "resumed"} /\ StageOf(i)' = "rejected"
      /\ \A j \in Ids : j # i => StageOf(j)' = StageOf(j)
  BY <1>1, SettleStage DEF Resolve, Called
<1>3. QED
  BY <1>2, OneMoves DEF Promise!After

\* An approved intent that can be dispatched is called, one that cannot is lost.
LEMMA CallMoves ==
    ASSUME TypeInv, LifeInv, NEW r \in resumes, DeliverApprove(r) \/ CallbackPanics(r)
    PROVE  Promise!Next
<1>1. PICK i \in Ids : i = r.id
  BY IdFacts DEF TypeInv
<1>2. /\ i \in yields /\ i \notin pending
      /\ yields' = yields \ {i} /\ pending' = pending \ {i}
      /\ UNCHANGED <<next_intent_id, ran_at, batches, slot>>
  BY <1>1 DEF DeliverApprove, CallbackPanics, Delivered, Resolve, LifeInv, submitVars,
              batchVars, traceVars
<1>3. /\ Called(i)' \/ i \in lost'
      /\ \A j \in Ids : j # i => (Called(j)' <=> Called(j))
      /\ \A j \in Ids : j # i => (j \in lost' <=> j \in lost)
  <2>1. CASE DeliverApprove(r)
    <3> DEFINE new == [id |-> r.id, next |-> r.next, seq |-> NextSeq(r.seq),
                       at |-> height]
    <3>1. calls' = calls \cup {new} /\ new.id = i /\ lost' = lost
      BY <1>1, <2>1 DEF DeliverApprove, traceVars
    <3>2. QED
      BY <3>1 DEF Called
  <2>2. CASE CallbackPanics(r)
    BY <1>1, <2>2 DEF CallbackPanics, Called
  <2>3. QED
    BY <2>1, <2>2
<1>4. /\ StageOf(i) = "resumed" /\ StageOf(i)' \in {"called", "lost"}
      /\ \A j \in Ids : j # i => StageOf(j)' = StageOf(j)
  BY <1>2, <1>3, SettleStage
<1>5. QED
  BY <1>2, <1>4, OneMoves DEF Promise!After

\* The target's execution takes an intent from "called" to "ran".
LEMMA TargetMoves ==
    ASSUME TypeInv, LifeInv, NEW c \in calls, NEW ok \in BOOLEAN, TargetExecutes(c, ok)
    PROVE  Promise!Next
<1>1. PICK i \in Ids : i = c.id
  BY IdFacts DEF TypeInv
<1>2. /\ \A j \in Ids : j \in Nat /\ next_intent_id \in Nat
      /\ i < next_intent_id /\ i \notin yields /\ i \notin pending
      /\ ran_at[i] = None /\ \A d \in calls : d.id = i => d = c
  BY <1>1, IdFacts DEF LifeInv, TypeInv
<1>3. /\ calls' = calls \ {c} /\ ran_at' = [ran_at EXCEPT ![i] = height]
      /\ UNCHANGED <<next_intent_id, pending, yields, lost, batches, slot>>
  BY <1>1 DEF TargetExecutes, submitVars, batchVars
<1>4. ran_at'[i] # None /\ \A j \in Ids : j # i => ran_at'[j] = ran_at[j]
  BY <1>3, IdFacts, GateAssumption DEF TypeInv, GateAssumption
<1>5. StageOf(i) = "called" /\ StageOf(i)' = "ran"
  BY <1>1, <1>2, <1>3, <1>4 DEF StageOf, Called
<1>6. ASSUME NEW j \in Ids, j # i PROVE StageOf(j)' = StageOf(j)
  <2>1. Called(j)' <=> Called(j)
    BY <1>1, <1>3, <1>6 DEF Called
  <2>2. QED
    BY <1>3, <1>4, <1>6, <2>1 DEF StageOf
<1>7. QED
  BY <1>3, <1>5, <1>6, OneMoves DEF Promise!After

-----------------------------------------------------------------------------
\* Turns in a batch

\* resume_batch_chained opens a batch: every listed intent is still held.
LEMMA BatchOpens ==
    ASSUME TypeInv, LifeInv, TailInv, NEW by \in Accounts, NEW attached \in Deposits,
           NEW n \in 1..MaxBatch, NEW ids \in [1..n -> pending],
           ResumeBatchChained(by, ids, attached)
    PROVE  Promise!Next
<1> DEFINE S == [j \in Ids |-> StageOf(j)]
<1>1. n \in Nat /\ n > 0 /\ ids \in Seq(Ids) /\ Len(ids) = n /\ ids \in [1..n -> Ids]
  BY BatchType, IdFacts, FeeAssumption DEF FeeAssumption, TypeInv
<1>2. ids[1] \in pending /\ \A k \in 1..n : ids[k] \in pending
  BY <1>1
<1>3. /\ pending' = pending \ {ids[1]}
      /\ batches' = Append(batches, ids)
      /\ slot' = [slot EXCEPT ![ids[1]] = [batch |-> Len(batches) + 1, seq |-> 0]]
      /\ UNCHANGED <<next_intent_id, yields, calls, ran_at, lost>>
  BY DEF ResumeBatchChained, TailInv, submitVars
<1>4. PICK i \in Ids : i = ids[1]
  BY <1>1
<1>5. /\ StageOf(i) = "held" /\ StageOf(i)' = "resumed"
      /\ \A j \in Ids : j # i => StageOf(j)' = StageOf(j)
  BY <1>2, <1>3, <1>4, ResumeStage
<1>6. S' = [S EXCEPT ![i] = "resumed"]
  BY <1>5
<1>7. \A k \in 1..Len(ids) : StageOf(ids[k]) = "held"
  <2>1. ASSUME NEW j \in pending PROVE StageOf(j) = "held"
    BY IdFacts DEF StageOf, TypeInv, LifeInv
  <2>2. QED
    BY <1>1, <1>2, <2>1
<1>8. \A k \in 1..Len(ids) : S[ids[k]] = "held"
  BY <1>1, <1>7
<1>9. Promise!Open(ids)
  BY <1>3, <1>4, <1>5, <1>6, <1>8 DEF Promise!Open, Promise!TakesTurn
<1>10. batches' # batches
  <2>1. batches \in Seq(Seq(Ids)) /\ Len(Append(batches, ids)) = Len(batches) + 1
    BY <1>1 DEF TypeInv, GateTypeOK
  <2>2. QED
    BY <1>3, <2>1
<1>11. QED
  BY <1>1, <1>9, <1>10 DEF Promise!Next

\* continue_chain gives the next turn: the receipt was made behind a target that ran.
LEMMA ChainFollows ==
    ASSUME TypeInv, LifeInv, ChainInv, NEW t \in thens, ContinueChain(t)
    PROVE  Promise!Next
<1> DEFINE S == [j \in Ids |-> StageOf(j)]
<1>1. /\ batch_chain_tail # <<>> /\ t.next = Head(batch_chain_tail)
      /\ t.seq = Cursor /\ t.from = Members[Cursor] /\ ran_at[t.from] # None
  BY DEF ContinueChain, ChainInv, LinkInv
<1>2. /\ active_batch_id = Len(batches) /\ batches # <<>>
      /\ Members \in Seq(Ids) /\ Cursor \in 1..(Len(Members) - 1)
      /\ Members[Cursor + 1] = t.next
  <2>1. /\ active_batch_id \in 1..Len(batches) /\ Members \in Seq(Ids)
        /\ Len(Members) \in Nat /\ Cursor \in Nat \ {0} /\ Cursor < Len(Members)
        /\ Members[Cursor + 1] = Head(batch_chain_tail)
    BY <1>1, CursorType DEF TypeInv, ChainInv
  <2>2. active_batch_id = Len(batches)
    BY DEF ChainInv, TailInv
  <2>3. QED
    BY <1>1, <2>1, <2>2
<1>3. PICK k \in 1..(Len(Members) - 1) : k = Cursor
  BY <1>2
<1>4. PICK i \in Ids, p \in Ids :
        i = t.next /\ p = t.from /\ Members[k + 1] = i /\ Members[k] = p
  BY <1>1, <1>2, <1>3, IdFacts DEF TypeInv
<1>5. /\ i \in pending /\ pending' = pending \ {i}
      /\ slot' = [slot EXCEPT ![i] = [batch |-> Len(batches), seq |-> k]]
      /\ UNCHANGED <<next_intent_id, yields, calls, ran_at, lost, batches>>
  BY <1>1, <1>2, <1>3, <1>4 DEF ContinueChain, Continuable, submitVars
<1>6. /\ StageOf(i) = "held" /\ StageOf(i)' = "resumed"
      /\ \A j \in Ids : j # i => StageOf(j)' = StageOf(j)
  BY <1>5, ResumeStage
<1>7. S' = [S EXCEPT ![i] = "resumed"]
  BY <1>6
<1>8. StageOf(p) = "ran"
  <2>1. /\ next_intent_id \in Nat /\ p \in Nat /\ ran_at[p] # None
        /\ p < next_intent_id /\ p \notin yields /\ p \notin pending /\ ~Called(p)
    BY <1>1, <1>4, IdFacts DEF TypeInv, LifeInv, Called
  <2>2. QED
    BY <2>1 DEF StageOf
<1>9. batches[Len(batches)] = Members
  BY <1>2 DEF Members
<1>10. Promise!Follow(k)
  BY <1>4, <1>5, <1>6, <1>7, <1>8, <1>9 DEF Promise!Follow, Promise!TakesTurn
<1>11. QED
  BY <1>2, <1>9, <1>10 DEF Promise!Next

-----------------------------------------------------------------------------

LEMMA PromiseStep ==
    ASSUME TypeInv, LifeInv, ChainInv, [Next]_vars
    PROVE  [Promise!Next]_(Promise!promiseVars)
<1>1. ASSUME NEW by \in Accounts, NEW d \in Delegates, SubmitIntent(by, d)
      PROVE  Promise!Next
  BY <1>1, SubmitMoves
<1>2. ASSUME NEW i \in pending, NEW approve \in BOOLEAN, NEW by \in Accounts,
             NEW attached \in Deposits, ResumeIntent(by, i, approve, attached)
      PROVE  Promise!Next
  <2>1. /\ pending' = pending \ {i}
        /\ UNCHANGED <<next_intent_id, yields, calls, ran_at, lost, batches, slot>>
    BY <1>2 DEF ResumeIntent, submitVars, batchVars, traceVars
  <2>2. QED
    BY <2>1, ResumeStage, OneMoves DEF Promise!After
<1>3. ASSUME NEW by \in Accounts, NEW attached \in Deposits, NEW n \in 1..MaxBatch,
             NEW ids \in [1..n -> pending], ResumeBatchChained(by, ids, attached)
      PROVE  Promise!Next
  BY <1>3, BatchOpens DEF ChainInv
<1>4. ASSUME NEW r \in resumes, DeliverReject(r) PROVE Promise!Next
  BY <1>4, RejectMoves DEF DeliverReject, Delivered, submitVars, batchVars, traceVars
<1>5. ASSUME NEW i \in yields, TimeoutFires(i) PROVE Promise!Next
  BY <1>5, RejectMoves DEF TimeoutFires, submitVars, batchVars, traceVars
<1>6. ASSUME NEW r \in resumes, DeliverApprove(r) \/ CallbackPanics(r)
      PROVE  Promise!Next
  BY <1>6, CallMoves
<1>7. ASSUME NEW c \in calls, NEW ok \in BOOLEAN, TargetExecutes(c, ok)
      PROVE  Promise!Next
  BY <1>7, TargetMoves
<1>8. ASSUME NEW t \in thens, ContinueChain(t) PROVE Promise!Next
  BY <1>8, ChainFollows
<1>9. ASSUME UNCHANGED <<next_intent_id, pending, yields, calls, ran_at, lost, batches, slot>>
      PROVE  UNCHANGED Promise!promiseVars
  BY <1>9, NoneMoves DEF StageOf, Called
<1>10. ASSUME NEW r \in resumes, DropStale(r) PROVE UNCHANGED Promise!promiseVars
  BY <1>9, <1>10 DEF DropStale, submitVars, batchVars, traceVars
<1>11. ASSUME NEW t \in thens, ContinueChainPanics(t)
       PROVE  UNCHANGED Promise!promiseVars
  BY <1>9, <1>11 DEF ContinueChainPanics, submitVars, batchVars, traceVars
<1>12. ASSUME NEW a, AddRelayer(a) \/ RemoveRelayer(a) \/ SetApprover(a)
       PROVE  UNCHANGED Promise!promiseVars
  BY <1>9, <1>12 DEF AddRelayer, RemoveRelayer, SetApprover, submitVars, batchVars,
                     receiptVars, traceVars
<1>13. CASE ResetBatchTail \/ NextBlock \/ UNCHANGED gateVars
  BY <1>9, <1>13 DEF ResetBatchTail, NextBlock, gateVars, submitVars, batchVars,
                     receiptVars, traceVars
<1>14. QED
  BY <1>1, <1>2, <1>3, <1>4, <1>5, <1>6, <1>7, <1>8, <1>10, <1>11, <1>12, <1>13
     DEF Next, OwnerNext, ApproverNext, RuntimeNext, vars

(***************************************************************************)
(* The gate keeps its promise: every behaviour of Gate, with an owner who  *)
(* resets the tail of a dead chain only, is one of IntentPromise.          *)
(***************************************************************************)
THEOREM GateKeepsPromise ==
    ASSUME EarlyReset = FALSE
    PROVE  Spec => KeepsPromise
<1>1. TypeInv /\ LifeInv /\ ChainInv /\ [Next]_vars
        => [Promise!Next]_(Promise!promiseVars)
  BY PromiseStep
<1>2. QED
  BY <1>1, PromiseInit, TypeInvariant, LifeInvariant, ChainInvariant, PTL
     DEF Spec, KeepsPromise, Promise!Spec

-----------------------------------------------------------------------------
(***************************************************************************)
(* What holds of chained batches whatever the owner does, a reset of the   *)
(* tail under a living chain included: why a chain stops short, and that   *)
(* batches of distinct ids keep their order.                               *)
(***************************************************************************)

(***************************************************************************)
(* What a step may do to an intent that is already submitted: it leaves    *)
(* the pending map and its yield for good, takes a turn only from the      *)
(* pending map, is called only from its yield, and runs only when called.  *)
(***************************************************************************)
LEMMA IdMoves ==
    ASSUME TypeInv, LifeInv, [Next]_vars
    PROVE  /\ next_intent_id' \in Nat /\ next_intent_id' >= next_intent_id
           /\ \A i \in Ids : i < next_intent_id =>
                 (i \in pending' => i \in pending) /\ (i \in yields' => i \in yields)
           /\ \A i \in Ids : slot'[i] # slot[i] => i \in pending
           /\ \A i \in Ids : ran_at'[i] # ran_at[i] => Called(i)
           /\ \A c \in calls' : c \in calls \/ c.id \in yields
<1> DEFINE Moves ==
           /\ next_intent_id' \in Nat /\ next_intent_id' >= next_intent_id
           /\ \A i \in Ids : i < next_intent_id =>
                 (i \in pending' => i \in pending) /\ (i \in yields' => i \in yields)
           /\ \A i \in Ids : slot'[i] # slot[i] => i \in pending
           /\ \A i \in Ids : ran_at'[i] # ran_at[i] => Called(i)
           /\ \A c \in calls' : c \in calls \/ c.id \in yields
<1>a. /\ next_intent_id \in Nat /\ \A i \in Ids : i \in Nat
      /\ ran_at = [i \in Ids |-> ran_at[i]] /\ slot = [i \in Ids |-> slot[i]]
  BY IdFacts DEF TypeInv
<1> HIDE DEF Moves
<1>1. ASSUME UNCHANGED <<next_intent_id, slot, ran_at, calls>>,
             pending' \subseteq pending, yields' \subseteq yields
      PROVE  Moves
  BY <1>1, <1>a DEF Moves
<1>2. ASSUME NEW by, NEW d, SubmitIntent(by, d) PROVE Moves
  BY <1>2, <1>a DEF Moves, SubmitIntent, traceVars
<1>3. ASSUME NEW by \in Accounts, NEW attached \in Deposits, NEW n \in 1..MaxBatch,
             NEW ids \in [1..n -> pending], ResumeBatchChained(by, ids, attached)
      PROVE  Moves
  <2>1. ids[1] \in pending
    BY FeeAssumption DEF FeeAssumption
  <2>2. QED
    BY <1>3, <1>a, <2>1 DEF Moves, ResumeBatchChained, submitVars
<1>4. ASSUME NEW r \in resumes, DeliverApprove(r) PROVE Moves
  BY <1>4, <1>a DEF Moves, DeliverApprove, Delivered, Resolve, submitVars, traceVars
<1>5. ASSUME NEW c \in calls, NEW ok, TargetExecutes(c, ok) PROVE Moves
  BY <1>5, <1>a DEF Moves, TargetExecutes, Called, submitVars
<1>6. ASSUME NEW t, ContinueChain(t) PROVE Moves
  BY <1>6, <1>a DEF Moves, ContinueChain, Continuable, submitVars
<1>7. ASSUME NEW t, ContinueChainPanics(t) PROVE Moves
  BY <1>1, <1>7 DEF ContinueChainPanics, submitVars, traceVars
<1>8. ASSUME NEW by, NEW i, NEW approve, NEW attached,
             ResumeIntent(by, i, approve, attached)
      PROVE  Moves
  BY <1>1, <1>8 DEF ResumeIntent, submitVars, traceVars
<1>9. ASSUME NEW r, DeliverReject(r) \/ CallbackPanics(r) \/ DropStale(r)
      PROVE  Moves
  BY <1>1, <1>9 DEF DeliverReject, CallbackPanics, DropStale, Resolve, submitVars,
                    traceVars
<1>10. ASSUME NEW i, TimeoutFires(i) PROVE Moves
  BY <1>1, <1>10 DEF TimeoutFires, Resolve, submitVars, traceVars
<1>11. ASSUME NEW a, AddRelayer(a) \/ RemoveRelayer(a) \/ SetApprover(a) PROVE Moves
  BY <1>1, <1>11 DEF AddRelayer, RemoveRelayer, SetApprover, submitVars, receiptVars,
                     traceVars
<1>12. ASSUME ResetBatchTail \/ NextBlock \/ UNCHANGED gateVars PROVE Moves
  BY <1>1, <1>12 DEF ResetBatchTail, NextBlock, gateVars, submitVars, receiptVars,
                     traceVars
<1>13. Moves
  BY <1>2, <1>3, <1>4, <1>5, <1>6, <1>7, <1>8, <1>9, <1>10, <1>11, <1>12
     DEF Next, OwnerNext, ApproverNext, RuntimeNext, vars
<1>14. QED
  BY <1>13 DEF Moves

-----------------------------------------------------------------------------

\* Who has left a batch stays away.
LEMMA LeftStays ==
    ASSUME TypeInv, LifeInv, [Next]_vars, NEW i \in Ids, i < next_intent_id,
           NEW b, LeftChain(i, b)
    PROVE  LeftChain(i, b)'
<1>1. i \notin pending /\ i \notin pending' /\ slot'[i] = slot[i]
  BY IdMoves DEF LeftChain
<1>2. CASE slot[i].batch # b
  BY <1>1, <1>2 DEF LeftChain
<1>3. CASE i \notin yields /\ ran_at[i] = None /\ \A c \in calls : c.id # i
  <2>1. ran_at'[i] = None /\ i \notin yields'
    BY <1>3, IdMoves DEF Called
  <2>2. \A c \in calls' : c.id # i
    BY <1>3, IdMoves
  <2>3. QED
    BY <1>1, <2>1, <2>2 DEF LeftChain
<1>4. QED
  BY <1>2, <1>3 DEF LeftChain

\* A batch that has an excuse keeps it.
LEMMA ExcuseStays ==
    ASSUME TypeInv, LifeInv, [Next]_vars, TailInv, TurnsInv, batch_chain_tail # <<>>,
           Excused(active_batch_id), UNCHANGED <<batches, active_batch_id>>
    PROVE  Excused(active_batch_id)'
<1>1. CASE ListsTwice(Members)
  BY <1>1 DEF Excused, ListsTwice, Members
<1>2. CASE Abandoned(active_batch_id)
  <2>1. PICK k \in 1..Len(Members) : LeftChain(Members[k], active_batch_id)
    BY <1>2 DEF Abandoned, Members
  <2>2. Members[k] \in Ids /\ Members[k] < next_intent_id
    BY CursorType DEF TypeInv, TurnsInv
  <2>3. LeftChain(Members[k], active_batch_id)'
    <3> DEFINE i == Members[k]
               b == active_batch_id
    <3>1. LeftChain(i, b)
      BY <2>1
    <3>2. i' = i /\ b' = b
      BY DEF Members
    <3>3. \A j \in Ids : \A c : j < next_intent_id /\ LeftChain(j, c) => LeftChain(j, c)'
      BY LeftStays
    <3>4. QED
      BY <2>2, <3>1, <3>2, <3>3 DEF LeftChain, Members
  <2>4. QED
    BY <2>3 DEF Excused, Abandoned, Members
<1>3. QED
  BY <1>1, <1>2 DEF Excused, Members

\* A member whose payload is lost with its yield has left the batch.
LEMMA TurnLost ==
    ASSUME TypeInv, LifeInv, TailInv, batch_chain_tail # <<>>, NEW i \in yields,
           i \notin pending, Reached(i), yields' = yields \ {i}, pending' \subseteq pending,
           UNCHANGED <<calls, ran_at, slot, batches, active_batch_id>>
    PROVE  Excused(active_batch_id)'
<1>1. PICK j \in 1..Cursor : Members[j] = i
  BY DEF Reached
<1>2. j \in 1..Len(Members)
  BY CursorType DEF TypeInv
<1>3. ran_at'[i] = None /\ i \notin yields' /\ i \notin pending' /\ \A c \in calls' : c.id # i
  BY DEF LifeInv
<1>4. Members'[j] = i /\ Members' = Members
  BY <1>1 DEF Members
<1>5. LeftChain(Members[j], active_batch_id)'
  BY <1>3, <1>4 DEF LeftChain
<1>6. Abandoned(active_batch_id)'
  BY <1>2, <1>4, <1>5 DEF Abandoned, Members
<1>7. QED
  BY <1>6 DEF Excused

\* StuckInv over a step that leaves tail and turns alone.
LEMMA StuckFrame ==
    ASSUME TypeInv, LifeInv, StuckInv, [Next]_vars,
           UNCHANGED <<batch_chain_tail, active_batch_id, batches, slot>>,
           batch_chain_tail # <<>> /\ Advancing
              => Advancing' \/ Excused(active_batch_id)'
    PROVE  StuckInv'
<1>1. TailInv'
  BY DEF StuckInv, TailInv, Cursor, Members
<1>2. TurnsInv'
  <2>1. (\A i \in Ids : slot[i].batch <= active_batch_id)'
    BY DEF StuckInv, TurnsInv
  <2>2. ASSUME batch_chain_tail # <<>>
        PROVE  \A i \in Ids : slot'[i].batch = active_batch_id' => Reached(i)'
    BY <2>2 DEF StuckInv, TurnsInv, Reached, Members, Cursor
  <2>3. ASSUME batch_chain_tail # <<>>, NEW j \in 1..Len(Members)
        PROVE  Members[j] < next_intent_id'
    <3>1. Members[j] < next_intent_id
      BY <2>3 DEF StuckInv, TurnsInv
    <3>2. Members[j] \in Ids
      BY <2>3, CursorType DEF TypeInv, StuckInv
    <3>3. QED
      BY <3>1, <3>2, IdMoves, IdFacts DEF TypeInv
  <2>4. QED
    BY <2>1, <2>2, <2>3 DEF TurnsInv, Members
<1>3. batch_chain_tail # <<>> => Advancing' \/ Excused(active_batch_id)'
  BY ExcuseStays DEF StuckInv
<1>4. QED
  BY <1>1, <1>2, <1>3 DEF StuckInv

\* resume_batch_chained: the first payload is the link to the second member.
LEMMA StuckAtStart ==
    ASSUME TypeInv, LifeInv, StuckInv, NEW by, NEW attached, NEW n \in 1..MaxBatch,
           NEW ids \in [1..n -> pending], ResumeBatchChained(by, ids, attached)
    PROVE  StuckInv'
<1> DEFINE new == [id |-> ids[1], approve |-> TRUE, seq |-> 0,
                   next |-> FirstOf(Tail(ids)), at |-> height]
<1>1. /\ ids \in Seq(Ids) /\ Len(ids) \in Nat \ {0}
      /\ Tail(ids) \in Seq(Ids) /\ Len(Tail(ids)) = Len(ids) - 1
      /\ \A j \in 1..Len(Tail(ids)) : Tail(ids)[j] = ids[1 + j]
  BY BatchType, FeeAssumption DEF TypeInv, FeeAssumption
<1>2. /\ batch_chain_tail' = Tail(ids)
      /\ active_batch_id' = active_batch_id + 1
      /\ batches' = Append(batches, ids) /\ resumes' = resumes \cup {new}
      /\ slot' = [slot EXCEPT ![ids[1]] = [batch |-> active_batch_id + 1, seq |-> 0]]
      /\ ids[1] \in yields /\ UNCHANGED <<yields, next_intent_id>>
  BY DEF ResumeBatchChained, ResumeYield, submitVars
<1>3. /\ batches \in Seq(Seq(Ids)) /\ active_batch_id \in Nat
      /\ Len(batches) = active_batch_id /\ slot \in [Ids -> [batch : Nat, seq : Nat]]
  BY DEF TypeInv, GateTypeOK, StuckInv, TailInv
<1>4. Members' = ids /\ Cursor' = 1 /\ Len(batches') = active_batch_id'
  BY <1>1, <1>2, <1>3 DEF Members, Cursor
<1>5. TailInv'
  BY <1>1, <1>2, <1>3, <1>4 DEF TailInv
<1>6. slot'[ids[1]].batch = active_batch_id' /\ \A i \in Ids : i # ids[1] => slot'[i] = slot[i]
  BY <1>1, <1>2, <1>3
<1>7. Reached(ids[1])'
  BY <1>4 DEF Reached
<1>8. TurnsInv'
  <2>1. \A i \in Ids : slot'[i].batch <= active_batch_id'
    BY <1>2, <1>3, <1>6 DEF StuckInv, TurnsInv
  <2>2. \A i \in Ids : slot'[i].batch = active_batch_id' => i = ids[1]
    BY <1>2, <1>3, <1>6 DEF StuckInv, TurnsInv
  <2>3. \A j \in 1..Len(ids) : ids[j] < next_intent_id'
    <3>1. \A j \in 1..Len(ids) : ids[j] \in pending
      BY DEF ResumeBatchChained
    <3>2. QED
      BY <1>2, <3>1 DEF LifeInv
  <2>4. QED
    BY <1>4, <1>7, <2>1, <2>2, <2>3 DEF TurnsInv
<1>9. ASSUME batch_chain_tail' # <<>> PROVE Advancing'
  <2>1. FirstOf(Tail(ids)) = Head(Tail(ids)) /\ Head(Tail(ids)) \in Ids
    BY <1>1, <1>2, <1>9 DEF FirstOf
  <2>2. new.next = Head(batch_chain_tail') /\ new.next # None
    BY <1>2, <2>1, IdsAreNat, GateAssumption DEF GateAssumption
  <2>3. new \in ChainResumes'
    BY <1>2, <2>2 DEF ChainResumes
  <2>4. QED
    BY <1>7, <2>2, <2>3 DEF Advancing
<1>10. QED
  BY <1>5, <1>8, <1>9 DEF StuckInv

\* continue_chain: the payload it sends is the link to the next member.
LEMMA StuckAtNext ==
    ASSUME TypeInv, LifeInv, StuckInv, NEW t \in thens, ContinueChain(t)
    PROVE  StuckInv'
<1> DEFINE new == [id |-> t.next, approve |-> TRUE, seq |-> t.seq,
                   next |-> FirstOf(Tail(batch_chain_tail)), at |-> height]
<1>1. /\ batch_chain_tail' = Tail(batch_chain_tail)
      /\ FirstOf(batch_chain_tail) = t.next
      /\ resumes' = resumes \cup {new} /\ t.next \in yields
      /\ slot' = [slot EXCEPT ![t.next] = [batch |-> active_batch_id, seq |-> t.seq]]
      /\ UNCHANGED <<active_batch_id, batches, yields, next_intent_id>>
  BY DEF ContinueChain, Continuable, ResumeYield, submitVars
<1>2. batch_chain_tail # <<>> /\ Head(batch_chain_tail) = t.next /\ t.next \in Ids
  BY <1>1, IdFacts, IdsAreNat, GateAssumption DEF TypeInv, FirstOf, GateAssumption
<1>3. /\ batch_chain_tail \in Seq(Ids) /\ Len(batch_chain_tail) \in Nat \ {0}
      /\ Len(Tail(batch_chain_tail)) = Len(batch_chain_tail) - 1
      /\ Tail(batch_chain_tail) \in Seq(Ids)
      /\ \A j \in 1..Len(Tail(batch_chain_tail)) :
            Tail(batch_chain_tail)[j] = batch_chain_tail[j + 1]
  BY <1>2 DEF TypeInv, GateTypeOK
<1>4. /\ active_batch_id \in 1..Len(batches) /\ Members \in Seq(Ids)
      /\ Len(Members) \in Nat
      /\ Cursor \in Nat \ {0} /\ Cursor < Len(Members)
      /\ Members[Cursor + 1] = t.next
  BY <1>2, CursorType DEF TypeInv, StuckInv
<1>5. Members' = Members /\ Cursor' = Cursor + 1
  BY <1>1, <1>3, <1>4 DEF Members, Cursor
<1>6. TailInv'
  <2>1. ASSUME NEW j \in 1..Len(batch_chain_tail')
        PROVE  batch_chain_tail'[j] = Members'[Cursor' + j]
    <3>1. batch_chain_tail'[j] = batch_chain_tail[j + 1] /\ j + 1 \in 1..Len(batch_chain_tail)
      BY <1>1, <1>3
    <3>2. batch_chain_tail[j + 1] = Members[Cursor + (j + 1)]
      BY <1>2, <3>1 DEF StuckInv, TailInv
    <3>3. Cursor + (j + 1) = Cursor' + j
      BY <1>1, <1>3, <1>4, <1>5
    <3>4. QED
      BY <1>5, <3>1, <3>2, <3>3
  <2>2. QED
    BY <1>1, <1>4, <1>5, <2>1 DEF StuckInv, TailInv
<1>7. Reached(t.next)'
  BY <1>4, <1>5 DEF Reached
<1>8. TurnsInv'
  <2>1. /\ slot'[t.next].batch = active_batch_id
        /\ \A i \in Ids : i # t.next => slot'[i] = slot[i]
    BY <1>1, <1>2, IdFacts DEF TypeInv
  <2>2. \A i \in Ids : slot'[i].batch <= active_batch_id'
    BY <1>1, <1>4, <2>1 DEF StuckInv, TurnsInv
  <2>3. ASSUME NEW i \in Ids, slot'[i].batch = active_batch_id', i # t.next
        PROVE  Reached(i)'
    <3>1. PICK j \in 1..Cursor : Members[j] = i
      BY <1>1, <1>2, <2>1, <2>3 DEF StuckInv, TurnsInv, Reached
    <3>2. QED
      BY <1>4, <1>5, <3>1 DEF Reached
  <2>4. \A j \in 1..Len(Members) : Members[j] < next_intent_id
    BY <1>2 DEF StuckInv, TurnsInv
  <2>5. QED
    BY <1>1, <1>5, <1>7, <2>2, <2>3, <2>4 DEF TurnsInv
<1>9. ASSUME batch_chain_tail' # <<>> PROVE Advancing'
  <2>1. /\ FirstOf(Tail(batch_chain_tail)) = Head(Tail(batch_chain_tail))
        /\ Head(Tail(batch_chain_tail)) \in Ids
    BY <1>1, <1>3, <1>9 DEF FirstOf
  <2>2. new.next = Head(batch_chain_tail') /\ new.next # None
    BY <1>1, <2>1, IdsAreNat, GateAssumption DEF GateAssumption
  <2>3. new \in ChainResumes'
    BY <1>1, <2>2 DEF ChainResumes
  <2>4. QED
    BY <1>7, <2>2, <2>3 DEF Advancing
<1>10. QED
  BY <1>6, <1>8, <1>9 DEF StuckInv

LEMMA StuckStep == TypeInv /\ LifeInv /\ StuckInv /\ [Next]_vars => StuckInv'
<1> SUFFICES ASSUME TypeInv, LifeInv, StuckInv, [Next]_vars PROVE StuckInv'
  OBVIOUS
<1>a. /\ \A r \in resumes : r.id \in Ids /\ r.id \notin pending
      /\ \A r, q \in resumes : r.id = q.id => r = q
      /\ \A t \in thens : t.next \in Ids
  BY IdFacts DEF TypeInv, LifeInv
<1>1. ASSUME UNCHANGED <<batch_chain_tail, active_batch_id, batches, slot>>,
             ChainResumes \subseteq ChainResumes', calls \subseteq calls',
             thens \subseteq thens'
      PROVE  StuckInv'
  <2>1. ASSUME Advancing PROVE Advancing'
    BY <1>1, <2>1 DEF Advancing, Reached, Cursor, Members, ChainCalls
  <2>2. QED
    BY <1>1, <2>1, StuckFrame
<1>2. ASSUME NEW by \in Accounts, NEW d \in Delegates, SubmitIntent(by, d)
      PROVE  StuckInv'
  BY <1>1, <1>2 DEF SubmitIntent, batchVars, traceVars, ChainResumes
<1>3. ASSUME NEW by, NEW i, NEW approve, NEW attached,
             ResumeIntent(by, i, approve, attached)
      PROVE  StuckInv'
  BY <1>1, <1>3 DEF ResumeIntent, ResumeYield, batchVars, traceVars, ChainResumes
<1>4. ASSUME NEW by \in Accounts, NEW attached \in Deposits, NEW n \in 1..MaxBatch,
             NEW ids \in [1..n -> pending], ResumeBatchChained(by, ids, attached)
      PROVE  StuckInv'
  BY <1>4, StuckAtStart
<1>5. ASSUME NEW i \in yields, yields' = yields \ {i}, pending' \subseteq pending,
             \A r \in resumes : r.id # i => r \in resumes',
             UNCHANGED <<calls, thens, ran_at, batchVars, slot>>
      PROVE  StuckInv'
  <2>1. ASSUME batch_chain_tail # <<>>, Advancing
        PROVE  Advancing' \/ Excused(active_batch_id)'
    <3>1. CASE \E r \in ChainResumes : r.next = Head(batch_chain_tail) /\ Reached(r.id)
      <4>1. PICK r \in ChainResumes : r.next = Head(batch_chain_tail) /\ Reached(r.id)
        BY <3>1
      <4>2. CASE r.id = i
        BY <1>5, <1>a, <2>1, <4>1, <4>2, TurnLost DEF ChainResumes, StuckInv, batchVars
      <4>3. CASE r.id # i
        <5>1. r \in ChainResumes'
          BY <1>5, <4>3 DEF ChainResumes
        <5>2. QED
          BY <1>5, <4>1, <5>1 DEF Advancing, Reached, Cursor, Members, batchVars
      <4>4. QED
        BY <4>2, <4>3
    <3>2. CASE \/ \E c \in ChainCalls : c.next = Head(batch_chain_tail)
               \/ \E t \in thens : t.next = Head(batch_chain_tail)
      BY <1>5, <3>2 DEF Advancing, ChainCalls, batchVars
    <3>3. QED
      BY <2>1, <3>1, <3>2 DEF Advancing
  <2>2. QED
    BY <1>5, <2>1, StuckFrame DEF batchVars
<1>6. ASSUME NEW r \in resumes, DeliverReject(r) \/ CallbackPanics(r) PROVE StuckInv'
  BY <1>5, <1>6, <1>a DEF DeliverReject, CallbackPanics, Delivered, Resolve, traceVars
<1>7. ASSUME NEW i \in yields, TimeoutFires(i) PROVE StuckInv'
  BY <1>5, <1>7 DEF TimeoutFires, Resolve, traceVars
<1>8. ASSUME NEW r \in resumes, DropStale(r) PROVE StuckInv'
  BY <1>1, <1>8 DEF DropStale, batchVars, traceVars, ChainResumes
<1>9. ASSUME NEW r \in resumes, DeliverApprove(r) PROVE StuckInv'
  <2> DEFINE new == [id |-> r.id, next |-> r.next, seq |-> NextSeq(r.seq), at |-> height]
  <2>1. /\ resumes' = resumes \ {r} /\ yields' = yields \ {r.id}
        /\ calls' = calls \cup {new}
        /\ UNCHANGED <<batch_chain_tail, active_batch_id, batches, thens, slot>>
    BY <1>9 DEF DeliverApprove, Delivered, Resolve, batchVars, traceVars
  <2>2. ASSUME Advancing PROVE Advancing'
    <3>1. ASSUME NEW q \in ChainResumes, q.next = Head(batch_chain_tail), Reached(q.id)
          PROVE  Advancing'
      <4>1. CASE q = r
        <5>1. new \in ChainCalls' /\ new.next = Head(batch_chain_tail')
          BY <2>1, <3>1, <4>1 DEF ChainResumes, ChainCalls
        <5>2. QED
          BY <5>1 DEF Advancing
      <4>2. CASE q # r
        <5>1. q \in ChainResumes'
          BY <1>a, <2>1, <4>2 DEF ChainResumes
        <5>2. QED
          BY <2>1, <3>1, <5>1 DEF Advancing, Reached, Cursor, Members
      <4>3. QED
        BY <4>1, <4>2
    <3>2. QED
      BY <2>1, <2>2, <3>1 DEF Advancing, ChainCalls
  <2>3. QED
    BY <2>1, <2>2, StuckFrame
<1>10. ASSUME NEW c \in calls, NEW ok \in BOOLEAN, TargetExecutes(c, ok) PROVE StuckInv'
  <2> DEFINE new == [next |-> c.next, seq |-> c.seq, from |-> c.id, at |-> height]
  <2>1. /\ calls' = calls \ {c} /\ thens' = thens \cup ThenOf(c, ok)
        /\ UNCHANGED <<batch_chain_tail, active_batch_id, batches, resumes, yields, slot>>
    BY <1>10 DEF TargetExecutes, batchVars
  <2>2. ASSUME Advancing PROVE Advancing'
    <3>1. CASE c.next = Head(batch_chain_tail) /\ c.next # None
      <4>1. new \in thens' /\ new.next = Head(batch_chain_tail')
        BY <2>1, <3>1 DEF ThenOf
      <4>2. QED
        BY <4>1 DEF Advancing
    <3>2. CASE ~(c.next = Head(batch_chain_tail) /\ c.next # None)
      BY <2>1, <2>2, <3>2 DEF Advancing, ChainResumes, ChainCalls, Reached, Cursor, Members
    <3>3. QED
      BY <3>1, <3>2
  <2>3. QED
    BY <2>1, <2>2, StuckFrame
<1>11. ASSUME NEW t \in thens, ContinueChain(t) PROVE StuckInv'
  BY <1>11, StuckAtNext
<1>12. ASSUME NEW t \in thens, ContinueChainPanics(t) PROVE StuckInv'
  <2>1. /\ thens' = thens \ {t} /\ ~(Continuable(t) /\ t.next \in yields)
        /\ UNCHANGED <<batch_chain_tail, active_batch_id, batches, resumes, calls,
                       yields, pending, slot, ran_at>>
    BY <1>12 DEF ContinueChainPanics, batchVars, traceVars
  <2>2. ASSUME batch_chain_tail # <<>>, Advancing
        PROVE  Advancing' \/ Excused(active_batch_id)'
    <3>1. CASE t.next = Head(batch_chain_tail)
      <4>1. t.next \notin pending
        BY <2>1, <2>2, <3>1 DEF Continuable, FirstOf, LifeInv
      <4>2. /\ Cursor \in Nat \ {0} /\ Cursor < Len(Members) /\ Len(Members) \in Nat
            /\ Members[Cursor + 1] = t.next
        BY <2>2, <3>1, CursorType DEF TypeInv, StuckInv
      <4>3. CASE slot[t.next].batch = active_batch_id
        <5>1. PICK j \in 1..Cursor : Members[j] = t.next
          BY <1>a, <2>2, <4>3 DEF StuckInv, TurnsInv, Reached
        <5>2. ListsTwice(Members)
          BY <4>2, <5>1 DEF ListsTwice
        <5>3. QED
          BY <2>1, <5>2 DEF Excused, Members
      <4>4. CASE slot[t.next].batch # active_batch_id
        <5>1. LeftChain(Members[Cursor + 1], active_batch_id)
          BY <4>1, <4>2, <4>4 DEF LeftChain
        <5>2. Abandoned(active_batch_id)
          BY <4>2, <5>1 DEF Abandoned, Members
        <5>3. QED
          BY <2>1, <5>2 DEF Excused, Abandoned, LeftChain
      <4>5. QED
        BY <4>3, <4>4
    <3>2. CASE t.next # Head(batch_chain_tail)
      BY <2>1, <2>2, <3>2 DEF Advancing, ChainResumes, ChainCalls, Reached, Cursor, Members
    <3>3. QED
      BY <3>1, <3>2
  <2>3. QED
    BY <2>1, <2>2, StuckFrame
<1>13. CASE ResetBatchTail
  <2>1. batch_chain_tail' = <<>> /\ UNCHANGED <<active_batch_id, batches, slot>>
    BY <1>13 DEF ResetBatchTail, traceVars
  <2>2. QED
    BY <2>1 DEF StuckInv, TailInv, TurnsInv
<1>14. ASSUME NEW a, AddRelayer(a) \/ RemoveRelayer(a) \/ SetApprover(a) PROVE StuckInv'
  BY <1>1, <1>14 DEF AddRelayer, RemoveRelayer, SetApprover, batchVars, receiptVars,
                     traceVars, ChainResumes
<1>15. CASE NextBlock \/ UNCHANGED gateVars
  BY <1>1, <1>15 DEF NextBlock, gateVars, batchVars, receiptVars, traceVars, ChainResumes
<1>16. QED
  BY <1>2, <1>3, <1>4, <1>6, <1>7, <1>8, <1>9, <1>10, <1>11, <1>12, <1>13, <1>14, <1>15
     DEF Next, OwnerNext, ApproverNext, RuntimeNext, vars

LEMMA StuckInit == Init => StuckInv
BY DEF Init, StuckInv, TailInv, TurnsInv

(***************************************************************************)
(* Whatever the owner resets, a tail that is not empty has its link in     *)
(* flight, or its batch listed an id twice or lost a member.               *)
(***************************************************************************)
THEOREM StuckInvariant == Spec => []StuckInv
BY StuckInit, StuckStep, TypeInvariant, LifeInvariant, PTL DEF Spec

(***************************************************************************)
(* A chain stops short only because its batch lists an id twice or one of  *)
(* its members left it: no outcome of a target, no order of the receipts,  *)
(* no reset and no leftover of an older chain stops it.                    *)
(***************************************************************************)
THEOREM StuckHasReason == Spec => []StuckExplained
<1>1. StuckInv => StuckExplained
  <2> SUFFICES ASSUME StuckInv, Stuck PROVE Excused(active_batch_id)
    BY DEF StuckExplained, Excused
  <2>1. ~Advancing
    BY DEF Stuck, ChainAlive, Links, Advancing
  <2>2. QED
    BY <2>1 DEF StuckInv, Stuck
<1>2. QED
  BY <1>1, StuckInvariant, PTL

-----------------------------------------------------------------------------

\* Neighbours stay neighbours: batches only grow at the end.
LEMMA NeighboursStay ==
    ASSUME GateTypeOK, NEW ids \in Seq(Ids),
           batches' = batches \/ batches' = Append(batches, ids),
           NEW i, NEW n, NEW k, Neighbours(i, n, k)
    PROVE  Neighbours(i, n, k)'
<1>1. ASSUME NEW b \in 1..Len(batches)
      PROVE  b \in 1..Len(batches') /\ batches'[b] = batches[b]
  <2>1. batches \in Seq(Seq(Ids)) /\ Len(batches) \in Nat
    BY DEF GateTypeOK
  <2>2. CASE batches' = Append(batches, ids)
    BY <2>1, <2>2
  <2>3. QED
    BY <2>2
<1>2. PICK b \in 1..Len(batches) :
        k \in 1..(Len(batches[b]) - 1) /\ batches[b][k] = i /\ batches[b][k + 1] = n
  BY DEF Neighbours
<1>3. b \in 1..Len(batches') /\ batches'[b] = batches[b]
  BY <1>1
<1>4. QED
  BY <1>2, <1>3 DEF Neighbours

\* LooseInv over a step that makes no link, gives no turn and starts no batch.
LEMMA LooseFrame ==
    ASSUME LooseInv, UNCHANGED <<batches, slot>>,
           \A r \in resumes' : r \in resumes \/ r.next = None,
           \A c \in calls' : c \in calls,
           \A t \in thens' : t \in thens,
           \A i : ran_at[i] # None => ran_at'[i] # None
    PROVE  LooseInv'
<1>1. CoordinatorOrder'
  BY DEF LooseInv, CoordinatorOrder
<1>2. \A i, n, k : Neighbours(i, n, k) => Neighbours(i, n, k)'
  BY DEF Neighbours
<1>3. QED
  BY <1>1, <1>2 DEF LooseInv, ChainCalls

LEMMA LooseAtStart ==
    ASSUME TypeInv, StuckInv, LooseInv, NEW by, NEW attached, NEW n \in 1..MaxBatch,
           NEW ids \in [1..n -> pending], ResumeBatchChained(by, ids, attached)
    PROVE  LooseInv'
<1> DEFINE new == [id |-> ids[1], approve |-> TRUE, seq |-> 0,
                   next |-> FirstOf(Tail(ids)), at |-> height]
<1>1. /\ ids \in Seq(Ids) /\ Len(ids) \in Nat \ {0} /\ ids[1] \in Ids
      /\ Len(Tail(ids)) = Len(ids) - 1 /\ Tail(ids) \in Seq(Ids)
      /\ \A j \in 1..Len(Tail(ids)) : Tail(ids)[j] = ids[1 + j]
  BY BatchType, FeeAssumption DEF TypeInv, FeeAssumption
<1>2. /\ batches' = Append(batches, ids) /\ resumes' = resumes \cup {new}
      /\ slot' = [slot EXCEPT ![ids[1]] = [batch |-> active_batch_id + 1, seq |-> 0]]
      /\ UNCHANGED <<calls, thens, ran_at>>
  BY DEF ResumeBatchChained, ResumeYield
<1>3. /\ batches \in Seq(Seq(Ids)) /\ active_batch_id \in Nat
      /\ Len(batches) = active_batch_id /\ slot \in [Ids -> [batch : Nat, seq : Nat]]
  BY DEF TypeInv, GateTypeOK, StuckInv, TailInv
<1>4. /\ Len(batches') = active_batch_id + 1 /\ batches'[active_batch_id + 1] = ids
      /\ \A b \in 1..Len(batches) : batches'[b] = batches[b]
  BY <1>1, <1>2, <1>3
<1>5. CoordinatorOrder'
  <2> SUFFICES ASSUME NEW i \in Ids, slot'[i].batch > 0
               PROVE  /\ slot'[i].batch <= Len(batches')
                      /\ slot'[i].seq < Len(batches'[slot'[i].batch])
                      /\ batches'[slot'[i].batch][slot'[i].seq + 1] = i
                      /\ slot'[i].seq > 0 =>
                            ran_at'[batches'[slot'[i].batch][slot'[i].seq]] # None
    BY DEF CoordinatorOrder
  <2>1. CASE i = ids[1]
    <3>1. slot'[i].batch = active_batch_id + 1 /\ slot'[i].seq = 0
      BY <1>2, <1>3, <2>1
    <3>2. QED
      BY <1>1, <1>3, <1>4, <2>1, <3>1
  <2>2. CASE i # ids[1]
    <3>1. slot'[i] = slot[i] /\ slot[i].batch \in Nat /\ slot[i].seq \in Nat
      BY <1>2, <1>3, <2>2
    <3>2. /\ slot[i].batch <= Len(batches) /\ slot[i].seq < Len(batches[slot[i].batch])
          /\ batches[slot[i].batch][slot[i].seq + 1] = i
          /\ slot[i].seq > 0 => ran_at[batches[slot[i].batch][slot[i].seq]] # None
      BY <3>1 DEF LooseInv, CoordinatorOrder
    <3>3. slot[i].batch \in 1..Len(batches)
      BY <1>3, <3>1, <3>2
    <3>4. QED
      BY <1>2, <1>3, <1>4, <3>1, <3>2, <3>3
  <2>3. QED
    BY <2>1, <2>2
<1>6. \A i, m, k : Neighbours(i, m, k) => Neighbours(i, m, k)'
  BY <1>1, <1>2, NeighboursStay DEF TypeInv
<1>7. ASSUME FirstOf(Tail(ids)) # None
      PROVE  Neighbours(ids[1], FirstOf(Tail(ids)), 0 + 1)'
  <2>1. Tail(ids) # <<>>
    BY <1>7 DEF FirstOf
  <2>2. FirstOf(Tail(ids)) = ids[2] /\ 1 \in 1..(Len(ids) - 1)
    BY <1>1, <2>1 DEF FirstOf
  <2>3. \E b \in 1..Len(batches') :
           1 \in 1..(Len(batches'[b]) - 1) /\ batches'[b][1] = ids[1]
             /\ batches'[b][1 + 1] = FirstOf(Tail(ids))
    BY <1>3, <1>4, <2>2
  <2>4. QED
    BY <2>3 DEF Neighbours
<1>8. \A r \in resumes' : r.next # None =>
         r.seq \in Nat /\ Neighbours(r.id, r.next, r.seq + 1)'
  <2>1. ASSUME NEW r \in resumes, r.next # None
        PROVE  r.seq \in Nat /\ Neighbours(r.id, r.next, r.seq + 1)'
    BY <1>6, <2>1 DEF LooseInv
  <2>2. QED
    BY <1>2, <1>7, <2>1
<1>9. QED
  BY <1>2, <1>5, <1>6, <1>8 DEF LooseInv, ChainCalls

\* If no id is listed twice, the head of the tail has one predecessor only.
LEMMA LooseAtNext ==
    ASSUME TypeInv, StuckInv, ListedOnce, LooseInv, NEW t \in thens, ContinueChain(t)
    PROVE  LooseInv'
<1> DEFINE new == [id |-> t.next, approve |-> TRUE, seq |-> t.seq,
                   next |-> FirstOf(Tail(batch_chain_tail)), at |-> height]
<1>1. /\ FirstOf(batch_chain_tail) = t.next
      /\ thens' = thens \ {t} /\ resumes' = resumes \cup {new}
      /\ slot' = [slot EXCEPT ![t.next] = [batch |-> active_batch_id, seq |-> t.seq]]
      /\ UNCHANGED <<batches, calls, ran_at>>
  BY DEF ContinueChain, Continuable, ResumeYield
<1>2. /\ batch_chain_tail # <<>> /\ Head(batch_chain_tail) = t.next
      /\ t.next \in Ids /\ t.seq \in Nat
  BY <1>1, IdFacts, IdsAreNat, GateAssumption
     DEF TypeInv, FirstOf, GateAssumption, GateTypeOK, Then
<1>3. /\ active_batch_id \in 1..Len(batches) /\ Members \in Seq(Ids)
      /\ Len(Members) \in Nat
      /\ Cursor \in Nat \ {0} /\ Cursor < Len(Members)
      /\ Members[Cursor + 1] = t.next
  BY <1>2, CursorType DEF TypeInv, StuckInv
<1>4. PICK b \in 1..Len(batches) :
        /\ t.seq \in 1..(Len(batches[b]) - 1)
        /\ batches[b][t.seq] = t.from /\ batches[b][t.seq + 1] = t.next
  BY DEF LooseInv, Neighbours
<1>5. b = active_batch_id /\ t.seq = Cursor
  <2>1. batches[b] \in Seq(Ids) /\ Len(batches[b]) \in Nat
    BY DEF TypeInv, GateTypeOK
  <2>2. t.seq + 1 \in 1..Len(batches[b]) /\ Cursor + 1 \in 1..Len(Members)
    BY <1>3, <1>4, <2>1
  <2>3. b = active_batch_id /\ t.seq + 1 = Cursor + 1
    BY <1>3, <1>4, <2>2 DEF ListedOnce, Members
  <2>4. QED
    BY <1>2, <1>3, <2>3
<1>6. CoordinatorOrder'
  <2>1. /\ slot'[t.next].batch = active_batch_id /\ slot'[t.next].seq = Cursor
        /\ \A i \in Ids : i # t.next => slot'[i] = slot[i]
    BY <1>1, <1>2, <1>5, IdFacts DEF TypeInv
  <2> SUFFICES ASSUME NEW i \in Ids, slot'[i].batch > 0
               PROVE  /\ slot'[i].batch <= Len(batches')
                      /\ slot'[i].seq < Len(batches'[slot'[i].batch])
                      /\ batches'[slot'[i].batch][slot'[i].seq + 1] = i
                      /\ slot'[i].seq > 0 =>
                            ran_at'[batches'[slot'[i].batch][slot'[i].seq]] # None
    BY DEF CoordinatorOrder
  <2>2. CASE i = t.next
    <3>1. ran_at[Members[Cursor]] # None
      BY <1>4, <1>5 DEF LooseInv, Members
    <3>2. QED
      BY <1>1, <1>3, <2>1, <2>2, <3>1 DEF Members
  <2>3. CASE i # t.next
    BY <1>1, <2>1, <2>3 DEF LooseInv, CoordinatorOrder
  <2>4. QED
    BY <2>2, <2>3
<1>7. \A i, m, k : Neighbours(i, m, k)' <=> Neighbours(i, m, k)
  BY <1>1 DEF Neighbours
<1>8. ASSUME new.next # None
      PROVE  new.seq \in Nat /\ Neighbours(new.id, new.next, new.seq + 1)
  <2>1. /\ batch_chain_tail \in Seq(Ids) /\ Tail(batch_chain_tail) # <<>>
    BY <1>8 DEF FirstOf, TypeInv, GateTypeOK
  <2>2. /\ Len(batch_chain_tail) > 1 /\ new.next = batch_chain_tail[2]
    BY <1>2, <2>1 DEF FirstOf
  <2>3. 2 \in 1..Len(batch_chain_tail)
    BY <2>1, <2>2
  <2>4. new.next = Members[Cursor + 2] /\ Cursor + 2 <= Len(Members)
    BY <1>3, <2>1, <2>2, <2>3 DEF StuckInv, TailInv, Cursor
  <2>5. /\ Cursor + 1 \in 1..(Len(Members) - 1)
        /\ Members[(Cursor + 1) + 1] = new.next
    BY <1>3, <2>4
  <2>6. QED
    BY <1>2, <1>3, <1>5, <2>5 DEF Neighbours, Members
<1> HIDE DEF new
<1>9. QED
  BY <1>1, <1>6, <1>7, <1>8 DEF LooseInv, ChainCalls

LEMMA LooseStep ==
    TypeInv /\ LifeInv /\ StuckInv /\ ListedOnce /\ LooseInv /\ [Next]_vars => LooseInv'
<1> SUFFICES ASSUME TypeInv, LifeInv, StuckInv, ListedOnce, LooseInv, [Next]_vars
             PROVE  LooseInv'
  OBVIOUS
<1>1. ASSUME UNCHANGED <<batches, slot, thens, calls, ran_at>>, resumes' \subseteq resumes
      PROVE  LooseInv'
  BY <1>1, LooseFrame
<1>2. ASSUME NEW by, NEW i, NEW approve, NEW attached,
             ResumeIntent(by, i, approve, attached)
      PROVE  LooseInv'
  BY <1>2, LooseFrame DEF ResumeIntent, ResumeYield, batchVars, traceVars
<1>3. ASSUME NEW by \in Accounts, NEW attached \in Deposits, NEW n \in 1..MaxBatch,
             NEW ids \in [1..n -> pending], ResumeBatchChained(by, ids, attached)
      PROVE  LooseInv'
  BY <1>3, LooseAtStart
<1>4. ASSUME NEW r \in resumes, DeliverApprove(r) PROVE LooseInv'
  <2> DEFINE new == [id |-> r.id, next |-> r.next, seq |-> NextSeq(r.seq), at |-> height]
  <2>1. /\ resumes' = resumes \ {r} /\ calls' = calls \cup {new}
        /\ UNCHANGED <<batches, thens, slot, ran_at>>
    BY <1>4 DEF DeliverApprove, Delivered, batchVars, traceVars
  <2>2. \A i, m, k : Neighbours(i, m, k)' <=> Neighbours(i, m, k)
    BY <2>1 DEF Neighbours
  <2>3. r.next # None => Neighbours(new.id, new.next, new.seq)
    BY GateAssumption DEF LooseInv, NextSeq, GateAssumption
  <2>4. CoordinatorOrder'
    BY <2>1 DEF LooseInv, CoordinatorOrder
  <2>5. \A c \in ChainCalls' : Neighbours(c.id, c.next, c.seq)
    BY <2>1, <2>3 DEF LooseInv, ChainCalls
  <2>6. QED
    BY <2>1, <2>2, <2>4, <2>5 DEF LooseInv
<1>5. ASSUME NEW c \in calls, NEW ok \in BOOLEAN, TargetExecutes(c, ok) PROVE LooseInv'
  <2> DEFINE new == [next |-> c.next, seq |-> c.seq, from |-> c.id, at |-> height]
  <2>1. /\ calls' = calls \ {c} /\ thens' = thens \cup ThenOf(c, ok)
        /\ ran_at' = [ran_at EXCEPT ![c.id] = height]
        /\ UNCHANGED <<batches, resumes, slot>>
    BY <1>5 DEF TargetExecutes, batchVars
  <2>2. \A i, m, k : Neighbours(i, m, k)' <=> Neighbours(i, m, k)
    BY <2>1 DEF Neighbours
  <2>3. ran_at'[c.id] # None /\ \A i : ran_at[i] # None => ran_at'[i] # None
    BY <2>1, IdFacts, GateAssumption DEF TypeInv, GateAssumption
  <2>4. CoordinatorOrder'
    BY <2>1, <2>3 DEF LooseInv, CoordinatorOrder
  <2>5. ASSUME NEW t \in thens'
        PROVE  Neighbours(t.from, t.next, t.seq) /\ ran_at'[t.from] # None
    <3>1. CASE t \in thens
      BY <2>3, <3>1 DEF LooseInv
    <3>2. CASE t \notin thens
      <4>1. t = new /\ c.next # None
        BY <2>1, <2>5, <3>2 DEF ThenOf
      <4>2. QED
        BY <2>3, <4>1 DEF LooseInv, ChainCalls
    <3>3. QED
      BY <3>1, <3>2
  <2>6. QED
    BY <2>1, <2>2, <2>4, <2>5 DEF LooseInv, ChainCalls
<1>6. ASSUME NEW t \in thens, ContinueChain(t) PROVE LooseInv'
  BY <1>6, LooseAtNext
<1>7. ASSUME NEW t, ContinueChainPanics(t) PROVE LooseInv'
  BY <1>7, LooseFrame DEF ContinueChainPanics, batchVars, traceVars
<1>8. ASSUME NEW r, DeliverReject(r) \/ CallbackPanics(r) \/ DropStale(r)
      PROVE  LooseInv'
  BY <1>1, <1>8 DEF DeliverReject, CallbackPanics, DropStale, Delivered, batchVars,
                    traceVars
<1>9. ASSUME NEW i, TimeoutFires(i) PROVE LooseInv'
  BY <1>1, <1>9 DEF TimeoutFires, batchVars, traceVars
<1>10. ASSUME NEW by, NEW d, SubmitIntent(by, d) PROVE LooseInv'
  BY <1>1, <1>10 DEF SubmitIntent, batchVars, traceVars
<1>11. ASSUME NEW a, AddRelayer(a) \/ RemoveRelayer(a) \/ SetApprover(a) PROVE LooseInv'
  BY <1>1, <1>11 DEF AddRelayer, RemoveRelayer, SetApprover, batchVars, receiptVars,
                     traceVars
<1>12. CASE ResetBatchTail \/ NextBlock \/ UNCHANGED gateVars
  BY <1>1, <1>12 DEF ResetBatchTail, NextBlock, gateVars, batchVars, receiptVars,
                     traceVars
<1>13. QED
  BY <1>2, <1>3, <1>4, <1>5, <1>6, <1>7, <1>8, <1>9, <1>10, <1>11, <1>12
     DEF Next, OwnerNext, ApproverNext, RuntimeNext, vars

LEMMA LooseInit == Init => LooseInv
BY DEF Init, LooseInv, CoordinatorOrder, ChainCalls

(***************************************************************************)
(* Coordinator ordering survives every reset of the tail, also one under a *)
(* living chain, as long as the approver never lists an id twice, in one   *)
(* batch or in two: a leftover link meets the tail of a newer batch, but   *)
(* never its own next id at the head of it.                                *)
(***************************************************************************)
THEOREM OrderOnceListed == Spec /\ []ListedOnce => []CoordinatorOrder
<1>1. LooseInv => CoordinatorOrder
  BY DEF LooseInv
<1>2. QED
  BY <1>1, LooseInit, LooseStep, TypeInvariant, LifeInvariant, StuckInvariant, PTL
     DEF Spec
=============================================================================
