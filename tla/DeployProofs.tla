----------------------------- MODULE DeployProofs -----------------------------
(***************************************************************************)
(* The runner's commands deploy and clean keep their word, whatever        *)
(* command is given when and wherever it dies.                             *)
(***************************************************************************)
EXTENDS Deploy, TLAPS

(***************************************************************************)
(* Why DeployComplete holds: what is on chain and on disk, account by      *)
(* account, while a command is under way. The account at position p is     *)
(* whole, or gone, or the command is just working on it.                   *)
(***************************************************************************)
WithInit == {"gate", "ftShim"}

Whole(p) ==
    LET r == DeployOrder[p]
    IN  /\ r \in exists \cap keys
        /\ r \in Contracts => r \in coded
        /\ r \in WithInit => r \in initialised

Gone(p) == DeployOrder[p] \notin exists \cup keys

UnderWay ==
    \/ command = "deploy" /\ stage = "credential" /\ Role \in exists
    \/ command = "deploy" /\ stage = "code" /\ fresh /\ Role \in exists \cap keys
    \/ command = "deploy" /\ stage = "init" /\ Role \in exists \cap keys \cap coded
    \/ command = "clean" /\ stage = "credential" /\ Role \notin exists

DeployTypeOK ==
    /\ exists \subseteq Users \cup Contracts /\ keys \subseteq Users \cup Contracts
    /\ coded \subseteq exists /\ initialised \subseteq exists
    /\ \/ command = "none" /\ position = 0
       \/ command = "deploy" /\ position \in 1..(Last + 1)
       \/ command = "clean" /\ position \in 0..Last
    /\ deployed => command = "none"
    /\ stage \in {"start", "credential", "code", "init"}

\* What a disturbance cannot take back: the accounts deploy has passed, the keys
\* clean has removed, and what deploy said.
PassedInv ==
    /\ command = "deploy" =>
          /\ \A p \in 1..(position - 1) :
                /\ DeployOrder[p] \in exists
                /\ DeployOrder[p] \in Contracts => DeployOrder[p] \in keys \cap coded
          /\ position <= Last /\ stage # "start" =>
                Role \in exists /\ (stage = "init" => Role \in keys \cap coded)
    /\ command = "clean" =>
          /\ \A p \in (position + 1)..Last : DeployOrder[p] \notin keys
          /\ stage = "credential" => Role \notin exists
    /\ deployed =>
          /\ Contracts \subseteq exists \cap keys \cap coded
          /\ Users \subseteq exists
          /\ "gate" \in initialised

SlateInv ==
    ~tainted =>
        /\ \A p \in 1..Last : Whole(p) \/ Gone(p) \/ (p = position /\ UnderWay)
        /\ command = "deploy" =>
              /\ \A p \in 1..(position - 1) : Whole(p)
              /\ position <= Last /\ stage = "code" /\ ~fresh => Whole(position)
        /\ command = "clean" => \A p \in (position + 1)..Last : Gone(p)
        /\ deployed => \A p \in 1..Last : Whole(p)

DeployInv == DeployTypeOK /\ PassedInv /\ SlateInv

DeployNext ==
    \/ StartDeploy \/ StartClean \/ Interrupt
    \/ AccountExisted \/ CreateAccount \/ WriteCredential \/ DeployContract \/ CallNew
    \/ ReportReady \/ DeployThrows
    \/ AccountAbsent \/ AccountMisread \/ DeleteAccount \/ RemoveCredential
    \/ CleanThrows \/ CleanDone

-----------------------------------------------------------------------------

\* The order lists every account once.
LEMMA OrderFacts ==
    /\ Last = 6
    /\ \A p \in 1..Last : DeployOrder[p] \in Users \cup Contracts
    /\ \A p, q \in 1..Last : DeployOrder[p] = DeployOrder[q] => p = q
    /\ \A r \in Users \cup Contracts : \E p \in 1..Last : DeployOrder[p] = r
<1>1. /\ Last = 6
      /\ DeployOrder[1] = "alice" /\ DeployOrder[2] = "relayer"
      /\ DeployOrder[3] = "approver" /\ DeployOrder[4] = "gate"
      /\ DeployOrder[5] = "register" /\ DeployOrder[6] = "ftShim"
  BY DEF Last, DeployOrder
<1>2. \A p \in 1..Last : p = 1 \/ p = 2 \/ p = 3 \/ p = 4 \/ p = 5 \/ p = 6
  BY <1>1
<1>3. \A p \in 1..Last : DeployOrder[p] \in Users \cup Contracts
  BY <1>1, <1>2 DEF Users, Contracts
<1>4. \A p, q \in 1..Last : DeployOrder[p] = DeployOrder[q] => p = q
  BY <1>1, <1>2
<1>5. \A r \in Users \cup Contracts : \E p \in 1..Last : DeployOrder[p] = r
  BY <1>1 DEF Users, Contracts
<1>6. QED
  BY <1>1, <1>3, <1>4, <1>5

LEMMA DeployInitInv == DeployInit => DeployInv
BY OrderFacts DEF DeployInit, DeployInv, DeployTypeOK, PassedInv, SlateInv, Gone,
                  Users, Contracts

\* Work on one account leaves the others as they are.
LEMMA OthersStand ==
    ASSUME position \in 1..Last,
           \A r : r # Role => /\ r \in exists' <=> r \in exists
                              /\ r \in keys' <=> r \in keys
                              /\ r \in coded' <=> r \in coded
                              /\ r \in initialised' <=> r \in initialised,
           NEW p \in 1..Last, p # position
    PROVE  /\ Whole(p)' <=> Whole(p)
           /\ Gone(p)' <=> Gone(p)
           /\ DeployOrder[p] \in exists' <=> DeployOrder[p] \in exists
           /\ DeployOrder[p] \in keys' <=> DeployOrder[p] \in keys
           /\ DeployOrder[p] \in coded' <=> DeployOrder[p] \in coded
<1>1. DeployOrder[p] # Role
  BY OrderFacts DEF Role
<1>2. QED
  BY <1>1 DEF Whole, Gone

LEMMA DeployTypeStep ==
    DeployTypeOK /\ PassedInv /\ [DeployNext]_deployVars => DeployTypeOK'
<1> SUFFICES ASSUME DeployTypeOK, PassedInv, [DeployNext]_deployVars PROVE DeployTypeOK'
  OBVIOUS
<1> USE DEF DeployTypeOK
<1>a. Last = 6 /\ \A p \in 1..Last : DeployOrder[p] \in Users \cup Contracts
  BY OrderFacts
<1>b. position \in 1..Last => Role \in Users \cup Contracts
  BY <1>a DEF Role
<1>1. CASE StartDeploy \/ StartClean
  <2>1. /\ deployed' = FALSE /\ stage' = "start"
        /\ UNCHANGED <<exists, keys, coded, initialised, fresh, tainted>>
        /\ \/ command' = "deploy" /\ position' = 1
           \/ command' = "clean" /\ position' = Last
    BY <1>1 DEF StartDeploy, StartClean, Begin, accountVars
  <2>2. QED
    BY <1>a, <2>1
<1>2. CASE Interrupt \/ DeployThrows \/ CleanThrows \/ CleanDone \/ ReportReady
  BY <1>2, <1>a DEF Interrupt, DeployThrows, CleanThrows, CleanDone, ReportReady, End,
                    At, accountVars
<1>3. CASE AccountExisted
  <2>1. /\ fresh' = FALSE /\ stage' \in {"start", "code"} /\ command = "deploy"
        /\ position \in 1..Last
        /\ UNCHANGED <<exists, keys, coded, initialised, command, deployed, tainted>>
        /\ position' = position \/ position' = position + 1
    BY <1>3 DEF AccountExisted, At, Ensured, Goto, Onward, accountVars
  <2>2. QED
    BY <1>a, <2>1
<1>4. CASE CreateAccount
  BY <1>4, <1>a, <1>b DEF CreateAccount, At, Goto
<1>5. CASE WriteCredential
  BY <1>5, <1>a, <1>b DEF WriteCredential, At, Ensured, Goto, Onward
<1>6. CASE DeployContract
  BY <1>6, <1>a, <1>b DEF PassedInv, DeployContract, At, Goto, Onward
<1>7. CASE CallNew
  BY <1>7, <1>a, <1>b DEF PassedInv, CallNew, At, Onward
<1>8. CASE AccountAbsent \/ AccountMisread \/ RemoveCredential
  <2>1. /\ stage' = "start" /\ command = "clean" /\ position \in 1..Last
        /\ position' = position - 1 /\ keys' = keys \ {Role}
        /\ UNCHANGED <<exists, coded, initialised, command, fresh, deployed>>
        /\ tainted' = tainted \/ tainted' = TRUE
    BY <1>8 DEF AccountAbsent, AccountMisread, RemoveCredential, At, Onward
  <2>2. QED
    BY <1>a, <2>1
<1>9. CASE DeleteAccount
  BY <1>9, <1>a DEF DeleteAccount, At, Goto
<1>10. CASE UNCHANGED deployVars
  BY <1>10 DEF deployVars, accountVars, commandVars
<1>11. QED
  BY <1>1, <1>2, <1>3, <1>4, <1>5, <1>6, <1>7, <1>8, <1>9, <1>10 DEF DeployNext

\* What deploy has passed, over a step that takes nothing away.
LEMMA PassedStep ==
    DeployTypeOK /\ PassedInv /\ [DeployNext]_deployVars => PassedInv'
<1> SUFFICES ASSUME DeployTypeOK, PassedInv, [DeployNext]_deployVars PROVE PassedInv'
  OBVIOUS
<1>a. /\ Last = 6
      /\ deployed => command = "none"
      /\ command = "deploy" => position \in 1..(Last + 1)
      /\ command = "clean" => position \in 0..Last
      /\ command = "none" => position = 0
  BY OrderFacts DEF DeployTypeOK
<1>b. \A r \in Contracts \cup Users : \E p \in 1..Last : DeployOrder[p] = r
  BY OrderFacts
<1>1. CASE StartDeploy \/ StartClean
  <2>1. /\ deployed' = FALSE /\ stage' = "start"
        /\ UNCHANGED <<exists, keys, coded, initialised>>
        /\ \/ command' = "deploy" /\ position' = 1
           \/ command' = "clean" /\ position' = Last
    BY <1>1 DEF StartDeploy, StartClean, Begin, accountVars
  <2>2. QED
    BY <1>a, <2>1 DEF PassedInv
<1>2. CASE Interrupt \/ DeployThrows \/ CleanThrows \/ CleanDone
  <2>1. /\ command' = "none" /\ ~deployed'
        /\ UNCHANGED <<exists, keys, coded, initialised>>
    BY <1>2, <1>a DEF Interrupt, DeployThrows, CleanThrows, CleanDone, End, At, accountVars
  <2>2. QED
    BY <2>1 DEF PassedInv
<1>3. CASE ReportReady
  <2>1. /\ command = "deploy" /\ position > Last /\ command' = "none"
        /\ "gate" \in initialised
        /\ UNCHANGED <<exists, keys, coded, initialised>>
    BY <1>3 DEF ReportReady, End, accountVars
  <2>2. \A p \in 1..Last : p \in 1..(position - 1)
    BY <1>a, <2>1
  <2>3. Contracts \subseteq exists \cap keys \cap coded /\ Users \subseteq exists
    BY <1>b, <2>1, <2>2 DEF PassedInv
  <2>4. QED
    BY <2>1, <2>3 DEF PassedInv
<1>4. ASSUME command = "deploy", position \in 1..Last, command' = "deploy", ~deployed',
             \A r : r # Role => /\ r \in exists' <=> r \in exists
                                /\ r \in keys' <=> r \in keys
                                /\ r \in coded' <=> r \in coded
                                /\ r \in initialised' <=> r \in initialised,
             \/ /\ position' = position /\ Role \in exists'
                /\ stage' = "init" => Role \in keys' \cap coded'
             \/ /\ position' = position + 1 /\ stage' = "start" /\ Role \in exists'
                /\ Role \in Contracts => Role \in keys' \cap coded'
      PROVE  PassedInv'
  <2>1. ASSUME NEW p \in 1..(position - 1)
        PROVE  /\ DeployOrder[p] \in exists'
               /\ DeployOrder[p] \in Contracts => DeployOrder[p] \in keys' \cap coded'
    <3>1. p \in 1..Last /\ p # position
      BY <1>a, <1>4
    <3>2. /\ DeployOrder[p] \in exists
          /\ DeployOrder[p] \in Contracts => DeployOrder[p] \in keys \cap coded
      BY <1>4 DEF PassedInv
    <3>3. DeployOrder[p] # Role
      BY <1>4, <3>1, OrderFacts DEF Role
    <3>4. QED
      BY <1>4, <3>2, <3>3
  <2>2. CASE position' = position
    <3>1. Role' = Role
      BY <2>2 DEF Role
    <3>2. QED
      BY <1>4, <1>a, <2>1, <2>2, <3>1 DEF PassedInv
  <2>3. CASE position' = position + 1 /\ stage' = "start"
    <3>1. \A p \in 1..(position' - 1) : p = position \/ p \in 1..(position - 1)
      BY <1>a, <1>4, <2>3
    <3>2. /\ DeployOrder[position] \in exists'
          /\ DeployOrder[position] \in Contracts
                => DeployOrder[position] \in keys' \cap coded'
      BY <1>4, <1>a, <2>3 DEF Role
    <3>3. QED
      BY <1>4, <2>1, <2>3, <3>1, <3>2 DEF PassedInv
  <2>4. QED
    BY <1>4, <2>2, <2>3
<1>5. CASE AccountExisted
  BY <1>4, <1>5, <1>a DEF AccountExisted, At, Ensured, Goto, Onward, accountVars
<1>6. CASE CreateAccount
  BY <1>4, <1>6, <1>a DEF CreateAccount, At, Goto
<1>7. CASE WriteCredential
  BY <1>4, <1>7, <1>a DEF WriteCredential, At, Ensured, Goto, Onward, PassedInv
<1>8. CASE DeployContract
  BY <1>4, <1>8, <1>a DEF DeployContract, At, Goto, Onward, PassedInv
<1>9. CASE CallNew
  BY <1>4, <1>9, <1>a DEF CallNew, At, Onward, PassedInv
<1>10. CASE AccountAbsent \/ AccountMisread \/ RemoveCredential
  <2>1. /\ command = "clean" /\ command' = "clean" /\ position \in 1..Last
        /\ position' = position - 1 /\ keys' = keys \ {Role} /\ ~deployed'
        /\ stage' = "start"
    BY <1>10, <1>a DEF AccountAbsent, AccountMisread, RemoveCredential, At, Onward
  <2>2. \A p \in (position' + 1)..Last : p = position \/ p \in (position + 1)..Last
    BY <1>a, <2>1
  <2>3. \A p \in (position' + 1)..Last : DeployOrder[p] \notin keys'
    BY <2>1, <2>2 DEF PassedInv, Role
  <2>4. QED
    BY <2>1, <2>3 DEF PassedInv
<1>11. CASE DeleteAccount
  BY <1>11, <1>a DEF DeleteAccount, At, Goto, PassedInv, Role
<1>12. CASE UNCHANGED deployVars
  BY <1>12 DEF deployVars, accountVars, commandVars, PassedInv, Role
<1>13. QED
  BY <1>1, <1>2, <1>3, <1>5, <1>6, <1>7, <1>8, <1>9, <1>10, <1>11, <1>12 DEF DeployNext

\* A step that leaves the accounts alone leaves them whole or gone.
LEMMA AccountsStand ==
    ASSUME UNCHANGED accountVars, NEW p
    PROVE  (Whole(p)' <=> Whole(p)) /\ (Gone(p)' <=> Gone(p))
BY DEF accountVars, Whole, Gone

\* Without a disturbance, every account deploy or clean meets is whole or gone.
LEMMA SlateStep == DeployInv /\ [DeployNext]_deployVars => SlateInv'
<1> SUFFICES ASSUME DeployInv, [DeployNext]_deployVars, ~tainted' PROVE SlateInv'
  BY DEF SlateInv
<1>a. /\ Last = 6
      /\ deployed => command = "none"
      /\ command = "deploy" => position \in 1..(Last + 1)
      /\ command = "clean" => position \in 0..Last
      /\ command = "none" => position = 0
  BY OrderFacts DEF DeployInv, DeployTypeOK
<1>b. ASSUME ~tainted
      PROVE  /\ \A p \in 1..Last : Whole(p) \/ Gone(p) \/ (p = position /\ UnderWay)
             /\ command = "deploy" =>
                   /\ \A p \in 1..(position - 1) : Whole(p)
                   /\ position <= Last /\ stage = "code" /\ ~fresh => Whole(position)
             /\ command = "clean" => \A p \in (position + 1)..Last : Gone(p)
             /\ deployed => \A p \in 1..Last : Whole(p)
  BY <1>b DEF DeployInv, SlateInv
<1> PICK here : here = position
  OBVIOUS
<1>1. CASE StartDeploy \/ StartClean
  <2>1. /\ ~deployed' /\ stage' = "start" /\ command = "none" /\ ~tainted
        /\ UNCHANGED accountVars
        /\ \/ command' = "deploy" /\ position' = 1
           \/ command' = "clean" /\ position' = Last
    BY <1>1 DEF StartDeploy, StartClean, Begin
  <2>2. \A p \in 1..Last : Whole(p)' \/ Gone(p)'
    BY <1>a, <1>b, <2>1, AccountsStand
  <2>3. QED
    BY <1>a, <2>1, <2>2 DEF SlateInv
<1>2. CASE Interrupt \/ AccountMisread
  BY <1>2 DEF Interrupt, AccountMisread
<1>3. CASE DeployThrows
  <2>1. ~tainted /\ command = "deploy"
    BY <1>3 DEF DeployThrows, At
  <2>2. CASE At("deploy", "code") /\ Role \notin keys
    <3>1. position \in 1..Last /\ stage = "code" /\ Role \in exists
      BY <2>1, <2>2, <1>a DEF At, DeployInv, PassedInv
    <3>2. ~Whole(position) /\ ~Gone(position) /\ ~UnderWay
      BY <2>1, <2>2, <3>1 DEF Whole, Gone, UnderWay, Role
    <3>3. QED
      BY <1>b, <2>1, <3>1, <3>2
  <2>3. CASE position > Last /\ "gate" \notin initialised
    <3>1. 4 \in 1..(position - 1) /\ DeployOrder[4] = "gate"
      BY <1>a, <2>1, <2>3 DEF DeployOrder
    <3>2. Whole(4)
      BY <1>b, <2>1, <3>1
    <3>3. QED
      BY <2>3, <3>1, <3>2 DEF Whole, WithInit
  <2>4. QED
    BY <1>3, <2>2, <2>3 DEF DeployThrows
<1>4. CASE CleanThrows
  <2>1. /\ ~tainted /\ position \in 1..Last /\ stage = "start"
        /\ Role \in exists /\ Role \notin keys
    BY <1>4 DEF CleanThrows, At
  <2>2. ~Whole(position) /\ ~Gone(position) /\ ~UnderWay
    BY <2>1 DEF Whole, Gone, UnderWay, Role
  <2>3. QED
    BY <1>b, <2>1, <2>2
<1>5. CASE CleanDone
  <2>1. /\ command = "clean" /\ position = 0 /\ command' = "none" /\ ~deployed'
        /\ UNCHANGED accountVars
        /\ ~tainted \/ exists = {}
    BY <1>5, <1>a DEF CleanDone, End
  <2>2. \A p \in 1..Last : Gone(p)
    <3>1. CASE ~tainted
      BY <1>b, <2>1, <3>1
    <3>2. CASE exists = {}
      BY <2>1, <3>2 DEF DeployInv, PassedInv, Gone
    <3>3. QED
      BY <2>1, <3>1, <3>2
  <2>3. \A p \in 1..Last : Gone(p)'
    BY <2>1, <2>2, AccountsStand
  <2>4. QED
    BY <2>1, <2>3 DEF SlateInv
<1>6. CASE ReportReady
  <2>1. /\ command = "deploy" /\ position > Last /\ command' = "none" /\ ~tainted
        /\ UNCHANGED accountVars
    BY <1>6 DEF ReportReady, End
  <2>2. \A p \in 1..Last : Whole(p)
    BY <1>a, <1>b, <2>1
  <2>3. \A p \in 1..Last : Whole(p)'
    BY <2>1, <2>2, AccountsStand
  <2>4. QED
    BY <2>1, <2>3 DEF SlateInv
<1>7. ASSUME command = "deploy", position \in 1..Last, command' = "deploy",
             ~tainted, ~deployed',
             \A r : r # Role => /\ r \in exists' <=> r \in exists
                                /\ r \in keys' <=> r \in keys
                                /\ r \in coded' <=> r \in coded
                                /\ r \in initialised' <=> r \in initialised,
             \/ /\ position' = position /\ (Whole(here)' \/ UnderWay')
                /\ stage' = "code" /\ ~fresh' => Whole(here)'
             \/ position' = position + 1 /\ stage' = "start" /\ Whole(here)'
      PROVE  SlateInv'
  <2>1. \A p \in 1..Last : p # position =>
           (Whole(p)' <=> Whole(p)) /\ (Gone(p)' <=> Gone(p))
    BY <1>7, OthersStand
  <2>2. \A p \in 1..Last : p # position => Whole(p)' \/ Gone(p)'
    BY <1>7, <1>b, <2>1
  <2>3. \A p \in 1..(position - 1) : Whole(p)'
    BY <1>7, <1>a, <1>b, <2>1
  <2>4. CASE position' = position
    BY <1>7, <2>2, <2>3, <2>4 DEF SlateInv
  <2>5. CASE position' = position + 1 /\ stage' = "start" /\ Whole(here)'
    <3>1. \A p \in 1..(position' - 1) : p = position \/ p \in 1..(position - 1)
      BY <1>a, <1>7, <2>5
    <3>2. Whole(here)' => \A p \in 1..Last : p = position => Whole(p)'
      OBVIOUS
    <3>3. QED
      BY <1>7, <2>2, <2>3, <2>5, <3>1, <3>2 DEF SlateInv
  <2>6. QED
    BY <1>7, <2>4, <2>5
<1>8. ASSUME command = "clean", position \in 1..Last, command' = "clean",
             ~tainted, ~deployed',
             \A r : r # Role => /\ r \in exists' <=> r \in exists
                                /\ r \in keys' <=> r \in keys
                                /\ r \in coded' <=> r \in coded
                                /\ r \in initialised' <=> r \in initialised,
             \/ position' = position /\ UnderWay'
             \/ position' = position - 1 /\ Gone(here)'
      PROVE  SlateInv'
  <2>1. \A p \in 1..Last : p # position =>
           (Whole(p)' <=> Whole(p)) /\ (Gone(p)' <=> Gone(p))
    BY <1>8, OthersStand
  <2>2. \A p \in 1..Last : p # position => Whole(p)' \/ Gone(p)'
    BY <1>8, <1>b, <2>1
  <2>3. \A p \in (position + 1)..Last : p \in 1..Last /\ p # position
    BY <1>8, <1>a
  <2>4. \A p \in (position + 1)..Last : Gone(p)'
    BY <1>8, <1>b, <2>1, <2>3
  <2>5. CASE position' = position /\ UnderWay'
    BY <1>8, <2>2, <2>4, <2>5 DEF SlateInv
  <2>6. CASE position' = position - 1 /\ Gone(here)'
    <3>1. \A p \in (position' + 1)..Last : p = position \/ p \in (position + 1)..Last
      BY <1>a, <1>8, <2>6
    <3>2. Gone(here)' => \A p \in 1..Last : p = position => Gone(p)'
      OBVIOUS
    <3>3. Gone(here)' => \A p \in (position' + 1)..Last : p = position => Gone(p)'
      OBVIOUS
    <3>4. QED
      BY <1>8, <2>2, <2>4, <2>6, <3>1, <3>2, <3>3 DEF SlateInv
  <2>7. QED
    BY <1>8, <2>5, <2>6
<1>9. CASE AccountExisted
  <2>1. /\ command = "deploy" /\ stage = "start" /\ position \in 1..Last /\ ~tainted
        /\ command' = "deploy" /\ ~deployed' /\ Role \in exists
        /\ UNCHANGED <<exists, keys, coded, initialised>>
        /\ \/ position' = position
           \/ position' = position + 1 /\ stage' = "start"
    BY <1>9, <1>a DEF AccountExisted, At, Ensured, Goto, Onward, accountVars
  <2>2. Whole(position)
    BY <1>b, <2>1 DEF Gone, UnderWay, Role
  <2>3. Whole(here)'
    BY <2>1, <2>2 DEF Whole
  <2>4. QED
    BY <1>7, <2>1, <2>3
<1>10. CASE CreateAccount
  <2>1. /\ command = "deploy" /\ position \in 1..Last /\ ~tainted
        /\ command' = "deploy" /\ ~deployed' /\ position' = position
        /\ stage' = "credential" /\ exists' = exists \cup {Role} /\ keys' = keys \ {Role}
        /\ UNCHANGED <<coded, initialised>>
    BY <1>10, <1>a DEF CreateAccount, At, Goto
  <2>2. UnderWay'
    BY <2>1 DEF UnderWay, Role
  <2>3. QED
    BY <1>7, <2>1, <2>2
<1>11. CASE WriteCredential
  <2>1. /\ command = "deploy" /\ stage = "credential" /\ position \in 1..Last /\ ~tainted
        /\ command' = "deploy" /\ ~deployed' /\ keys' = keys \cup {Role} /\ fresh' = TRUE
        /\ UNCHANGED <<exists, coded, initialised>>
        /\ IF Role \in Contracts THEN position' = position /\ stage' = "code"
           ELSE position' = position + 1 /\ stage' = "start"
    BY <1>11, <1>a DEF WriteCredential, At, Ensured, Goto, Onward
  <2>2. Role \in exists
    BY <1>a, <2>1 DEF DeployInv, PassedInv
  <2>3. CASE Role \in Contracts
    <3>1. UnderWay'
      BY <2>1, <2>2, <2>3 DEF UnderWay, Role
    <3>2. QED
      BY <1>7, <2>1, <2>3, <3>1
  <2>4. CASE Role \notin Contracts
    <3>1. Whole(here)'
      BY <2>1, <2>2, <2>4 DEF Whole, Role, WithInit, Contracts
    <3>2. QED
      BY <1>7, <2>1, <2>4, <3>1
  <2>5. QED
    BY <2>3, <2>4
<1>12. CASE DeployContract
  <2>1. /\ command = "deploy" /\ stage = "code" /\ position \in 1..Last /\ ~tainted
        /\ command' = "deploy" /\ ~deployed' /\ Role \in keys /\ coded' = coded \cup {Role}
        /\ UNCHANGED <<exists, keys, initialised, fresh>>
        /\ IF NeedsInit THEN position' = position /\ stage' = "init"
           ELSE position' = position + 1 /\ stage' = "start"
    BY <1>12, <1>a DEF DeployContract, At, Goto, Onward
  <2>2. Role \in exists
    BY <1>a, <2>1 DEF DeployInv, PassedInv
  <2>3. CASE NeedsInit
    <3>1. UnderWay'
      BY <2>1, <2>2, <2>3 DEF UnderWay, Role
    <3>2. QED
      BY <1>7, <2>1, <2>3, <3>1
  <2>4. CASE ~NeedsInit
    <3>1. ~fresh => Whole(position)
      BY <1>a, <1>b, <2>1
    <3>2. Whole(here)'
      BY <2>1, <2>2, <2>4, <3>1 DEF Whole, Role, WithInit, NeedsInit
    <3>3. QED
      BY <1>7, <2>1, <2>4, <3>2
  <2>5. QED
    BY <2>3, <2>4
<1>13. CASE CallNew
  <2>1. /\ command = "deploy" /\ stage = "init" /\ position \in 1..Last /\ ~tainted
        /\ command' = "deploy" /\ ~deployed' /\ initialised' = initialised \cup {Role}
        /\ UNCHANGED <<exists, keys, coded>>
        /\ position' = position + 1 /\ stage' = "start"
    BY <1>13, <1>a DEF CallNew, At, Onward
  <2>2. Role \in exists \cap keys \cap coded
    BY <1>a, <2>1 DEF DeployInv, PassedInv
  <2>3. Whole(here)'
    BY <2>1, <2>2 DEF Whole, Role
  <2>4. QED
    BY <1>7, <2>1, <2>3
<1>14. CASE AccountAbsent \/ RemoveCredential
  <2>1. /\ command = "clean" /\ position \in 1..Last /\ ~tainted
        /\ command' = "clean" /\ ~deployed' /\ keys' = keys \ {Role}
        /\ UNCHANGED <<exists, coded, initialised>>
        /\ position' = position - 1
        /\ \/ Role \notin exists
           \/ stage = "credential"
    BY <1>14, <1>a DEF AccountAbsent, RemoveCredential, At, Onward
  <2>2. Role \notin exists
    BY <2>1 DEF DeployInv, PassedInv
  <2>3. Gone(here)'
    BY <2>1, <2>2 DEF Gone, Role
  <2>4. QED
    BY <1>8, <2>1, <2>3
<1>15. CASE DeleteAccount
  <2>1. /\ command = "clean" /\ position \in 1..Last /\ ~tainted
        /\ command' = "clean" /\ ~deployed' /\ exists' = exists \ {Role}
        /\ coded' = coded \ {Role} /\ initialised' = initialised \ {Role}
        /\ UNCHANGED keys /\ position' = position /\ stage' = "credential"
    BY <1>15, <1>a DEF DeleteAccount, At, Goto
  <2>2. UnderWay'
    BY <2>1 DEF UnderWay, Role
  <2>3. QED
    BY <1>8, <2>1, <2>2
<1>16. CASE UNCHANGED deployVars
  BY <1>16 DEF deployVars, accountVars, commandVars, DeployInv, SlateInv, Whole, Gone,
               UnderWay, Role
<1>17. QED
  BY <1>1, <1>2, <1>3, <1>4, <1>5, <1>6, <1>9, <1>10, <1>11, <1>12, <1>13, <1>14, <1>15,
     <1>16 DEF DeployNext

LEMMA DeployInvStep == DeployInv /\ [DeployNext]_deployVars => DeployInv'
BY DeployTypeStep, PassedStep, SlateStep DEF DeployInv

LEMMA InvCompletes == DeployInv => DeployComplete
<1> SUFFICES ASSUME DeployInv, deployed
             PROVE  /\ Contracts \subseteq exists \cap keys \cap coded
                    /\ Users \subseteq exists
                    /\ "gate" \in initialised
                    /\ ~tainted => Users \subseteq keys /\ "ftShim" \in initialised
  BY DEF DeployComplete
<1>1. ASSUME ~tainted PROVE Users \subseteq keys /\ "ftShim" \in initialised
  <2>1. \A p \in 1..Last : Whole(p)
    BY <1>1 DEF DeployInv, SlateInv
  <2>2. \A r \in Users \cup Contracts : r \in keys /\ (r \in WithInit => r \in initialised)
    BY <2>1, OrderFacts DEF Whole
  <2>3. QED
    BY <2>2 DEF WithInit, Contracts
<1>2. QED
  BY <1>1 DEF DeployInv, PassedInv

-----------------------------------------------------------------------------

\* What is on chain and on disk, for the two commands given in any order, again
\* and again, and dying anywhere.
THEOREM DeployInvariant == DeployInit /\ [][DeployNext]_deployVars => []DeployInv
<1>1. DeployInv /\ [DeployNext]_deployVars => DeployInv'
  BY DeployInvStep
<1>2. QED
  BY <1>1, DeployInitInv, PTL

\* Deploy says "ready" only over complete contracts: whatever was interrupted or
\* misread before, they have their code and their keys and the gate is initialised;
\* undisturbed since the last clean slate, every account has its key too and the
\* ft-shim is initialised.
THEOREM DeployReady == DeployInit /\ [][DeployNext]_deployVars => []DeployComplete
BY DeployInvariant, InvCompletes, PTL
=============================================================================
