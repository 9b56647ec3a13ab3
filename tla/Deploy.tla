-------------------------------- MODULE Deploy --------------------------------
(***************************************************************************)
(* The runner's commands deploy and clean (scripts/src/commands/deploy.ts, *)
(* clean.ts, scripts/src/accounts.ts): accounts, their credential files    *)
(* and their contracts, created and destroyed one by one by a process that *)
(* may die between any two steps. Both commands may be given at any time   *)
(* and again. A file whose key is not the account's counts as none.        *)
(***************************************************************************)
EXTENDS Naturals, Sequences

VARIABLES
    exists,         \* accounts on chain
    keys,           \* accounts whose key is on disk
    coded,          \* contracts deployed
    initialised,    \* contracts whose `new` has run
    command,        \* the command that runs
    position,       \* the account it is at
    stage,          \* how far it has come with that account
    fresh,          \* ensureSubAccount returned "created"
    deployed,       \* deploy reported "ready"; no command has begun since
    tainted         \* history: a command was disturbed after the last clean slate

accountVars == <<exists, keys, coded, initialised>>
commandVars == <<command, position, stage, fresh, deployed, tainted>>
deployVars == <<accountVars, commandVars>>

DeployOrder == <<"alice", "relayer", "approver", "gate", "register", "ftShim">>
Last == Len(DeployOrder)
Users == {"alice", "relayer", "approver"}
Contracts == {"gate", "register", "ftShim"}

DeployInit ==
    /\ exists = {} /\ keys = {} /\ coded = {} /\ initialised = {}
    /\ command = "none" /\ position = 0 /\ stage = "start"
    /\ fresh = FALSE /\ deployed = FALSE /\ tainted = FALSE

Role == DeployOrder[position]

At(c, s) == command = c /\ position \in 1..Last /\ stage = s

Begin(c, first) ==
    /\ command = "none"
    /\ command' = c /\ position' = first /\ stage' = "start"
    /\ deployed' = FALSE
    /\ UNCHANGED <<accountVars, fresh, tainted>>

StartDeploy == Begin("deploy", 1)
StartClean == Begin("clean", Last)

End == command' = "none" /\ position' = 0 /\ stage' = "start" /\ fresh' = FALSE

Goto(s) == stage' = s /\ UNCHANGED <<command, position, deployed>>

Onward ==
    /\ position' = IF command = "deploy" THEN position + 1 ELSE position - 1
    /\ stage' = "start"
    /\ UNCHANGED <<command, deployed>>

\* The process dies, or a request to the chain fails.
Interrupt ==
    /\ command # "none"
    /\ End
    /\ tainted' = TRUE
    /\ UNCHANGED <<accountVars, deployed>>

-----------------------------------------------------------------------------
\* deploy: ensureSubAccount, then for a contract its code and `new`

Ensured == IF Role \in Contracts THEN Goto("code") ELSE Onward

AccountExisted ==
    /\ At("deploy", "start")
    /\ Role \in exists
    /\ fresh' = FALSE
    /\ Ensured
    /\ UNCHANGED <<accountVars, tainted>>

\* The new account has a new key, whatever file there still is.
CreateAccount ==
    /\ At("deploy", "start")
    /\ Role \notin exists
    /\ exists' = exists \cup {Role}
    /\ keys' = keys \ {Role}
    /\ Goto("credential")
    /\ UNCHANGED <<coded, initialised, fresh, tainted>>

WriteCredential ==
    /\ At("deploy", "credential")
    /\ keys' = keys \cup {Role}
    /\ fresh' = TRUE
    /\ Ensured
    /\ UNCHANGED <<exists, coded, initialised, tainted>>

NeedsInitGateOnly == fresh /\ Role = "gate"

\* A contract with init arguments, on an account created in this very run.
NeedsInit == fresh /\ Role \in {"gate", "ftShim"}

DeployContract ==
    /\ At("deploy", "code")
    /\ Role \in keys
    /\ coded' = coded \cup {Role}
    /\ IF NeedsInit THEN Goto("init") ELSE Onward
    /\ UNCHANGED <<exists, keys, initialised, fresh, tainted>>

CallNew ==
    /\ At("deploy", "init")
    /\ initialised' = initialised \cup {Role}
    /\ Onward
    /\ UNCHANGED <<exists, keys, coded, fresh, tainted>>

\* add_relayer on the gate, then "all accounts + contracts ready".
ReportReady ==
    /\ command = "deploy" /\ position > Last
    /\ "gate" \in initialised
    /\ deployed' = TRUE
    /\ End
    /\ UNCHANGED <<accountVars, tainted>>

\* No key to sign with, or add_relayer panics.
DeployThrows ==
    /\ \/ At("deploy", "code") /\ Role \notin keys
       \/ command = "deploy" /\ position > Last /\ "gate" \notin initialised
    /\ End
    /\ UNCHANGED <<accountVars, deployed, tainted>>

-----------------------------------------------------------------------------
\* clean: destroySubAccount in reverse order

AccountAbsent ==
    /\ At("clean", "start")
    /\ Role \notin exists
    /\ keys' = keys \ {Role}
    /\ Onward
    /\ UNCHANGED <<exists, coded, initialised, fresh, tainted>>

(***************************************************************************)
(* accountExists answers "no" to every error of the RPC server, and the    *)
(* key of an account that is still there is removed.                       *)
(***************************************************************************)
AccountMisread ==
    /\ At("clean", "start")
    /\ Role \in exists
    /\ keys' = keys \ {Role}
    /\ tainted' = TRUE
    /\ Onward
    /\ UNCHANGED <<exists, coded, initialised, fresh>>

DeleteAccount ==
    /\ At("clean", "start")
    /\ Role \in exists \cap keys
    /\ exists' = exists \ {Role}
    /\ coded' = coded \ {Role} /\ initialised' = initialised \ {Role}
    /\ Goto("credential")
    /\ UNCHANGED <<keys, fresh, tainted>>

RemoveCredential ==
    /\ At("clean", "credential")
    /\ keys' = keys \ {Role}
    /\ Onward
    /\ UNCHANGED <<exists, coded, initialised, fresh, tainted>>

CleanThrows ==
    /\ At("clean", "start")
    /\ Role \in exists \ keys
    /\ End
    /\ UNCHANGED <<accountVars, deployed, tainted>>

CleanDone ==
    /\ command = "clean" /\ position = 0
    /\ End
    /\ tainted' = (tainted /\ exists # {})
    /\ UNCHANGED <<accountVars, deployed>>

-----------------------------------------------------------------------------

(***************************************************************************)
(* When deploy says "ready", every contract account has its code and a key *)
(* on disk, and the gate is initialised, whatever was interrupted, misread *)
(* or repeated before. Unless something was disturbed after the last clean *)
(* slate, the ft-shim is initialised too and every key is there.           *)
(***************************************************************************)
DeployComplete ==
    deployed =>
        /\ Contracts \subseteq exists \cap keys \cap coded
        /\ Users \subseteq exists
        /\ "gate" \in initialised
        /\ ~tainted => Users \subseteq keys /\ "ftShim" \in initialised
=============================================================================
