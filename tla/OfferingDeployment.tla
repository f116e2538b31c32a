------------------------- MODULE OfferingDeployment -------------------------
(***************************************************************************)
(* The scripts that set up an offering on a deployed universe: the         *)
(* constraints it is bound by, the offering itself, its whitelist; and     *)
(* what the nominee, the company and the access controller do afterwards.  *)
(* A script is a sequence of transactions that may stop after any of them. *)
(* What it reads at its start (may the deployer manage the universe, does  *)
(* it control Neumark) may have changed when it is used.                   *)
(***************************************************************************)
EXTENDS AccessPolicy, FiniteSets

CONSTANTS Files,      \* whitelists: sequences of rows [investor, slot, discount], in percent
          Chunk,      \* rows of the whitelist in one transaction
          Budgets     \* bounds: alternatives of how many scripts are started, how many stop for
                      \* no reason of the code's, how often others change what scripts depend
                      \* on, how many investments and cancellations are begun

ASSUME ChunkAssumption == Chunk \in Nat \ {0}
ASSUME BudgetsAssumption ==
    Budgets \subseteq [scripts : Nat, stops : Nat, changes : Nat, investments : Nat, cancels : Nat]

VARIABLES
    isolated,    \* the universe has an access policy of its own, Neumark keeps its old one
    access,      \* the access policies
    collections, \* known interfaces of the universe: <<interface, contract>>
    offerings,   \* offerings created: one for each run of deployETO
    script,      \* the script that runs
    budget       \* what is left of the bounds

platform == <<isolated, access, collections>>
setupVars == <<platform, offerings, script, budget>>

-----------------------------------------------------------------------------
DEPLOYER == <<"DEPLOYER", 0>>
ACCESS_CONTROLLER == <<"ACCESS_CONTROLLER", 0>>
WHITELIST_ADMIN == <<"WHITELIST_ADMIN", 0>>
UNIVERSE == <<"universe", 0>>
NEUMARK == <<"neumark", 0>>

accessPolicy == <<"policy", 0>>
neuAccessPolicy == IF isolated THEN <<"policy", 1>> ELSE accessPolicy

Interfaces == {"commitment", "equityToken", "equityTokenController", "terms"}
Numbers == DOMAIN offerings
Investors == UNION {{file[i].investor : i \in DOMAIN file} : file \in Files}
Rows == [investor : Investors, slot : Int, discount : Int]
ASSUME FilesAssumption == Files \subseteq Seq(Rows)

NoTicket == [slot |-> 0, frac |-> 0]
NoFile == << >>

NewOffering == [registered |-> FALSE, agreements |-> {}, state |-> "Setup", told |-> "nothing",
                whitelist |-> [i \in Investors |-> NoTicket], listed |-> NoFile]

Idle == [name |-> "none", offering |-> 0, next |-> "none", canControlNeu |-> FALSE,
         file |-> NoFile, row |-> 0]

canManageUniverse == Allowed(access[accessPolicy], DEPLOYER, "universeManager", UNIVERSE)
canControlNeu == Allowed(access[neuAccessPolicy], DEPLOYER, "accessController", neuAccessPolicy)
canIssueNEU(policy, n) == Allowed(access[policy], <<"commitment", n>>, "neumarkIssuer", NEUMARK)

Allow(subject, role, object) ==
    [subject |-> subject, role |-> role, object |-> object, state |-> "Allow"]

\* whoever deploys an isolated universe is its access controller; on the platform's own he
\* may have been given control of Neumark's policy back
SetupInit ==
    /\ isolated \in BOOLEAN
    /\ \E controls \in BOOLEAN :
         LET admin == SetUserRoles(NewPolicy(ACCESS_CONTROLLER, neuAccessPolicy),
                 IF controls THEN <<Allow(DEPLOYER, "accessController", neuAccessPolicy)>>
                 ELSE << >>)
             base == IF isolated THEN NewPolicy(DEPLOYER, accessPolicy) ELSE admin
             rules == <<Allow(DEPLOYER, "universeManager", GLOBAL),
                        Allow(WHITELIST_ADMIN, "whitelistAdmin", GLOBAL)>>
         IN access = [policy \in {accessPolicy, neuAccessPolicy} |->
                        IF policy = accessPolicy THEN SetUserRoles(base, rules) ELSE admin]
    /\ collections = {}
    /\ offerings = << >>
    /\ script = Idle
    /\ budget \in Budgets

Spends(what) == budget[what] > 0 /\ budget' = [budget EXCEPT ![what] = @ - 1]

Starts(run) == script = Idle /\ script' = run /\ Spends("scripts")

Stops == script' = Idle

-----------------------------------------------------------------------------
(* scripts/deployETOTermsConstraints.js *)

BeginConstraints ==
    /\ canManageUniverse
    /\ Starts([Idle EXCEPT !.name = "deployETOTermsConstraints", !.next = "register"])
    /\ UNCHANGED <<platform, offerings>>

DeployConstraints ==
    /\ script.name = "deployETOTermsConstraints"
    /\ canManageUniverse
    /\ collections' = collections \cup {<<"etoTermsConstraints", UNIVERSE>>}
    /\ Stops
    /\ UNCHANGED <<isolated, access, offerings, budget>>

-----------------------------------------------------------------------------
(* scripts/deployETO.js and migrations/deployETO.js *)

BeginETO ==
    /\ canManageUniverse
    /\ Starts([Idle EXCEPT !.name = "deployETO", !.next = "create",
                           !.offering = Len(offerings) + 1, !.canControlNeu = canControlNeu])
    /\ UNCHANGED <<platform, offerings>>

deployETO(next) == script.name = "deployETO" /\ script.next = next
Continues(next) == script' = [script EXCEPT !.next = next]

\* rights, durations, terms, controller, token and commitment: nothing on the chain refers to
\* one of them before the universe does, so their creation is one step
CreateContracts ==
    /\ deployETO("create")
    /\ <<"etoTermsConstraints", UNIVERSE>> \in collections
    /\ offerings' = Append(offerings, NewOffering)
    /\ Continues("collections")
    /\ UNCHANGED <<platform, budget>>

RegisterContracts ==
    /\ deployETO("collections")
    /\ canManageUniverse
    /\ collections' = collections \cup {<<i, <<i, script.offering>> >> : i \in Interfaces}
    /\ Continues("offering")
    /\ UNCHANGED <<isolated, access, offerings, budget>>

\* the resolution of the offering waits for the company; without control of Neumark the
\* script ends here and asks for the role of the issuer
StartNewOffering ==
    /\ deployETO("offering")
    /\ canManageUniverse
    /\ IF script.canControlNeu
       THEN /\ offerings' = [offerings EXCEPT ![script.offering].registered = TRUE]
            /\ Continues("issuer")
       ELSE /\ offerings' = [offerings EXCEPT ![script.offering].registered = TRUE,
                                             ![script.offering].told = "must give role"]
            /\ Stops
    /\ UNCHANGED <<platform, budget>>

\* the policy that is written is the universe's, whatever policy Neumark has
AllowIssuer ==
    /\ deployETO("issuer")
    /\ LET rule == Allow(<<"commitment", script.offering>>, "neumarkIssuer", NEUMARK)
       IN /\ MaySetUserRoles(access[accessPolicy], DEPLOYER, accessPolicy, <<rule>>)
          /\ access' = [access EXCEPT ![accessPolicy] = SetUserRole(@, rule)]
    /\ offerings' = [offerings EXCEPT ![script.offering].told = "may issue"]
    /\ Stops
    /\ UNCHANGED <<isolated, collections, budget>>

-----------------------------------------------------------------------------
(* scripts/deployWhitelist.js *)

MaxSlot == 100000000

\* a cell that is not a number is -1; a discount of the whole price or more, or below zero, and
\* a slot out of range are refused
RowIsValid(row) ==
    /\ row.slot # -1 /\ row.discount # -1
    /\ 100 - row.discount \in 1 .. 100
    /\ row.slot \in 0 .. MaxSlot

\* every row of the file is parsed before the first transaction
BeginWhitelist ==
    /\ \E n \in Numbers, file \in Files :
         /\ \A i \in DOMAIN file : RowIsValid(file[i])
         /\ Starts([Idle EXCEPT !.name = "deployWhitelist", !.offering = n, !.file = file,
                                !.row = 1])
         /\ offerings' = [offerings EXCEPT ![n].listed = NoFile]
    /\ UNCHANGED platform

\* a later row of the same investor overwrites an earlier one
LastOf(investor, i, rows) ==
    /\ rows[i].investor = investor
    /\ ~\E j \in DOMAIN rows : j > i /\ rows[j].investor = investor

TicketOf(row) == [slot |-> row.slot, frac |-> 100 - row.discount]

Listed(whitelist, rows) ==
    [investor \in DOMAIN whitelist |->
       IF \E i \in DOMAIN rows : LastOf(investor, i, rows)
       THEN TicketOf(rows[CHOOSE i \in DOMAIN rows : LastOf(investor, i, rows)])
       ELSE whitelist[investor]]

\* mutant: the last row of a chunk is taken for the first of the next one
ChunkAtDropsLast(file, row) ==
    SubSeq(file, row, IF row + Chunk - 2 < Len(file) THEN row + Chunk - 2 ELSE Len(file))

ChunkAt(file, row) ==
    SubSeq(file, row, IF row + Chunk - 1 < Len(file) THEN row + Chunk - 1 ELSE Len(file))

\* a ticket without a price deletes, unless it has a slot
TicketIsValid(row) == 100 - row.discount <= 100 /\ (row.discount < 100 \/ row.slot = 0)

ChunkAccepted ==
    /\ script.name = "deployWhitelist"
    /\ Allowed(access[accessPolicy], WHITELIST_ADMIN, "whitelistAdmin",
               <<"terms", script.offering>>)
    /\ \A row \in Range(ChunkAt(script.file, script.row)) : TicketIsValid(row)

AddWhitelisted ==
    /\ ChunkAccepted
    /\ LET n == script.offering
           last == script.row + Chunk > Len(script.file)
       IN /\ offerings' = [offerings EXCEPT
               ![n].whitelist = Listed(@, ChunkAt(script.file, script.row)),
               ![n].listed = IF last THEN script.file ELSE @]
          /\ IF last THEN Stops ELSE script' = [script EXCEPT !.row = @ + Chunk]
    /\ UNCHANGED <<platform, budget>>

-----------------------------------------------------------------------------
Accepts ==
    \/ script.name = "deployETOTermsConstraints" /\ canManageUniverse
    \/ ChunkAccepted
    \/ deployETO("create") /\ <<"etoTermsConstraints", UNIVERSE>> \in collections
    \/ (deployETO("collections") \/ deployETO("offering")) /\ canManageUniverse
    \/ /\ deployETO("issuer")
       /\ Allowed(access[accessPolicy], DEPLOYER, "accessController", accessPolicy)

\* a transaction reverts and the script throws
Throw ==
    /\ script # Idle /\ ~Accepts
    /\ Stops
    /\ UNCHANGED <<platform, offerings, budget>>

StopScript ==
    /\ script # Idle
    /\ Stops
    /\ Spends("stops")
    /\ UNCHANGED <<platform, offerings>>

-----------------------------------------------------------------------------
(* The access controller, the nominee and the company *)

\* the deployer's rights are given and taken back while scripts run
ChangeRight ==
    /\ Spends("changes")
    /\ \E right \in {<<accessPolicy, "universeManager", GLOBAL>>,
                     <<neuAccessPolicy, "accessController", neuAccessPolicy>>} :
         LET held == Access(access[right[1]], DEPLOYER, right[2], right[3]) = "Allow"
             rule == [Allow(DEPLOYER, right[2], right[3]) EXCEPT
                        !.state = IF held THEN "Unset" ELSE "Allow"]
             admin == IF isolated /\ right[1] = accessPolicy THEN DEPLOYER ELSE ACCESS_CONTROLLER
         IN /\ MaySetUserRoles(access[right[1]], admin, right[1], <<rule>>)
            /\ access' = [access EXCEPT ![right[1]] = SetUserRole(@, rule)]
    /\ UNCHANGED <<isolated, collections, offerings, script>>

GiveIssuerRole(n) ==
    /\ offerings[n].told = "must give role" /\ ~canIssueNEU(neuAccessPolicy, n)
    /\ access' = [access EXCEPT ![neuAccessPolicy] =
                    SetUserRole(@, Allow(<<"commitment", n>>, "neumarkIssuer", NEUMARK))]
    /\ UNCHANGED <<isolated, collections, offerings, script, budget>>

AmendAgreements(n) ==
    /\ \E contract \in {"commitment", "equityToken"} \ offerings[n].agreements :
         offerings' = [offerings EXCEPT ![n].agreements = @ \cup {contract}]
    /\ UNCHANGED <<platform, script, budget>>

\* the commitment has an agreement, its controller the resolution and the nominee's agreements
MaySetStartDate(n) ==
    /\ offerings[n].state = "Setup"
    /\ "commitment" \in offerings[n].agreements
    /\ offerings[n].registered
    /\ "equityToken" \in offerings[n].agreements

SetStartDate(n) ==
    /\ MaySetStartDate(n)
    /\ offerings' = [offerings EXCEPT ![n].state = "Whitelist"]
    /\ UNCHANGED <<platform, script, budget>>

TimePasses(n) ==
    /\ offerings[n].state \in {"Whitelist", "Public"}
    /\ offerings' = [offerings EXCEPT ![n].state = IF @ = "Whitelist" THEN "Public" ELSE "Signing"]
    /\ UNCHANGED <<platform, script, budget>>

Scripts ==
    \/ BeginConstraints \/ DeployConstraints
    \/ BeginETO \/ CreateContracts \/ RegisterContracts \/ StartNewOffering \/ AllowIssuer
    \/ BeginWhitelist \/ AddWhitelisted
    \/ Throw \/ StopScript

Parties ==
    \/ ChangeRight
    \/ \E n \in Numbers :
         GiveIssuerRole(n) \/ AmendAgreements(n) \/ SetStartDate(n) \/ TimePasses(n)

-----------------------------------------------------------------------------
(* checkETO: every line it prints about the offering is green *)

InUniverse(n, interface) == <<interface, <<interface, n>> >> \in collections

\* mutant: the right to issue is looked up in the policy of the universe
CheckETOOfUniverse(n) ==
    /\ offerings[n].agreements = {"commitment", "equityToken"}
    /\ InUniverse(n, "equityToken") /\ InUniverse(n, "equityTokenController")
    /\ canIssueNEU(accessPolicy, n)
    /\ InUniverse(n, "commitment") /\ InUniverse(n, "terms")

CheckETO(n) ==
    /\ offerings[n].agreements = {"commitment", "equityToken"}
    /\ InUniverse(n, "equityToken") /\ InUniverse(n, "equityTokenController")
    /\ canIssueNEU(neuAccessPolicy, n)
    /\ InUniverse(n, "commitment") /\ InUniverse(n, "terms")

=============================================================================
