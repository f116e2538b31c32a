------------------------- MODULE InvestScript_proofs -------------------------
(***************************************************************************)
(* What a change of an access policy does to the rights it grants; what    *)
(* the scripts that set up offerings establish and nobody takes back; and  *)
(* that an investment is exact, for every account, amount and offering,    *)
(* and however long transactions wait.                                     *)
(***************************************************************************)
EXTENDS InvestScript, SequenceTheorems, FiniteSetTheorems, TLAPS

(***************************************************************************)
(* Access policies.                                                        *)
(***************************************************************************)
\* A change sets the entry it names and no other.
LEMMA SetUserRoleEffect ==
    ASSUME NEW policy, NEW rule,
           NEW subject, NEW role, NEW object
    PROVE  Access(SetUserRole(policy, rule), subject, role, object) =
             IF <<subject, role, object>> = <<rule.subject, rule.role, rule.object>>
             THEN rule.state ELSE Access(policy, subject, role, object)
<1> DEFINE key == <<rule.subject, rule.role, rule.object>>
           asked == <<subject, role, object>>
           after == SetUserRole(policy, rule)
<1>0. Access(policy, subject, role, object) = IF asked \in DOMAIN policy THEN policy[asked] ELSE "Unset"
  BY DEF Access
<1>1. Access(after, subject, role, object) = IF asked \in DOMAIN after THEN after[asked] ELSE "Unset"
  BY DEF Access
<1>. HIDE DEF after, asked
<1>2. CASE rule.state = "Unset"
  <2>1. after = [k \in DOMAIN policy \ {key} |-> policy[k]]
    BY <1>2 DEF SetUserRole, after
  <2>. HIDE DEF key
  <2>2. Access(after, subject, role, object)
          = IF asked = key THEN rule.state ELSE Access(policy, subject, role, object)
    BY <2>1, <1>0, <1>1, <1>2
  <2>. QED BY <2>2 DEF after, asked, key
<1>3. CASE rule.state # "Unset"
  <2>1. after = [k \in DOMAIN policy \cup {key} |-> IF k = key THEN rule.state ELSE policy[k]]
    BY <1>3 DEF SetUserRole, after
  <2>. HIDE DEF key
  <2>2. Access(after, subject, role, object)
          = IF asked = key THEN rule.state ELSE Access(policy, subject, role, object)
    BY <2>1, <1>0, <1>1
  <2>. QED BY <2>2 DEF after, asked, key
<1>. QED BY <1>2, <1>3

\* The cascade without its list: the first entry that is set decides.
LEMMA AllowedByEntries ==
    ASSUME NEW policy, NEW subject, NEW role, NEW object
    PROVE  Allowed(policy, subject, role, object) <=>
             LET local == Access(policy, subject, role, object)
                 global == Access(policy, subject, role, GLOBAL)
                 everyone == Access(policy, EVERYONE, role, object)
                 everywhere == Access(policy, EVERYONE, role, GLOBAL)
             IN \/ local = "Allow"
                \/ local = "Unset" /\ global = "Allow"
                \/ local = "Unset" /\ global = "Unset" /\ everyone = "Allow"
                \/ /\ local = "Unset" /\ global = "Unset" /\ everyone = "Unset"
                   /\ everywhere = "Allow"
  BY DEF Allowed, Cascade

\* Whoever controls a policy by an entry of his own keeps that entry, whichever change the
\* policy accepts from him: an access controller cannot lock himself out.
THEOREM ControllerKeepsItself ==
    ASSUME NEW policy, NEW sender, NEW this, NEW rule,
           MaySetUserRoles(policy, sender, this, <<rule>>),
           Access(policy, sender, "accessController", this) = "Allow"
    PROVE  Access(SetUserRole(policy, rule), sender, "accessController", this) = "Allow"
<1>1. ~(rule.role = "accessController" /\ rule.subject = sender /\ rule.object = this)
  BY DEF MaySetUserRoles
<1>2. <<sender, "accessController", this>> # <<rule.subject, rule.role, rule.object>>
  BY <1>1
<1>. QED BY <1>2, SetUserRoleEffect

\* A change decides for its own role only, for its own subject unless that is everyone, and
\* for its own object unless that is every object.
THEOREM ChangesAreSeparate ==
    ASSUME NEW policy, NEW rule, NEW subject, NEW role, NEW object,
           \/ rule.role # role
           \/ rule.subject \notin {subject, EVERYONE}
           \/ rule.object \notin {object, GLOBAL}
    PROVE  Allowed(SetUserRole(policy, rule), subject, role, object)
             <=> Allowed(policy, subject, role, object)
<1> DEFINE after == SetUserRole(policy, rule)
<1>1. \A s \in {subject, EVERYONE}, o \in {object, GLOBAL} :
        Access(after, s, role, o) = Access(policy, s, role, o)
  <2>1. SUFFICES ASSUME NEW s \in {subject, EVERYONE}, NEW o \in {object, GLOBAL}
                 PROVE  Access(after, s, role, o) = Access(policy, s, role, o)
    OBVIOUS
  <2>2. <<s, role, o>> # <<rule.subject, rule.role, rule.object>>
    OBVIOUS
  <2>. QED BY <2>2, SetUserRoleEffect
<1>. HIDE DEF after
<1>2. Allowed(after, subject, role, object) <=> Allowed(policy, subject, role, object)
  BY <1>1, AllowedByEntries
<1>. QED BY <1>2 DEF after

\* A right that was granted on every object is not dropped by unsetting it on one: what the
\* finalization of the deployment does with the deployer's access to the universe.
THEOREM LocalDropKeepsGlobal ==
    ASSUME NEW policy, NEW rule,
           rule.state = "Unset", rule.object # GLOBAL,
           Access(policy, rule.subject, rule.role, GLOBAL) = "Allow"
    PROVE  Allowed(SetUserRole(policy, rule), rule.subject, rule.role, rule.object)
<1>1. Access(SetUserRole(policy, rule), rule.subject, rule.role, rule.object) = "Unset"
  BY SetUserRoleEffect
<1>2. Access(SetUserRole(policy, rule), rule.subject, rule.role, GLOBAL) = "Allow"
  BY SetUserRoleEffect
<1>. QED BY <1>1, <1>2, AllowedByEntries

-----------------------------------------------------------------------------
(***************************************************************************)
(* Setting up offerings.                                                   *)
(***************************************************************************)
Offerings ==
    [registered : BOOLEAN, agreements : SUBSET {"commitment", "equityToken"},
     state : {"Setup", "Whitelist", "Public", "Signing"},
     told : {"nothing", "must give role", "may issue"},
     whitelist : [Investors -> [slot : Nat, frac : 0 .. 100]], listed : Files \cup {NoFile}]

SetupTypeOK ==
    /\ isolated \in BOOLEAN
    /\ DOMAIN access = {accessPolicy, neuAccessPolicy}
    /\ offerings \in Seq(Offerings)
    /\ DOMAIN script = {"name", "offering", "next", "canControlNeu", "file", "row"}
    /\ script.offering \in Nat /\ script.row \in Nat
    /\ budget \in [scripts : Nat, stops : Nat, changes : Nat, investments : Nat, cancels : Nat]

\* The rows of a file up to one of them are tickets of a whitelist.
TicketsUpTo(whitelist, file, last) ==
    \A i \in 1 .. last :
      (~\E j \in i + 1 .. last : file[j].investor = file[i].investor) =>
         whitelist[file[i].investor] = TicketOf(file[i])

Registered(n) == \A interface \in Interfaces : InUniverse(n, interface)

\* How far deployETO is with its offering.
DeploysOK ==
    script.name = "deployETO" =>
      /\ script.next \in {"create", "collections", "offering", "issuer"}
      /\ script.next = "create" => script.offering = Len(offerings) + 1
      /\ script.next # "create" => script.offering \in Numbers
      /\ script.next \in {"offering", "issuer"} => Registered(script.offering)
      /\ script.next = "issuer" => offerings[script.offering].registered

\* How far deployWhitelist is with its file.
ListsOK ==
    script.name = "deployWhitelist" =>
      /\ script.offering \in Numbers /\ script.file \in Files
      /\ \A i \in DOMAIN script.file : RowIsValid(script.file[i])
      /\ script.row >= 1
      /\ offerings[script.offering].listed = NoFile
      /\ script.row <= Len(script.file) + 1
      /\ TicketsUpTo(offerings[script.offering].whitelist, script.file, script.row - 1)

\* What the output of the scripts says about an offering.
ToldOK ==
    \A n \in Numbers :
      /\ offerings[n].told # "nothing" => offerings[n].registered /\ Registered(n)
      /\ offerings[n].told = "may issue" /\ ~isolated => canIssueNEU(neuAccessPolicy, n)
      /\ TicketsUpTo(offerings[n].whitelist, offerings[n].listed, Len(offerings[n].listed))

SetupIInv == SetupTypeOK /\ DeploysOK /\ ListsOK /\ ToldOK

\* Before any script ran.
LEMMA SetupInitIInv == SetupInit => SetupIInv
<1>. SUFFICES ASSUME SetupInit PROVE SetupIInv
  OBVIOUS
<1>1. offerings = << >> /\ script = Idle
  BY DEF SetupInit
<1>2. SetupTypeOK
  <2>1. isolated \in BOOLEAN /\ DOMAIN access = {accessPolicy, neuAccessPolicy}
    BY DEF SetupInit
  <2>2. offerings \in Seq(Offerings)
    BY <1>1, EmptySeq
  <2>4. /\ DOMAIN script = {"name", "offering", "next", "canControlNeu", "file", "row"}
        /\ script.offering \in Nat /\ script.row \in Nat
    BY <1>1 DEF Idle
  <2>3. budget \in [scripts : Nat, stops : Nat, changes : Nat, investments : Nat, cancels : Nat]
    BY BudgetsAssumption DEF SetupInit
  <2>. QED BY <2>1, <2>2, <2>3, <2>4 DEF SetupTypeOK
<1>3. Numbers = {} /\ script.name = "none"
  <2>1. Numbers = {}
    BY <1>1, EmptySeq DEF Numbers
  <2>2. script.name = "none"
    BY <1>1 DEF Idle
  <2>. QED BY <2>1, <2>2
<1>. QED BY <1>2, <1>3 DEF SetupIInv, DeploysOK, ListsOK, ToldOK

-----------------------------------------------------------------------------
(* Which right the policies keep *)

\* The right of a commitment to issue Neumarks survives every change but its own being unset.
LEMMA IssuerKept ==
    ASSUME NEW n, NEW policy \in DOMAIN access, NEW changed \in DOMAIN access, NEW rule,
           access' = [access EXCEPT ![changed] = SetUserRole(@, rule)],
           canIssueNEU(policy, n),
           \/ rule.role # "neumarkIssuer"
           \/ rule.subject # <<"commitment", n>> /\ rule.subject # EVERYONE
           \/ /\ rule.subject = <<"commitment", n>> /\ rule.object = NEUMARK
              /\ rule.state = "Allow"
    PROVE  canIssueNEU(policy, n)'
<1>1. CASE changed # policy
  BY <1>1 DEF canIssueNEU
<1>2. CASE changed = policy /\ (rule.role # "neumarkIssuer"
              \/ (rule.subject # <<"commitment", n>> /\ rule.subject # EVERYONE))
  <2>1. access'[policy] = SetUserRole(access[policy], rule)
    BY <1>2
  <2>2. Allowed(SetUserRole(access[policy], rule), <<"commitment", n>>, "neumarkIssuer", NEUMARK)
    BY <1>2, ChangesAreSeparate DEF canIssueNEU
  <2>. QED BY <2>1, <2>2 DEF canIssueNEU
<1>3. CASE /\ changed = policy /\ rule.role = "neumarkIssuer" /\ rule.subject = <<"commitment", n>>
           /\ rule.object = NEUMARK /\ rule.state = "Allow"
  <2>1. access'[policy] = SetUserRole(access[policy], rule)
    BY <1>3
  <2>2. Access(SetUserRole(access[policy], rule), <<"commitment", n>>, "neumarkIssuer", NEUMARK)
          = "Allow"
    BY <1>3, SetUserRoleEffect
  <2>. QED BY <2>1, <2>2, AllowedByEntries DEF canIssueNEU
<1>. QED BY <1>1, <1>2, <1>3

\* The right that is given.
LEMMA IssuerGiven ==
    ASSUME NEW n, NEW changed \in DOMAIN access,
           access' = [access EXCEPT ![changed] =
                        SetUserRole(@, Allow(<<"commitment", n>>, "neumarkIssuer", NEUMARK))]
    PROVE  canIssueNEU(changed, n)'
<1> DEFINE rule == Allow(<<"commitment", n>>, "neumarkIssuer", NEUMARK)
<1>1. access'[changed] = SetUserRole(access[changed], rule)
  OBVIOUS
<1>2. /\ rule.subject = <<"commitment", n>> /\ rule.role = "neumarkIssuer"
      /\ rule.object = NEUMARK /\ rule.state = "Allow"
  BY DEF Allow
<1>. HIDE DEF rule
<1>3. Access(SetUserRole(access[changed], rule), <<"commitment", n>>, "neumarkIssuer", NEUMARK)
        = "Allow"
  BY <1>2, SetUserRoleEffect
<1>. QED BY <1>1, <1>3, AllowedByEntries DEF canIssueNEU

-----------------------------------------------------------------------------
(* What leaves the promises to the operator alone *)

RightsKept == \A n \in Numbers : canIssueNEU(neuAccessPolicy, n) => canIssueNEU(neuAccessPolicy, n)'

\* Offerings keep what was promised about them.
OfferingsKept ==
    /\ Numbers' = Numbers /\ Len(offerings') = Len(offerings)
    /\ \A n \in Numbers :
         /\ offerings'[n].told = offerings[n].told
         /\ offerings[n].registered => offerings'[n].registered
         /\ offerings'[n].whitelist = offerings[n].whitelist
         /\ offerings'[n].listed = offerings[n].listed

\* What a script told its user stays true when nothing is taken from a registered offering.
LEMMA ToldKept ==
    ASSUME SetupIInv, collections \subseteq collections', isolated' = isolated,
           RightsKept, OfferingsKept
    PROVE  ToldOK'
<1>1. SUFFICES ASSUME NEW n \in Numbers
               PROVE  /\ offerings'[n].told # "nothing" => offerings'[n].registered /\ Registered(n)'
                      /\ offerings'[n].told = "may issue" /\ ~isolated => canIssueNEU(neuAccessPolicy, n)'
                      /\ TicketsUpTo(offerings'[n].whitelist, offerings'[n].listed,
                                     Len(offerings'[n].listed))
  BY DEF OfferingsKept, ToldOK
<1>2. Registered(n) => Registered(n)'
  BY DEF Registered, InUniverse
<1>. QED BY <1>2 DEF SetupIInv, ToldOK, OfferingsKept, RightsKept

\* How far a script is stays true when nothing is taken from a registered offering.
LEMMA ScriptKept ==
    ASSUME SetupIInv, collections \subseteq collections', OfferingsKept, script' = script
    PROVE  DeploysOK' /\ ListsOK'
<1>1. \A n : Registered(n) => Registered(n)'
  BY DEF Registered, InUniverse
<1>2. DeploysOK'
  BY <1>1 DEF SetupIInv, DeploysOK, OfferingsKept
<1>3. ListsOK'
  BY DEF SetupIInv, ListsOK, OfferingsKept
<1>. QED BY <1>2, <1>3

\* A script that begins, ends or stops, or an event beside the scripts.
LEMMA QuietSetup ==
    ASSUME SetupIInv, collections \subseteq collections', isolated' = isolated, access' = access,
           offerings' = offerings, DeploysOK', ListsOK',
           /\ DOMAIN script' = {"name", "offering", "next", "canControlNeu", "file", "row"}
           /\ script'.offering \in Nat /\ script'.row \in Nat,
           budget' \in [scripts : Nat, stops : Nat, changes : Nat, investments : Nat, cancels : Nat]
    PROVE  SetupIInv'
<1>1. RightsKept /\ OfferingsKept
  BY DEF RightsKept, OfferingsKept, Numbers, canIssueNEU, neuAccessPolicy
<1>2. ToldOK'
  BY <1>1, ToldKept
<1>3. SetupTypeOK'
  BY DEF SetupIInv, SetupTypeOK, neuAccessPolicy
<1>. QED BY <1>2, <1>3 DEF SetupIInv

\* Spending from a budget keeps its type.
LEMMA BudgetSpent ==
    ASSUME SetupTypeOK, NEW what \in {"scripts", "stops", "changes", "investments", "cancels"},
           Spends(what)
    PROVE  budget' \in [scripts : Nat, stops : Nat, changes : Nat, investments : Nat, cancels : Nat]
<1>1. budget \in [{"scripts", "stops", "changes", "investments", "cancels"} -> Nat]
  BY DEF SetupTypeOK
<1>. QED BY <1>1 DEF Spends, SetupTypeOK

\* No script runs: there is nothing to say of its progress.
LEMMA IdleIsQuiet ==
    ASSUME SetupTypeOK, script' = Idle
    PROVE  /\ DeploysOK' /\ ListsOK'
           /\ DOMAIN script' = {"name", "offering", "next", "canControlNeu", "file", "row"}
           /\ script'.offering \in Nat /\ script'.row \in Nat
<1>1. /\ DOMAIN script' = {"name", "offering", "next", "canControlNeu", "file", "row"}
      /\ script'.offering = 0 /\ script'.row = 0 /\ script'.name = "none"
  BY DEF Idle
<1>. QED BY <1>1 DEF DeploysOK, ListsOK

-----------------------------------------------------------------------------
(* The steps of deployETO *)

\* Starting deployETO.
LEMMA BeginETOKeeps == SetupIInv /\ BeginETO => SetupIInv'
<1>. SUFFICES ASSUME SetupIInv, BeginETO PROVE SetupIInv'
  OBVIOUS
<1>1. /\ collections' = collections /\ isolated' = isolated /\ access' = access
      /\ offerings' = offerings /\ Spends("scripts")
  BY DEF BeginETO, Starts, platform
<1>2. Len(offerings) \in Nat
  BY DEF SetupIInv, SetupTypeOK
<1>3. /\ DOMAIN script' = {"name", "offering", "next", "canControlNeu", "file", "row"}
      /\ script'.offering \in Nat /\ script'.row \in Nat
      /\ script'.name = "deployETO" /\ script'.next = "create"
      /\ script'.offering = Len(offerings) + 1
  BY <1>2 DEF BeginETO, Starts, Idle
<1>4. DeploysOK' /\ ListsOK'
  BY <1>1, <1>3 DEF DeploysOK, ListsOK
<1>. QED BY <1>1, <1>3, <1>4, QuietSetup, BudgetSpent DEF SetupIInv

\* One offering changes.
LEMMA OfferingSet ==
    ASSUME SetupTypeOK, NEW n \in Numbers, NEW o \in Offerings,
           offerings' = [offerings EXCEPT ![n] = o]
    PROVE  /\ offerings' \in Seq(Offerings) /\ Numbers' = Numbers
           /\ Len(offerings') = Len(offerings)
           /\ offerings'[n] = o
           /\ \A m \in Numbers \ {n} : offerings'[m] = offerings[m]
  BY ExceptSeq DEF SetupTypeOK, Numbers

\* The type of a deployed offering.
LEMMA OfferingType ==
    ASSUME SetupTypeOK, NEW n \in Numbers
    PROVE  offerings[n] \in Offerings
  BY DEF SetupTypeOK, Numbers

\* deployETO deploys the contracts of an offering.
LEMMA CreateContractsKeeps == SetupIInv /\ CreateContracts => SetupIInv'
<1>. SUFFICES ASSUME SetupIInv, CreateContracts PROVE SetupIInv'
  OBVIOUS
<1>1. /\ collections' = collections /\ isolated' = isolated /\ access' = access
      /\ budget' = budget /\ offerings' = Append(offerings, NewOffering)
      /\ script' = [script EXCEPT !.next = "collections"]
      /\ script.name = "deployETO" /\ script.next = "create"
  BY DEF CreateContracts, platform, Continues, deployETO
<1>2. NewOffering \in Offerings
  BY DEF NewOffering, Offerings, NoTicket, NoFile
<1>3. /\ offerings' \in Seq(Offerings) /\ Len(offerings) \in Nat
      /\ Numbers = 1 .. Len(offerings) /\ Numbers' = 1 .. Len(offerings) + 1
      /\ \A n \in Numbers : offerings'[n] = offerings[n]
      /\ offerings'[Len(offerings) + 1] = NewOffering
  BY <1>1, <1>2, AppendProperties DEF SetupIInv, SetupTypeOK, Numbers
<1>4. SetupTypeOK' /\ script'.name = "deployETO" /\ script'.next = "collections"
      /\ script'.offering = Len(offerings) + 1
  BY <1>1, <1>3 DEF SetupIInv, SetupTypeOK, DeploysOK, neuAccessPolicy
<1>5. DeploysOK' /\ ListsOK'
  BY <1>3, <1>4 DEF DeploysOK, ListsOK
<1>6. ToldOK'
  <2>1. SUFFICES ASSUME NEW n \in Numbers'
                 PROVE  /\ offerings'[n].told # "nothing" => offerings'[n].registered /\ Registered(n)'
                        /\ offerings'[n].told = "may issue" /\ ~isolated => canIssueNEU(neuAccessPolicy, n)'
                        /\ TicketsUpTo(offerings'[n].whitelist, offerings'[n].listed,
                                       Len(offerings'[n].listed))
    BY <1>1 DEF ToldOK
  <2>2. CASE n \in Numbers
    BY <1>1, <1>3, <2>2 DEF SetupIInv, ToldOK, Registered, InUniverse, canIssueNEU, neuAccessPolicy
  <2>3. CASE n = Len(offerings) + 1
    <3>1. offerings'[n].told = "nothing" /\ offerings'[n].listed = << >>
      BY <1>3, <2>3 DEF NewOffering, NoFile
    <3>2. Len(offerings'[n].listed) = 0
      BY <3>1, EmptySeq
    <3>. QED BY <3>1, <3>2 DEF TicketsUpTo
  <2>4. n \in Numbers \/ n = Len(offerings) + 1
    BY <1>3
  <2>. QED BY <2>2, <2>3, <2>4, Zenon
<1>. QED BY <1>4, <1>5, <1>6 DEF SetupIInv

\* deployETO registers them in the universe.
LEMMA RegisterContractsKeeps == SetupIInv /\ RegisterContracts => SetupIInv'
<1>. SUFFICES ASSUME SetupIInv, RegisterContracts PROVE SetupIInv'
  OBVIOUS
<1>1. /\ collections' = collections \cup {<<i, <<i, script.offering>> >> : i \in Interfaces}
      /\ isolated' = isolated /\ access' = access /\ offerings' = offerings /\ budget' = budget
      /\ script' = [script EXCEPT !.next = "offering"]
      /\ script.name = "deployETO" /\ script.next = "collections"
  BY DEF RegisterContracts, Continues, deployETO
<1>2. /\ DOMAIN script' = {"name", "offering", "next", "canControlNeu", "file", "row"}
      /\ script'.offering \in Nat /\ script'.row \in Nat /\ script'.offering = script.offering
      /\ script'.name = "deployETO" /\ script'.next = "offering"
  BY <1>1 DEF SetupIInv, SetupTypeOK
<1>3. Registered(script.offering)'
  BY <1>1, <1>2 DEF Registered, InUniverse
<1>4. script'.offering \in Numbers'
  BY <1>1, <1>2 DEF SetupIInv, DeploysOK, Numbers
<1>5. DeploysOK' /\ ListsOK'
  BY <1>2, <1>3, <1>4, Zenon DEF DeploysOK, ListsOK
<1>6. budget' \in [scripts : Nat, stops : Nat, changes : Nat, investments : Nat, cancels : Nat]
  BY <1>1 DEF SetupIInv, SetupTypeOK
<1>. QED BY <1>1, <1>2, <1>5, <1>6, QuietSetup

\* The nominee and the company agree, and the offering gets its start date.
LEMMA StartNewOfferingKeeps == SetupIInv /\ StartNewOffering => SetupIInv'
<1>. SUFFICES ASSUME SetupIInv, StartNewOffering PROVE SetupIInv'
  OBVIOUS
<1> DEFINE n == script.offering
<1>1. /\ collections' = collections /\ isolated' = isolated /\ access' = access /\ budget' = budget
      /\ script.name = "deployETO" /\ script.next = "offering" /\ n \in Numbers /\ Registered(n)
  BY DEF StartNewOffering, platform, deployETO, SetupIInv, DeploysOK
<1>2. offerings[n] \in Offerings
  BY <1>1, OfferingType DEF SetupIInv
<1>3. PICK o \in Offerings :
        /\ offerings' = [offerings EXCEPT ![n] = o]
        /\ o.registered /\ o.whitelist = offerings[n].whitelist /\ o.listed = offerings[n].listed
        /\ \/ o.told = offerings[n].told /\ script' = [script EXCEPT !.next = "issuer"]
           \/ o.told = "must give role" /\ script' = Idle
  <2>1. CASE script.canControlNeu
    <3>1. /\ offerings' = [offerings EXCEPT ![n] = [offerings[n] EXCEPT !.registered = TRUE]]
          /\ script' = [script EXCEPT !.next = "issuer"]
      BY <2>1 DEF StartNewOffering, Continues
    <3>2. /\ [offerings[n] EXCEPT !.registered = TRUE] \in Offerings
          /\ [offerings[n] EXCEPT !.registered = TRUE].registered
          /\ [offerings[n] EXCEPT !.registered = TRUE].told = offerings[n].told
          /\ [offerings[n] EXCEPT !.registered = TRUE].whitelist = offerings[n].whitelist
          /\ [offerings[n] EXCEPT !.registered = TRUE].listed = offerings[n].listed
      BY <1>2 DEF Offerings
    <3>. QED BY <3>1, <3>2
  <2>2. CASE ~script.canControlNeu
    <3> DEFINE o == [offerings[n] EXCEPT !.registered = TRUE, !.told = "must give role"]
    <3>1. offerings' = [offerings EXCEPT ![n] = o] /\ script' = Idle
      BY <2>2 DEF StartNewOffering, Stops
    <3>2. /\ o \in Offerings /\ o.registered /\ o.told = "must give role"
          /\ o.whitelist = offerings[n].whitelist /\ o.listed = offerings[n].listed
      BY <1>2 DEF Offerings
    <3>. QED BY <3>1, <3>2
  <2>. QED BY <2>1, <2>2
<1>4. /\ offerings' \in Seq(Offerings) /\ Numbers' = Numbers /\ offerings'[n] = o
      /\ \A m \in Numbers \ {n} : offerings'[m] = offerings[m]
  BY <1>1, <1>3, OfferingSet DEF SetupIInv
<1>5. /\ DOMAIN script' = {"name", "offering", "next", "canControlNeu", "file", "row"}
      /\ script'.offering \in Nat /\ script'.row \in Nat
      /\ DeploysOK' /\ ListsOK'
  <2>1. CASE script' = Idle
    BY <2>1, IdleIsQuiet DEF SetupIInv
  <2>2. CASE script' = [script EXCEPT !.next = "issuer"]
    <3>1. /\ DOMAIN script' = {"name", "offering", "next", "canControlNeu", "file", "row"}
          /\ script'.offering \in Nat /\ script'.row \in Nat /\ script'.offering = n
          /\ script'.name = "deployETO" /\ script'.next = "issuer"
      BY <1>1, <2>2 DEF SetupIInv, SetupTypeOK
    <3>. QED BY <1>1, <1>3, <1>4, <3>1 DEF DeploysOK, ListsOK, Registered, InUniverse
  <2>. QED BY <1>3, <2>1, <2>2
<1>6. SetupTypeOK'
  BY <1>1, <1>4, <1>5 DEF SetupIInv, SetupTypeOK, neuAccessPolicy
<1>7. ToldOK'
  <2>1. SUFFICES ASSUME NEW m \in Numbers
                 PROVE  /\ offerings'[m].told # "nothing" => offerings'[m].registered /\ Registered(m)'
                        /\ offerings'[m].told = "may issue" /\ ~isolated => canIssueNEU(neuAccessPolicy, m)'
                        /\ TicketsUpTo(offerings'[m].whitelist, offerings'[m].listed,
                                       Len(offerings'[m].listed))
    BY <1>1, <1>4 DEF ToldOK
  <2>2. Registered(m)' = Registered(m) /\ canIssueNEU(neuAccessPolicy, m)' = canIssueNEU(neuAccessPolicy, m)
    BY <1>1 DEF Registered, InUniverse, canIssueNEU, neuAccessPolicy
  <2>3. CASE m # n
    BY <1>4, <2>2, <2>3 DEF SetupIInv, ToldOK
  <2>4. CASE m = n
    BY <1>1, <1>3, <1>4, <2>2, <2>4 DEF SetupIInv, ToldOK
  <2>. QED BY <2>3, <2>4
<1>. QED BY <1>5, <1>6, <1>7 DEF SetupIInv

\* The policy written is Neumark's unless the universe is isolated.
LEMMA AllowIssuerKeeps == SetupIInv /\ AllowIssuer => SetupIInv'
<1>. SUFFICES ASSUME SetupIInv, AllowIssuer PROVE SetupIInv'
  OBVIOUS
<1>0. PICK n : n = script.offering
  OBVIOUS
<1> DEFINE o == [offerings[n] EXCEPT !.told = "may issue"]
           rule == Allow(<<"commitment", n>>, "neumarkIssuer", NEUMARK)
<1>1. /\ collections' = collections /\ isolated' = isolated /\ budget' = budget
      /\ script.name = "deployETO" /\ script.next = "issuer" /\ script' = Idle
      /\ offerings' = [offerings EXCEPT ![n] = o]
      /\ access' = [access EXCEPT ![accessPolicy] = SetUserRole(@, rule)]
  BY <1>0 DEF AllowIssuer, Stops, deployETO
<1>2. n \in Numbers /\ Registered(n) /\ offerings[n].registered
  BY <1>0, <1>1 DEF SetupIInv, DeploysOK
<1>3. /\ o \in Offerings /\ o.registered /\ o.told = "may issue"
      /\ o.whitelist = offerings[n].whitelist /\ o.listed = offerings[n].listed
  BY <1>2, OfferingType DEF SetupIInv, Offerings
<1>. HIDE DEF o
<1>4. /\ offerings' \in Seq(Offerings) /\ Numbers' = Numbers /\ offerings'[n] = o
      /\ \A m \in Numbers \ {n} : offerings'[m] = offerings[m]
  BY <1>1, <1>2, <1>3, OfferingSet DEF SetupIInv
<1>5. DOMAIN access' = DOMAIN access /\ accessPolicy \in DOMAIN access /\ neuAccessPolicy \in DOMAIN access
  BY <1>1 DEF SetupIInv, SetupTypeOK
<1>6. SetupTypeOK'
  BY <1>1, <1>4, <1>5, IdleIsQuiet DEF SetupIInv, SetupTypeOK, neuAccessPolicy
<1>7. canIssueNEU(accessPolicy, n)'
  BY <1>1, <1>5, IssuerGiven
<1>8. \A m : canIssueNEU(neuAccessPolicy, m) => canIssueNEU(neuAccessPolicy, m)'
  <2>1. SUFFICES ASSUME NEW m, canIssueNEU(neuAccessPolicy, m)
                 PROVE  canIssueNEU(neuAccessPolicy, m)'
    OBVIOUS
  <2>2. PICK policy : policy = neuAccessPolicy
    OBVIOUS
  <2>3. /\ rule.subject = <<"commitment", n>> /\ rule.role = "neumarkIssuer"
        /\ rule.object = NEUMARK /\ rule.state = "Allow"
    BY DEF Allow
  <2>. HIDE DEF rule
  <2>4. rule.subject # EVERYONE
    BY <2>3 DEF EVERYONE, Zero
  <2>5. rule.subject # <<"commitment", m>> \/ rule.subject = <<"commitment", m>>
    OBVIOUS
  <2>6. canIssueNEU(policy, m)'
    BY <1>1, <1>5, <2>1, <2>2, <2>3, <2>4, <2>5, IssuerKept
  <2>7. neuAccessPolicy' = policy
    BY <1>1, <2>2 DEF neuAccessPolicy
  <2>. QED BY <2>6, <2>7 DEF canIssueNEU
<1>9. ~isolated => canIssueNEU(neuAccessPolicy, n)'
  BY <1>1, <1>7 DEF neuAccessPolicy, canIssueNEU
<1>10. ToldOK'
  <2>1. SUFFICES ASSUME NEW m \in Numbers
                 PROVE  /\ offerings'[m].told # "nothing" => offerings'[m].registered /\ Registered(m)'
                        /\ offerings'[m].told = "may issue" /\ ~isolated => canIssueNEU(neuAccessPolicy, m)'
                        /\ TicketsUpTo(offerings'[m].whitelist, offerings'[m].listed,
                                       Len(offerings'[m].listed))
    BY <1>1, <1>4 DEF ToldOK
  <2>2. Registered(m)' = Registered(m)
    BY <1>1 DEF Registered, InUniverse
  <2>3. CASE m # n
    BY <1>4, <1>8, <2>2, <2>3 DEF SetupIInv, ToldOK
  <2>4. CASE m = n
    BY <1>2, <1>3, <1>4, <1>9, <2>2, <2>4 DEF SetupIInv, ToldOK
  <2>. QED BY <2>3, <2>4
<1>. QED BY <1>1, <1>6, <1>10, IdleIsQuiet DEF SetupIInv

-----------------------------------------------------------------------------
(* The steps of deployWhitelist *)

\* The rows of one transaction are the next ones of the file.
LEMMA ChunkRows ==
    ASSUME NEW file \in Files, NEW row \in Nat \ {0}, row <= Len(file) + 1
    PROVE  LET chunk == ChunkAt(file, row)
               end == IF row + Chunk - 1 < Len(file) THEN row + Chunk - 1 ELSE Len(file)
           IN /\ end \in row - 1 .. Len(file)
              /\ DOMAIN chunk = 1 .. end - row + 1
              /\ \A k \in 1 .. end - row + 1 : chunk[k] = file[row + k - 1]
<1> DEFINE end == IF row + Chunk - 1 < Len(file) THEN row + Chunk - 1 ELSE Len(file)
<1>1. file \in Seq(Rows) /\ Len(file) \in Nat /\ Chunk \in Nat \ {0}
  BY FilesAssumption, ChunkAssumption
<1>2. end \in row - 1 .. Len(file)
  BY <1>1
<1>3. ChunkAt(file, row) = SubSeq(file, row, end)
  BY DEF ChunkAt
<1>. HIDE DEF end
<1>4. \A i \in row .. end : file[i] \in Rows
  BY <1>1, <1>2
<1>5. /\ SubSeq(file, row, end) \in Seq(Rows)
      /\ Len(SubSeq(file, row, end)) = IF row <= end THEN end - row + 1 ELSE 0
      /\ \A k \in 1 .. end - row + 1 : SubSeq(file, row, end)[k] = file[row + k - 1]
  BY <1>1, <1>2, <1>4, SubSeqProperties
<1>6. DOMAIN SubSeq(file, row, end) = 1 .. end - row + 1
  BY <1>2, <1>5, LenProperties
<1>. QED BY <1>2, <1>3, <1>5, <1>6 DEF end

\* The whitelist after one transaction has the tickets of the file up to its last row.
LEMMA ListedTickets ==
    ASSUME NEW file \in Files, NEW row \in Nat \ {0}, row <= Len(file) + 1,
           NEW whitelist, DOMAIN whitelist = Investors, TicketsUpTo(whitelist, file, row - 1)
    PROVE  TicketsUpTo(Listed(whitelist, ChunkAt(file, row)), file,
                       IF row + Chunk - 1 < Len(file) THEN row + Chunk - 1 ELSE Len(file))
<1> DEFINE end == IF row + Chunk - 1 < Len(file) THEN row + Chunk - 1 ELSE Len(file)
           chunk == ChunkAt(file, row)
           after == Listed(whitelist, chunk)
<1>1. /\ end \in row - 1 .. Len(file)
      /\ DOMAIN chunk = 1 .. end - row + 1
      /\ \A k \in 1 .. end - row + 1 : chunk[k] = file[row + k - 1]
  BY ChunkRows
<1>2. file \in Seq(Rows) /\ Len(file) \in Nat
  BY FilesAssumption
<1>3. /\ DOMAIN after = Investors
      /\ \A investor \in Investors :
           after[investor] = IF \E k \in DOMAIN chunk : LastOf(investor, k, chunk)
                             THEN TicketOf(chunk[CHOOSE k \in DOMAIN chunk : LastOf(investor, k, chunk)])
                             ELSE whitelist[investor]
  BY DEF Listed
<1>. HIDE DEF end, chunk, after
<1>. SUFFICES ASSUME NEW i \in 1 .. end,
                     ~\E j \in i + 1 .. end : file[j].investor = file[i].investor
              PROVE  after[file[i].investor] = TicketOf(file[i])
  BY DEF TicketsUpTo, end, chunk, after
<1> DEFINE investor == file[i].investor
<1>4. file[i] \in Rows /\ investor \in Investors
  <2>1. i \in 1 .. Len(file)
    BY <1>1
  <2>2. file[i] \in Rows
    BY <1>2, <2>1
  <2>. QED BY <2>2 DEF Rows
<1>5. CASE i >= row
  <2>1. i - row + 1 \in DOMAIN chunk /\ chunk[i - row + 1] = file[i]
    BY <1>1, <1>5
  <2>2. \A k \in DOMAIN chunk : k > i - row + 1 => chunk[k].investor # investor
    <3>1. SUFFICES ASSUME NEW k \in DOMAIN chunk, k > i - row + 1
                   PROVE  chunk[k].investor # investor
      OBVIOUS
    <3>2. row + k - 1 \in i + 1 .. end /\ chunk[k] = file[row + k - 1]
      BY <1>1, <1>5, <3>1
    <3>. QED BY <3>2
  <2>3. LastOf(investor, i - row + 1, chunk)
    BY <2>1, <2>2 DEF LastOf
  <2>4. \A k \in DOMAIN chunk : LastOf(investor, k, chunk) => k = i - row + 1
    <3>1. SUFFICES ASSUME NEW k \in DOMAIN chunk, LastOf(investor, k, chunk), k # i - row + 1
                   PROVE  FALSE
      OBVIOUS
    <3>2. k < i - row + 1
      <4>1. k \in Nat /\ i - row + 1 \in Int
        BY <1>1
      <4>2. chunk[k].investor = investor
        BY <3>1 DEF LastOf
      <4>3. ~(k > i - row + 1)
        BY <2>2, <4>2
      <4>. QED BY <3>1, <4>1, <4>3
    <3>. QED BY <2>1, <3>1, <3>2 DEF LastOf
  <2>5. (CHOOSE k \in DOMAIN chunk : LastOf(investor, k, chunk)) = i - row + 1
    BY <2>1, <2>3, <2>4
  <2>. QED BY <1>3, <1>4, <2>1, <2>3, <2>5
<1>6. CASE i < row
  <2>1. \A k \in DOMAIN chunk : chunk[k].investor # investor
    <3>1. SUFFICES ASSUME NEW k \in DOMAIN chunk PROVE chunk[k].investor # investor
      OBVIOUS
    <3>2. row + k - 1 \in i + 1 .. end /\ chunk[k] = file[row + k - 1]
      BY <1>1, <1>6, <3>1
    <3>. QED BY <3>2
  <2>2. after[investor] = whitelist[investor]
    BY <1>3, <1>4, <2>1 DEF LastOf
  <2>3. i \in 1 .. row - 1 /\ ~\E j \in i + 1 .. row - 1 : file[j].investor = investor
    BY <1>1, <1>6
  <2>. QED BY <2>2, <2>3 DEF TicketsUpTo
<1>. QED BY <1>1, <1>5, <1>6

\* A valid row of a whitelist makes a ticket.
LEMMA TicketType ==
    ASSUME NEW r, RowIsValid(r)
    PROVE  TicketOf(r) \in [slot : Nat, frac : 0 .. 100]
<1>1. r.slot \in Nat /\ 100 - r.discount \in 0 .. 100
  BY DEF RowIsValid
<1>. QED BY <1>1 DEF TicketOf

\* A whitelist of valid rows has tickets with a slot and a part of the price.
LEMMA ListedType ==
    ASSUME NEW file \in Files, NEW row \in Nat \ {0}, row <= Len(file) + 1,
           \A i \in DOMAIN file : RowIsValid(file[i]),
           NEW whitelist \in [Investors -> [slot : Nat, frac : 0 .. 100]]
    PROVE  Listed(whitelist, ChunkAt(file, row)) \in [Investors -> [slot : Nat, frac : 0 .. 100]]
<1> DEFINE end == IF row + Chunk - 1 < Len(file) THEN row + Chunk - 1 ELSE Len(file)
           chunk == ChunkAt(file, row)
<1>1. /\ end \in row - 1 .. Len(file)
      /\ DOMAIN chunk = 1 .. end - row + 1
      /\ \A k \in 1 .. end - row + 1 : chunk[k] = file[row + k - 1]
  BY ChunkRows
<1>2. file \in Seq(Rows) /\ Len(file) \in Nat /\ DOMAIN file = 1 .. Len(file)
  BY FilesAssumption
<1>. HIDE DEF end
<1>3. \A k \in DOMAIN chunk : TicketOf(chunk[k]) \in [slot : Nat, frac : 0 .. 100]
  <2>1. SUFFICES ASSUME NEW k \in 1 .. end - row + 1
                 PROVE  TicketOf(file[row + k - 1]) \in [slot : Nat, frac : 0 .. 100]
    BY <1>1
  <2>2. row + k - 1 \in DOMAIN file
    BY <1>1, <1>2
  <2>3. RowIsValid(file[row + k - 1])
    BY <2>2
  <2>. QED BY <2>3, TicketType
<1>. QED BY <1>3 DEF Listed

\* Starting deployWhitelist.
LEMMA BeginWhitelistKeeps == SetupIInv /\ BeginWhitelist => SetupIInv'
<1>. SUFFICES ASSUME SetupIInv, BeginWhitelist PROVE SetupIInv'
  OBVIOUS
<1>1. PICK n \in Numbers, file \in Files :
        /\ \A i \in DOMAIN file : RowIsValid(file[i])
        /\ script' = [Idle EXCEPT !.name = "deployWhitelist", !.offering = n, !.file = file, !.row = 1]
        /\ offerings' = [offerings EXCEPT ![n] = [offerings[n] EXCEPT !.listed = NoFile]]
        /\ Spends("scripts")
  BY DEF BeginWhitelist, Starts
<1>2. collections' = collections /\ isolated' = isolated /\ access' = access
  BY DEF BeginWhitelist, platform
<1> DEFINE o == [offerings[n] EXCEPT !.listed = NoFile]
<1>3. /\ o \in Offerings /\ o.registered = offerings[n].registered /\ o.told = offerings[n].told
      /\ o.whitelist = offerings[n].whitelist /\ o.listed = NoFile
  BY OfferingType DEF SetupIInv, Offerings
<1>4. offerings' = [offerings EXCEPT ![n] = o]
  BY <1>1
<1>. HIDE DEF o
<1>5. /\ offerings' \in Seq(Offerings) /\ Numbers' = Numbers /\ offerings'[n] = o
      /\ \A m \in Numbers \ {n} : offerings'[m] = offerings[m]
  BY <1>3, <1>4, OfferingSet DEF SetupIInv
<1>6. /\ DOMAIN script' = {"name", "offering", "next", "canControlNeu", "file", "row"}
      /\ script'.name = "deployWhitelist" /\ script'.offering = n /\ script'.file = file
      /\ script'.row = 1
  BY <1>1 DEF Idle
<1>7. n \in Nat /\ Len(file) \in Nat
  BY FilesAssumption DEF SetupIInv, SetupTypeOK, Numbers
<1>8. SetupTypeOK'
  BY <1>1, <1>2, <1>5, <1>6, <1>7, BudgetSpent DEF SetupIInv, SetupTypeOK, neuAccessPolicy
<1>9. DeploysOK'
  BY <1>6 DEF DeploysOK
<1>10. ListsOK'
  <2>1. TicketsUpTo(offerings'[n].whitelist, file, 0)
    BY DEF TicketsUpTo
  <2>. QED BY <1>1, <1>3, <1>5, <1>6, <1>7, <2>1 DEF ListsOK
<1>11. ToldOK'
  <2>1. SUFFICES ASSUME NEW m \in Numbers
                 PROVE  /\ offerings'[m].told # "nothing" => offerings'[m].registered /\ Registered(m)'
                        /\ offerings'[m].told = "may issue" /\ ~isolated => canIssueNEU(neuAccessPolicy, m)'
                        /\ TicketsUpTo(offerings'[m].whitelist, offerings'[m].listed,
                                       Len(offerings'[m].listed))
    BY <1>2, <1>5 DEF ToldOK
  <2>2. Registered(m)' = Registered(m) /\ canIssueNEU(neuAccessPolicy, m)' = canIssueNEU(neuAccessPolicy, m)
    BY <1>2 DEF Registered, InUniverse, canIssueNEU, neuAccessPolicy
  <2>3. CASE m # n
    BY <1>5, <2>2, <2>3 DEF SetupIInv, ToldOK
  <2>4. CASE m = n
    <3>1. Len(offerings'[n].listed) = 0
      BY <1>3, <1>5, EmptySeq DEF NoFile
    <3>2. TicketsUpTo(offerings'[n].whitelist, offerings'[n].listed, Len(offerings'[n].listed))
      BY <3>1 DEF TicketsUpTo
    <3>. QED BY <1>3, <1>5, <2>2, <2>4, <3>2 DEF SetupIInv, ToldOK
  <2>. QED BY <2>3, <2>4
<1>. QED BY <1>8, <1>9, <1>10, <1>11 DEF SetupIInv

\* deployWhitelist sends one batch of a file.
LEMMA AddWhitelistedKeeps == SetupIInv /\ AddWhitelisted => SetupIInv'
<1>. SUFFICES ASSUME SetupIInv, AddWhitelisted PROVE SetupIInv'
  OBVIOUS
<1>0. PICK n, file, row : n = script.offering /\ file = script.file /\ row = script.row
  OBVIOUS
<1> DEFINE end == IF row + Chunk - 1 < Len(file) THEN row + Chunk - 1 ELSE Len(file)
           last == row + Chunk > Len(file)
           whitelist == Listed(offerings[n].whitelist, ChunkAt(file, row))
           o == [offerings[n] EXCEPT !.whitelist = whitelist, !.listed = IF last THEN file ELSE @]
<1>1. /\ n \in Numbers /\ file \in Files /\ \A i \in DOMAIN file : RowIsValid(file[i])
      /\ row \in Nat \ {0} /\ row <= Len(file) + 1 /\ offerings[n].listed = NoFile
      /\ TicketsUpTo(offerings[n].whitelist, file, row - 1) /\ script.name = "deployWhitelist"
  BY <1>0 DEF SetupIInv, SetupTypeOK, ListsOK, AddWhitelisted, ChunkAccepted
<1>2. /\ collections' = collections /\ isolated' = isolated /\ access' = access /\ budget' = budget
      /\ offerings' = [offerings EXCEPT ![n] = o]
      /\ script' = IF last THEN Idle ELSE [script EXCEPT !.row = @ + Chunk]
  BY <1>0 DEF AddWhitelisted, platform, Stops
<1>3. Len(file) \in Nat /\ Chunk \in Nat \ {0} /\ n \in Nat
  BY <1>1, FilesAssumption, ChunkAssumption DEF SetupIInv, SetupTypeOK, Numbers
<1>4. offerings[n] \in Offerings
  BY <1>1, OfferingType DEF SetupIInv
<1>5. /\ whitelist \in [Investors -> [slot : Nat, frac : 0 .. 100]]
      /\ TicketsUpTo(whitelist, file, end)
  BY <1>1, <1>4, ListedType, ListedTickets DEF Offerings
<1>. HIDE DEF whitelist, end
<1>6. /\ o \in Offerings /\ o.registered = offerings[n].registered /\ o.told = offerings[n].told
      /\ o.whitelist = whitelist /\ o.listed = IF last THEN file ELSE NoFile
  BY <1>1, <1>4, <1>5 DEF Offerings
<1>. HIDE DEF o
<1>7. /\ offerings' \in Seq(Offerings) /\ Numbers' = Numbers /\ offerings'[n] = o
      /\ \A m \in Numbers \ {n} : offerings'[m] = offerings[m]
  BY <1>1, <1>2, <1>6, OfferingSet DEF SetupIInv
<1>8. /\ DOMAIN script' = {"name", "offering", "next", "canControlNeu", "file", "row"}
      /\ script'.offering \in Nat /\ script'.row \in Nat
      /\ DeploysOK' /\ ListsOK'
  <2>1. CASE last
    BY <1>2, <2>1, IdleIsQuiet DEF SetupIInv
  <2>2. CASE ~last
    <3>1. script' = [script EXCEPT !.row = script.row + Chunk]
      BY <1>2, <2>2
    <3>2. DOMAIN script = {"name", "offering", "next", "canControlNeu", "file", "row"}
      BY DEF SetupIInv, SetupTypeOK
    <3>. HIDE DEF last
    <3>3. /\ DOMAIN script' = {"name", "offering", "next", "canControlNeu", "file", "row"}
          /\ script'.offering = n /\ script'.row = row + Chunk /\ script'.file = file
          /\ script'.name = "deployWhitelist"
      BY <1>0, <1>1, <3>1, <3>2
    <3>4. row + Chunk <= Len(file) /\ end = row + Chunk - 1
      BY <1>1, <1>3, <2>2 DEF last, end
    <3>5. TicketsUpTo(whitelist, file, row + Chunk - 1)
      BY <1>5, <3>4
    <3>6. DeploysOK'
      BY <3>3 DEF DeploysOK
    <3>7. ListsOK'
      BY <1>1, <1>3, <1>6, <1>7, <2>2, <3>3, <3>4, <3>5 DEF ListsOK
    <3>. QED BY <1>1, <1>3, <3>3, <3>6, <3>7
  <2>. QED BY <2>1, <2>2
<1>9. SetupTypeOK'
  BY <1>2, <1>7, <1>8 DEF SetupIInv, SetupTypeOK, neuAccessPolicy
<1>10. ToldOK'
  <2>1. SUFFICES ASSUME NEW m \in Numbers
                 PROVE  /\ offerings'[m].told # "nothing" => offerings'[m].registered /\ Registered(m)'
                        /\ offerings'[m].told = "may issue" /\ ~isolated => canIssueNEU(neuAccessPolicy, m)'
                        /\ TicketsUpTo(offerings'[m].whitelist, offerings'[m].listed,
                                       Len(offerings'[m].listed))
    BY <1>2, <1>7 DEF ToldOK
  <2>2. Registered(m)' = Registered(m) /\ canIssueNEU(neuAccessPolicy, m)' = canIssueNEU(neuAccessPolicy, m)
    BY <1>2 DEF Registered, InUniverse, canIssueNEU, neuAccessPolicy
  <2>3. CASE m # n
    BY <1>7, <2>2, <2>3 DEF SetupIInv, ToldOK
  <2>4. CASE m = n
    <3>1. TicketsUpTo(offerings'[n].whitelist, offerings'[n].listed, Len(offerings'[n].listed))
      <4>1. CASE last
        <5>1. end = Len(file)
          BY <1>1, <1>3, <4>1 DEF end
        <5>. QED BY <1>5, <1>6, <1>7, <4>1, <5>1
      <4>2. CASE ~last
        <5>1. Len(offerings'[n].listed) = 0
          BY <1>6, <1>7, <4>2, EmptySeq DEF NoFile
        <5>. QED BY <5>1 DEF TicketsUpTo
      <4>. QED BY <4>1, <4>2
    <3>. QED BY <1>6, <1>7, <2>2, <2>4, <3>1 DEF SetupIInv, ToldOK
  <2>. QED BY <2>3, <2>4
<1>. QED BY <1>8, <1>9, <1>10 DEF SetupIInv

-----------------------------------------------------------------------------
(* The other scripts, and scripts that stop *)

\* The script that deploys the constraints of offerings.
LEMMA ConstraintsKeep == SetupIInv /\ (BeginConstraints \/ DeployConstraints) => SetupIInv'
<1>1. ASSUME SetupIInv, BeginConstraints PROVE SetupIInv'
  <2>1. /\ collections' = collections /\ isolated' = isolated /\ access' = access
        /\ offerings' = offerings /\ Spends("scripts")
    BY <1>1 DEF BeginConstraints, Starts, platform
  <2>2. /\ DOMAIN script' = {"name", "offering", "next", "canControlNeu", "file", "row"}
        /\ script'.offering = 0 /\ script'.row = 0 /\ script'.name = "deployETOTermsConstraints"
    BY <1>1 DEF BeginConstraints, Starts, Idle
  <2>3. DeploysOK' /\ ListsOK'
    BY <2>2 DEF DeploysOK, ListsOK
  <2>. QED BY <1>1, <2>1, <2>2, <2>3, QuietSetup, BudgetSpent DEF SetupIInv
<1>2. ASSUME SetupIInv, DeployConstraints PROVE SetupIInv'
  <2>1. /\ collections \subseteq collections' /\ isolated' = isolated /\ access' = access
        /\ offerings' = offerings /\ budget' = budget /\ script' = Idle
    BY <1>2 DEF DeployConstraints, Stops
  <2>2. budget' \in [scripts : Nat, stops : Nat, changes : Nat, investments : Nat, cancels : Nat]
    BY <1>2, <2>1 DEF SetupIInv, SetupTypeOK
  <2>. QED BY <1>2, <2>1, <2>2, QuietSetup, IdleIsQuiet DEF SetupIInv
<1>. QED BY <1>1, <1>2

\* A script stops, by an exception or from outside.
LEMMA StopsKeep == SetupIInv /\ (Throw \/ StopScript) => SetupIInv'
<1>. SUFFICES ASSUME SetupIInv, Throw \/ StopScript PROVE SetupIInv'
  OBVIOUS
<1>1. /\ collections' = collections /\ isolated' = isolated /\ access' = access
      /\ offerings' = offerings /\ script' = Idle
  BY DEF Throw, StopScript, Stops, platform
<1>2. budget' \in [scripts : Nat, stops : Nat, changes : Nat, investments : Nat, cancels : Nat]
  <2>1. CASE Throw
    BY <2>1 DEF Throw, SetupIInv, SetupTypeOK
  <2>2. CASE StopScript
    BY <2>2, BudgetSpent DEF StopScript, SetupIInv
  <2>. QED BY <2>1, <2>2
<1>. QED BY <1>1, <1>2, QuietSetup, IdleIsQuiet DEF SetupIInv

-----------------------------------------------------------------------------
(* The parties *)

\* A role that is not the issuer's is given or taken back.
LEMMA ChangeRightKeeps == SetupIInv /\ ChangeRight => SetupIInv'
<1>. SUFFICES ASSUME SetupIInv, ChangeRight PROVE SetupIInv'
  OBVIOUS
<1>1. /\ collections' = collections /\ isolated' = isolated /\ offerings' = offerings
      /\ script' = script /\ Spends("changes")
  BY DEF ChangeRight
<1>2. PICK right \in {<<accessPolicy, "universeManager", GLOBAL>>,
                      <<neuAccessPolicy, "accessController", neuAccessPolicy>>},
           state \in {"Unset", "Allow"} :
        access' = [access EXCEPT ![right[1]] =
                     SetUserRole(@, [Allow(DEPLOYER, right[2], right[3]) EXCEPT !.state = state])]
  BY DEF ChangeRight
<1> DEFINE rule == [Allow(DEPLOYER, right[2], right[3]) EXCEPT !.state = state]
           changed == right[1]
<1>3. changed \in {accessPolicy, neuAccessPolicy} /\ rule.role # "neumarkIssuer"
      /\ access' = [access EXCEPT ![changed] = SetUserRole(@, rule)]
  <2>1. rule.role # "neumarkIssuer"
    BY DEF Allow
  <2>. QED BY <1>2, <2>1
<1>. HIDE DEF rule, changed
<1>4. DOMAIN access = {accessPolicy, neuAccessPolicy}
  BY DEF SetupIInv, SetupTypeOK
<1>5. SetupTypeOK'
  BY <1>1, <1>3, <1>4, BudgetSpent DEF SetupIInv, SetupTypeOK, neuAccessPolicy
<1>6. OfferingsKept
  BY <1>1 DEF OfferingsKept, Numbers
<1>7. RightsKept
  <2>1. SUFFICES ASSUME NEW n \in Numbers, canIssueNEU(neuAccessPolicy, n)
                 PROVE  canIssueNEU(neuAccessPolicy, n)'
    BY DEF RightsKept
  <2>2. PICK policy : policy = neuAccessPolicy
    OBVIOUS
  <2>3. canIssueNEU(policy, n)'
    BY <1>3, <1>4, <2>1, <2>2, IssuerKept
  <2>4. neuAccessPolicy' = policy
    BY <1>1, <2>2 DEF neuAccessPolicy
  <2>. QED BY <2>3, <2>4 DEF canIssueNEU
<1>. QED BY <1>1, <1>5, <1>6, <1>7, ToldKept, ScriptKept DEF SetupIInv

\* The access controller gives the role a script asked for.
LEMMA GiveIssuerRoleKeeps ==
    ASSUME SetupIInv, NEW n \in Numbers, GiveIssuerRole(n)
    PROVE  SetupIInv'
<1> DEFINE rule == Allow(<<"commitment", n>>, "neumarkIssuer", NEUMARK)
<1>1. /\ collections' = collections /\ isolated' = isolated /\ offerings' = offerings
      /\ script' = script /\ budget' = budget
      /\ access' = [access EXCEPT ![neuAccessPolicy] = SetUserRole(@, rule)]
  BY DEF GiveIssuerRole
<1>2. /\ rule.subject = <<"commitment", n>> /\ rule.role = "neumarkIssuer"
      /\ rule.object = NEUMARK /\ rule.state = "Allow"
  BY DEF Allow
<1>. HIDE DEF rule
<1>3. neuAccessPolicy \in DOMAIN access
  BY DEF SetupIInv, SetupTypeOK
<1>4. SetupTypeOK'
  BY <1>1, <1>3 DEF SetupIInv, SetupTypeOK, neuAccessPolicy
<1>5. OfferingsKept
  BY <1>1 DEF OfferingsKept, Numbers
<1>6. RightsKept
  <2>1. SUFFICES ASSUME NEW m \in Numbers, canIssueNEU(neuAccessPolicy, m)
                 PROVE  canIssueNEU(neuAccessPolicy, m)'
    BY DEF RightsKept
  <2>2. PICK policy : policy = neuAccessPolicy
    OBVIOUS
  <2>3. rule.subject # EVERYONE
    BY <1>2 DEF EVERYONE, Zero
  <2>4. rule.subject # <<"commitment", m>> \/ rule.subject = <<"commitment", m>>
    OBVIOUS
  <2>5. canIssueNEU(policy, m)'
    BY <1>1, <1>2, <1>3, <2>1, <2>2, <2>3, <2>4, IssuerKept
  <2>6. neuAccessPolicy' = policy
    BY <1>1, <2>2 DEF neuAccessPolicy
  <2>. QED BY <2>5, <2>6 DEF canIssueNEU
<1>. QED BY <1>1, <1>4, <1>5, <1>6, ToldKept, ScriptKept DEF SetupIInv

\* The nominee, the company or the clock changes one offering, and nothing a script told.
LEMMA OfferingStepKeeps ==
    ASSUME SetupIInv, NEW n \in Numbers,
           AmendAgreements(n) \/ SetStartDate(n) \/ TimePasses(n)
    PROVE  SetupIInv'
<1>1. /\ collections' = collections /\ isolated' = isolated /\ access' = access
      /\ script' = script /\ budget' = budget
  BY DEF AmendAgreements, SetStartDate, TimePasses, platform
<1>2. offerings[n] \in Offerings
  BY OfferingType DEF SetupIInv
<1>3. PICK o \in Offerings :
        /\ offerings' = [offerings EXCEPT ![n] = o]
        /\ o.told = offerings[n].told /\ o.registered = offerings[n].registered
        /\ o.whitelist = offerings[n].whitelist /\ o.listed = offerings[n].listed
  <2>1. CASE AmendAgreements(n)
    <3>1. PICK contract \in {"commitment", "equityToken"} :
            offerings' = [offerings EXCEPT ![n].agreements = @ \cup {contract}]
      BY <2>1 DEF AmendAgreements
    <3> DEFINE o == [offerings[n] EXCEPT !.agreements = @ \cup {contract}]
    <3>2. /\ o \in Offerings /\ o.told = offerings[n].told
          /\ o.registered = offerings[n].registered
          /\ o.whitelist = offerings[n].whitelist /\ o.listed = offerings[n].listed
      BY <1>2 DEF Offerings
    <3>3. offerings' = [offerings EXCEPT ![n] = o]
      BY <3>1
    <3>. QED BY <3>2, <3>3
  <2>2. CASE SetStartDate(n)
    <3> DEFINE o == [offerings[n] EXCEPT !.state = "Whitelist"]
    <3>1. /\ o \in Offerings /\ o.told = offerings[n].told
          /\ o.registered = offerings[n].registered
          /\ o.whitelist = offerings[n].whitelist /\ o.listed = offerings[n].listed
      BY <1>2 DEF Offerings
    <3>2. offerings' = [offerings EXCEPT ![n] = o]
      BY <2>2 DEF SetStartDate
    <3>. QED BY <3>1, <3>2
  <2>3. CASE TimePasses(n)
    <3> DEFINE o == [offerings[n] EXCEPT !.state = IF @ = "Whitelist" THEN "Public" ELSE "Signing"]
    <3>1. /\ o \in Offerings /\ o.told = offerings[n].told
          /\ o.registered = offerings[n].registered
          /\ o.whitelist = offerings[n].whitelist /\ o.listed = offerings[n].listed
      BY <1>2 DEF Offerings
    <3>2. offerings' = [offerings EXCEPT ![n] = o]
      BY <2>3 DEF TimePasses
    <3>. QED BY <3>1, <3>2
  <2>. QED BY <2>1, <2>2, <2>3
<1>4. /\ offerings' \in Seq(Offerings) /\ Numbers' = Numbers
      /\ Len(offerings') = Len(offerings) /\ offerings'[n] = o
      /\ \A m \in Numbers \ {n} : offerings'[m] = offerings[m]
  BY <1>3, OfferingSet DEF SetupIInv
<1>5. SetupTypeOK'
  BY <1>1, <1>4 DEF SetupIInv, SetupTypeOK, neuAccessPolicy
<1>6. OfferingsKept
  <2>1. SUFFICES ASSUME NEW m \in Numbers
                 PROVE  /\ offerings'[m].told = offerings[m].told
                        /\ offerings[m].registered => offerings'[m].registered
                        /\ offerings'[m].whitelist = offerings[m].whitelist
                        /\ offerings'[m].listed = offerings[m].listed
    BY <1>4 DEF OfferingsKept
  <2>2. CASE m = n
    BY <1>3, <1>4, <2>2
  <2>3. CASE m # n
    BY <1>4, <2>3
  <2>. QED BY <2>2, <2>3
<1>7. RightsKept
  BY <1>1 DEF RightsKept, canIssueNEU, neuAccessPolicy
<1>. QED BY <1>1, <1>5, <1>6, <1>7, ToldKept, ScriptKept DEF SetupIInv

-----------------------------------------------------------------------------
\* Every step of the scripts and of the parties of an offering.
LEMMA SetupStepKeeps == SetupIInv /\ (Scripts \/ Parties) => SetupIInv'
<1>1. SetupIInv /\ Scripts => SetupIInv'
  BY ConstraintsKeep, BeginETOKeeps, CreateContractsKeeps, RegisterContractsKeeps,
     StartNewOfferingKeeps, AllowIssuerKeeps, BeginWhitelistKeeps, AddWhitelistedKeeps,
     StopsKeep DEF Scripts
<1>2. SetupIInv /\ Parties => SetupIInv'
  BY ChangeRightKeeps, GiveIssuerRoleKeeps, OfferingStepKeeps DEF Parties
<1>. QED BY <1>1, <1>2

\* What happens beside the set-up uses up bounds at most.
LEMMA BesideSetupKeeps ==
    ASSUME SetupIInv, UNCHANGED <<platform, offerings, script>>,
           \/ budget' = budget
           \/ \E what \in {"changes", "investments", "cancels"} : Spends(what)
    PROVE  SetupIInv'
<1>1. /\ collections' = collections /\ isolated' = isolated /\ access' = access
      /\ offerings' = offerings /\ script' = script
  BY DEF platform
<1>2. OfferingsKept
  BY <1>1 DEF OfferingsKept, Numbers
<1>3. DeploysOK' /\ ListsOK'
  BY <1>1, <1>2, ScriptKept
<1>4. budget' \in [scripts : Nat, stops : Nat, changes : Nat, investments : Nat, cancels : Nat]
  <2>1. CASE budget' = budget
    BY <2>1 DEF SetupIInv, SetupTypeOK
  <2>2. CASE budget' # budget
    BY <2>2, BudgetSpent DEF SetupIInv
  <2>. QED BY <2>1, <2>2
<1>. QED BY <1>1, <1>3, <1>4, QuietSetup DEF SetupIInv, SetupTypeOK

-----------------------------------------------------------------------------
(***************************************************************************)
(* Investing.                                                              *)
(***************************************************************************)
Money == [eth : Nat, etht : Nat, eur : Nat, ticket : Nat, nonce : Nat]

InCollections(n) == <<"commitment", <<"commitment", n>> >> \in collections

\* The transaction succeeds in the world the script estimated it in.
SeenAccepts(tx) ==
    /\ IF tx.currency = "ETH" THEN tx.seen.etht + tx.value >= Amount ELSE tx.seen.eur >= Amount
    /\ tx.seen.offering.state \in {"Whitelist", "Public"}
    /\ tx.currency = "ETH" => tx.seen.around.fresh
    /\ tx.seen.around.verified /\ tx.seen.around.room
    /\ tx.seen.offering.state = "Whitelist" => tx.seen.offering.whitelist[Me].frac > 0
    /\ tx.seen.neu

\* An investment that waits completes the wrapped ether the script read, and was estimated.
Estimated(tx) ==
    /\ tx.value \in Nat
    /\ tx.currency \in {"ETH", "EUR"}
    /\ tx.currency = "ETH" =>
         /\ tx.readEtht \in Nat
         /\ tx.value = IF tx.readEtht >= Amount THEN 0 ELSE Amount - tx.readEtht
    /\ InCollections(tx.offering)
    /\ SeenAccepts(tx)

\* The pool of pending transactions: one for each nonce, none used and none left out.
PoolOK ==
    /\ IsFiniteSet(pending)
    /\ \A tx \in pending : /\ tx.kind \in {"invest", "cancel"}
                           /\ tx.nonce \in Nat
                           /\ account.nonce <= tx.nonce /\ tx.nonce < NextNonce
    /\ \A tx, ty \in pending : tx.nonce = ty.nonce => tx = ty

\* What waits was estimated, or calls off investments of its own nonce.
PendingOK ==
    \A tx \in pending :
      /\ tx.kind = "invest" => Estimated(tx)
      /\ tx.kind = "cancel" => \A called \in tx.calledOff : called.kind = "invest"
                                                            /\ called.nonce = tx.nonce

\* What the two scripts have read is of the account and of its past.
ScriptsOK ==
    /\ run.at \in {"idle", "confirm", "sent"}
    /\ run.at = "confirm" => /\ run.etht \in Nat /\ run.currency \in {"ETH", "EUR"}
                             /\ InCollections(run.offering)
    /\ cancel # Nothing => cancel[1] \in Nat /\ cancel[1] <= account.nonce

IInv == account \in Money /\ PoolOK /\ PendingOK /\ ScriptsOK

-----------------------------------------------------------------------------
\* The outcome depends on what the estimate saw, and on nothing else that can be lost.
LEMMA SeenDecides ==
    ASSUME NEW tx, SeenAccepts(tx), InCollections(tx.offering), World(tx.offering) = tx.seen
    PROVE  Succeeds(tx)
<1>1. /\ tx.seen.etht = account.etht /\ tx.seen.eur = account.eur
      /\ tx.seen.around = around /\ tx.seen.offering = offerings[tx.offering]
      /\ tx.seen.neu = canIssueNEU(neuAccessPolicy, tx.offering)
  BY DEF World
<1>2. canIssueNEU(neuAccessPolicy, tx.offering)
  BY <1>1, Zenon DEF SeenAccepts
<1>3. tokenFallback(tx.offering, tx.currency)
  BY <1>1, <1>2 DEF SeenAccepts, tokenFallback, isWhitelisted
<1>. QED BY <1>1, <1>3 DEF SeenAccepts, Succeeds, InCollections

\* A transaction that succeeds in the world it was estimated in was estimated to succeed.
LEMMA SentIsSeen ==
    ASSUME NEW tx, Succeeds(tx), tx.seen = World(tx.offering)
    PROVE  SeenAccepts(tx)
<1>1. /\ tx.seen.etht = account.etht /\ tx.seen.eur = account.eur
      /\ tx.seen.around = around /\ tx.seen.offering = offerings[tx.offering]
      /\ tx.seen.neu = canIssueNEU(neuAccessPolicy, tx.offering)
  BY DEF World
<1>2. canIssueNEU(neuAccessPolicy, tx.offering)
  BY DEF Succeeds, tokenFallback
<1>3. tx.seen.neu
  BY <1>1, <1>2, Zenon
<1>. QED BY <1>1, <1>3 DEF Succeeds, tokenFallback, isWhitelisted, SeenAccepts

\* No script and no party takes anything out of the universe.
LEMMA CollectionsGrow ==
    ASSUME [Next]_vars
    PROVE  collections \subseteq collections'
<1>1. CASE Scripts
  BY <1>1 DEF Scripts, BeginConstraints, DeployConstraints, BeginETO, CreateContracts,
              RegisterContracts, StartNewOffering, AllowIssuer, BeginWhitelist, AddWhitelisted,
              Throw, StopScript, platform
<1>2. CASE Parties
  BY <1>2 DEF Parties, ChangeRight, GiveIssuerRole, AmendAgreements, SetStartDate, TimePasses,
              platform
<1>3. CASE Invests
  BY <1>3 DEF Invests, CheckInvestment, SendInvestment, AbandonInvestment, EndInvestment,
              BeginCancel, SubmitCancel, AbandonCancel, MineInvestment, MineCancel, Change,
              platform, setupVars
<1>4. CASE UNCHANGED vars
  BY <1>4 DEF vars, setupVars, platform
<1>. QED BY <1>1, <1>2, <1>3, <1>4 DEF Next

-----------------------------------------------------------------------------
\* The invariant, one lemma for each thing that can happen to the pool

\* Before anything was sent.
LEMMA InitIInv == Init => IInv
<1>. SUFFICES ASSUME Init PROVE IInv
  OBVIOUS
<1>1. account \in Money
  BY FundsAssumption DEF Init, InvestInit, Money
<1>2. pending = {} /\ run = Waiting /\ cancel = Nothing
  BY DEF Init, InvestInit
<1>3. PoolOK /\ PendingOK
  BY <1>2, FS_EmptySet DEF PoolOK, PendingOK
<1>4. ScriptsOK
  BY <1>2 DEF ScriptsOK, Waiting
<1>. QED BY <1>1, <1>3, <1>4 DEF IInv

\* An estimate stays one when collections only grow.
LEMMA EstimatedStays ==
    ASSUME NEW tx, Estimated(tx), collections \subseteq collections'
    PROVE  Estimated(tx)'
  BY DEF Estimated, SeenAccepts, InCollections

\* Nothing is sent and nothing mined.
LEMMA PoolRests ==
    ASSUME PoolOK, PendingOK, collections \subseteq collections',
           account'.nonce = account.nonce, pending' = pending
    PROVE  PoolOK' /\ PendingOK'
<1>1. PoolOK'
  BY DEF PoolOK, NextNonce
<1>2. PendingOK'
  BY EstimatedStays DEF PendingOK
<1>. QED BY <1>1, <1>2

\* A transaction is sent with the next nonce, or with the first one if nothing waits for it.
LEMMA PoolGrows ==
    ASSUME IInv, NEW tx,
           collections \subseteq collections', account' = account, pending' = pending \cup {tx},
           tx.kind \in {"invest", "cancel"},
           \/ tx.nonce = NextNonce
           \/ tx.nonce = account.nonce /\ ~\E old \in pending : old.nonce = tx.nonce,
           tx.kind = "invest" => Estimated(tx)',
           tx.kind = "cancel" => \A called \in tx.calledOff : called.kind = "invest"
                                                              /\ called.nonce = tx.nonce
    PROVE  PoolOK' /\ PendingOK'
<1>1. /\ account.nonce \in Nat /\ Cardinality(pending) \in Nat /\ IsFiniteSet(pending)
      /\ NextNonce = account.nonce + Cardinality(pending)
  BY FS_CardinalityType DEF IInv, Money, PoolOK, NextNonce
<1>2. tx \notin pending
  BY <1>1 DEF IInv, PoolOK
<1>3. IsFiniteSet(pending') /\ Cardinality(pending') = Cardinality(pending) + 1
  BY <1>1, <1>2, FS_AddElement
<1>4. NextNonce' = NextNonce + 1
  BY <1>1, <1>3 DEF NextNonce
<1>5. PoolOK'
  BY <1>1, <1>3, <1>4 DEF IInv, PoolOK
<1>6. PendingOK'
  BY EstimatedStays DEF IInv, PendingOK
<1>. QED BY <1>5, <1>6

\* A cancellation takes the place of an investment.
LEMMA PoolReplaces ==
    ASSUME IInv, NEW tx, NEW old \in pending,
           collections \subseteq collections', account' = account,
           pending' = (pending \ {old}) \cup {tx},
           tx.kind = "cancel", tx.nonce = old.nonce, old.kind = "invest",
           \A called \in tx.calledOff : called.kind = "invest" /\ called.nonce = tx.nonce
    PROVE  PoolOK' /\ PendingOK'
<1>1. /\ account.nonce \in Nat /\ Cardinality(pending) \in Nat /\ IsFiniteSet(pending)
      /\ NextNonce = account.nonce + Cardinality(pending)
  BY FS_CardinalityType DEF IInv, Money, PoolOK, NextNonce
<1>2. tx \notin pending \ {old}
  BY DEF IInv, PoolOK
<1>3. IsFiniteSet(pending \ {old}) /\ Cardinality(pending \ {old}) = Cardinality(pending) - 1
  BY <1>1, FS_RemoveElement
<1>4. IsFiniteSet(pending') /\ Cardinality(pending') = Cardinality(pending)
  BY <1>1, <1>2, <1>3, FS_AddElement
<1>5. NextNonce' = NextNonce
  BY <1>4 DEF NextNonce
<1>6. PoolOK'
  BY <1>1, <1>4, <1>5 DEF IInv, PoolOK
<1>7. PendingOK'
  BY EstimatedStays DEF IInv, PendingOK
<1>. QED BY <1>6, <1>7

\* A miner takes the transaction with the next nonce of the account.
LEMMA PoolShrinks ==
    ASSUME IInv, NEW tx, Minable(tx), collections \subseteq collections',
           account'.nonce = account.nonce + 1, pending' = pending \ {tx}
    PROVE  PoolOK' /\ PendingOK'
<1>1. /\ account.nonce \in Nat /\ Cardinality(pending) \in Nat /\ IsFiniteSet(pending)
      /\ NextNonce = account.nonce + Cardinality(pending)
  BY FS_CardinalityType DEF IInv, Money, PoolOK, NextNonce
<1>2. tx \in pending /\ tx.nonce = account.nonce
  BY DEF Minable
<1>3. IsFiniteSet(pending') /\ Cardinality(pending') = Cardinality(pending) - 1
  BY <1>1, <1>2, FS_RemoveElement
<1>4. NextNonce' = NextNonce
  BY <1>1, <1>3 DEF NextNonce
<1>5. \A other \in pending' : other.nonce \in Nat /\ account.nonce + 1 <= other.nonce
  BY <1>1, <1>2 DEF IInv, PoolOK
<1>6. PoolOK'
  BY <1>1, <1>3, <1>4, <1>5 DEF IInv, PoolOK
<1>7. PendingOK'
  BY EstimatedStays DEF IInv, PendingOK
<1>. QED BY <1>6, <1>7

-----------------------------------------------------------------------------
(* The steps *)

\* The shape of a transaction of investIntoETO, and what the script checks before it sends it.
LEMMA WhatIsSent ==
    ASSUME IInv, run.at = "confirm", NEW price \in Prices, estimateGas(Investment(price))
    PROVE  LET tx == Investment(price)
           IN tx.kind = "invest" /\ tx.nonce = NextNonce /\ Estimated(tx)
<1> DEFINE tx == Investment(price)
<1>1. /\ tx.kind = "invest" /\ tx.nonce = NextNonce /\ tx.offering = run.offering
      /\ tx.currency = run.currency /\ tx.readEtht = run.etht /\ tx.seen = World(run.offering)
      /\ tx.value = IF run.currency = "ETH" THEN ethToSend ELSE 0
  BY DEF Investment
<1>2. Succeeds(tx)
  BY DEF estimateGas
<1>. HIDE DEF tx
<1>3. run.etht \in Nat /\ run.currency \in {"ETH", "EUR"} /\ InCollections(run.offering)
  BY DEF IInv, ScriptsOK
<1>4. SeenAccepts(tx) /\ InCollections(tx.offering)
  BY <1>1, <1>2, <1>3, SentIsSeen
<1>5. tx.value \in Nat
      /\ (tx.currency = "ETH" => tx.value = IF tx.readEtht >= Amount THEN 0 ELSE Amount - tx.readEtht)
  BY <1>1, <1>3, AmountAssumption DEF ethToSend
<1>6. Estimated(tx)
  BY <1>1, <1>3, <1>4, <1>5 DEF Estimated
<1>. QED BY <1>1, <1>6 DEF tx

\* The fields of the account.
LEMMA MoneyFields ==
    ASSUME account \in Money
    PROVE  /\ account.eth \in Nat /\ account.etht \in Nat /\ account.eur \in Nat
           /\ account.ticket \in Nat /\ account.nonce \in Nat
  BY DEF Money

\* The balances stay natural numbers and the nonce counts what was mined: the three outcomes.
LEMMA WhatIsMined ==
    ASSUME IInv, NEW tx, MineInvestment(tx) \/ MineCancel(tx)
    PROVE  /\ account' \in Money /\ account'.nonce = account.nonce + 1
           /\ \/ /\ account' = [account EXCEPT !.eth = @ - Fee, !.nonce = @ + 1]
                 /\ account'.ticket = account.ticket
                 /\ tx.kind = "invest" => ~Succeeds(tx)
              \/ /\ tx.kind = "invest" /\ tx.currency = "ETH"
                 /\ account'.eth = account.eth - tx.value - Fee
                 /\ account'.etht = account.etht + tx.value - Amount
                 /\ account'.eur = account.eur
                 /\ account'.ticket = account.ticket + Amount
              \/ /\ tx.kind = "invest" /\ tx.currency = "EUR"
                 /\ account'.eth = account.eth - Fee
                 /\ account'.etht = account.etht
                 /\ account'.eur = account.eur - Amount
                 /\ account'.ticket = account.ticket + Amount
<1>1. /\ account \in Money
      /\ account.eth \in Nat /\ account.etht \in Nat /\ account.eur \in Nat
      /\ account.ticket \in Nat /\ account.nonce \in Nat
  BY MoneyFields DEF IInv
<1>2. tx \in pending /\ (tx.kind = "invest" => tx.value \in Nat /\ tx.currency \in {"ETH", "EUR"})
  BY DEF IInv, MineInvestment, MineCancel, Minable, PendingOK, Estimated
<1>3. account.eth >= Fee
  BY <1>1, <1>2 DEF MineInvestment, MineCancel, Fee
<1>4. CASE account' = [account EXCEPT !.eth = @ - Fee, !.nonce = @ + 1]
            /\ (tx.kind = "invest" => ~Succeeds(tx))
  <2>1. account' = [eth |-> account.eth - Fee, etht |-> account.etht, eur |-> account.eur,
                    ticket |-> account.ticket, nonce |-> account.nonce + 1]
    BY <1>1, <1>4 DEF Money
  <2>2. account' \in Money
    BY <2>1, <1>1, <1>3 DEF Money, Fee
  <2>. QED BY <2>1, <2>2, <1>4
<1>5. CASE MineInvestment(tx) /\ Succeeds(tx) /\ tx.currency = "ETH"
  <2>1. account.etht + tx.value >= Amount /\ account.eth >= tx.value + Fee
    BY <1>5 DEF Succeeds, MineInvestment
  <2>2. account' = [account EXCEPT !.eth = @ - tx.value - Fee, !.etht = @ + tx.value - Amount,
                                   !.ticket = @ + Amount, !.nonce = @ + 1]
    BY <1>5 DEF MineInvestment
  <2>3. account' = [eth |-> account.eth - tx.value - Fee,
                    etht |-> account.etht + tx.value - Amount, eur |-> account.eur,
                    ticket |-> account.ticket + Amount, nonce |-> account.nonce + 1]
    BY <1>1, <2>2 DEF Money
  <2>4. tx.kind = "invest"
    BY <1>5 DEF MineInvestment
  <2>5. account' \in Money
    BY <1>1, <1>2, <2>1, <2>3, <2>4, AmountAssumption DEF Money, Fee
  <2>. QED BY <1>5, <2>3, <2>4, <2>5
<1>6. CASE MineInvestment(tx) /\ Succeeds(tx) /\ tx.currency = "EUR"
  <2>1. account.eur >= Amount
    BY <1>6 DEF Succeeds
  <2>2. account' = [account EXCEPT !.eth = @ - Fee, !.eur = @ - Amount, !.ticket = @ + Amount,
                                   !.nonce = @ + 1]
    BY <1>6 DEF MineInvestment
  <2>3. account' = [eth |-> account.eth - Fee, etht |-> account.etht,
                    eur |-> account.eur - Amount,
                    ticket |-> account.ticket + Amount, nonce |-> account.nonce + 1]
    BY <1>1, <2>2 DEF Money
  <2>4. tx.kind = "invest"
    BY <1>6 DEF MineInvestment
  <2>5. account' \in Money
    BY <1>1, <1>3, <2>1, <2>3, AmountAssumption DEF Money, Fee
  <2>. QED BY <1>6, <2>3, <2>4, <2>5
<1>7. CASE MineCancel(tx)
  <2>1. tx.kind = "cancel" /\ account' = [account EXCEPT !.eth = @ - Fee, !.nonce = @ + 1]
    BY <1>7 DEF MineCancel
  <2>. QED BY <2>1, <1>4
<1>8. CASE MineInvestment(tx)
  <2>1. tx.kind = "invest" /\ (~Succeeds(tx) => account' = [account EXCEPT !.eth = @ - Fee, !.nonce = @ + 1])
    BY <1>8 DEF MineInvestment
  <2>. QED BY <1>2, <1>4, <1>5, <1>6, <1>8, <2>1
<1>. QED BY <1>7, <1>8

\* What cancelTx submits: its nonce is the account's, so what it calls off is what it replaces.
LEMMA WhatIsCancelled ==
    ASSUME IInv, SubmitCancel
    PROVE  \E tx : /\ tx.kind = "cancel" /\ tx.nonce = account.nonce
                   /\ pending' = (pending \ Replaced) \cup {tx}
                   /\ Replaced = {old \in pending : old.nonce = tx.nonce}
                   /\ tx.calledOff = Replaced
                   /\ \A old \in Replaced : old.kind = "invest"
<1>0. cancel[1] \in Nat /\ cancel[1] <= account.nonce /\ account.nonce \in Nat
      /\ cancel[1] >= account.nonce
  BY MoneyFields DEF IInv, ScriptsOK, SubmitCancel, CancelNonce
<1> DEFINE tx == [kind |-> "cancel", nonce |-> CancelNonce,
                  calledOff |-> {old \in pending : old.nonce = account.nonce}]
<1>1. CancelNonce = account.nonce
  BY <1>0 DEF CancelNonce
<1>2. pending' = (pending \ Replaced) \cup {tx} /\ \A old \in Replaced : old.kind = "invest"
  BY DEF SubmitCancel
<1>3. tx.kind = "cancel" /\ tx.nonce = account.nonce
      /\ tx.calledOff = {old \in pending : old.nonce = account.nonce}
  BY <1>1
<1>4. Replaced = {old \in pending : old.nonce = account.nonce}
  BY <1>1 DEF Replaced
<1>. HIDE DEF tx
<1>. QED BY <1>2, <1>3, <1>4

-----------------------------------------------------------------------------
(* Every step keeps the invariant *)

\* What leaves the account's nonce and the pool alone, and reads nothing.
LEMMA QuietStep ==
    ASSUME IInv, collections \subseteq collections', account' = account,
           pending' = pending, run' = run \/ run'.at \in {"idle", "sent"},
           cancel' = cancel \/ cancel' = Nothing
    PROVE  IInv'
<1>1. account' \in Money
  BY DEF IInv
<1>2. PoolOK' /\ PendingOK'
  BY PoolRests DEF IInv
<1>3. ScriptsOK'
  BY DEF IInv, ScriptsOK, InCollections
<1>. QED BY <1>1, <1>2, <1>3 DEF IInv

\* The steps of investIntoETO.
LEMMA InvestsKeepsIInv ==
    ASSUME IInv, Invests, collections \subseteq collections'
    PROVE  IInv'
<1>1. ASSUME NEW n \in Numbers, NEW currency \in {"ETH", "EUR"}, CheckInvestment(n, currency)
      PROVE  IInv'
  <2>1. account' = account /\ pending' = pending /\ cancel' = cancel
    BY <1>1 DEF CheckInvestment
  <2>2. /\ run'.at = "confirm" /\ run'.etht = account.etht /\ run'.currency = currency
        /\ run'.offering = n
        /\ InCollections(n)
    BY <1>1 DEF CheckInvestment, InCollections
  <2>3. ScriptsOK'
    BY <1>1, <2>1, <2>2, MoneyFields DEF IInv, ScriptsOK, InCollections
  <2>4. PoolOK' /\ PendingOK'
    BY <2>1, PoolRests DEF IInv
  <2>. QED BY <2>1, <2>3, <2>4 DEF IInv
<1>2. CASE SendInvestment
  <2>1. PICK price \in Prices :
          /\ run.at = "confirm" /\ estimateGas(Investment(price))
          /\ pending' = pending \cup {Investment(price)}
    BY <1>2 DEF SendInvestment
  <2>2. account' = account /\ cancel' = cancel /\ run'.at = "sent"
    BY <1>2 DEF SendInvestment
  <2>3. PICK tx : tx = Investment(price)
    OBVIOUS
  <2>4. tx.kind = "invest" /\ tx.nonce = NextNonce /\ Estimated(tx)
    BY <2>1, <2>3, WhatIsSent
  <2>5. Estimated(tx)'
    BY <2>4, EstimatedStays
  <2>6. pending' = pending \cup {tx}
    BY <2>1, <2>3
  <2>7. PoolOK' /\ PendingOK'
    BY <2>2, <2>4, <2>5, <2>6, PoolGrows
  <2>8. ScriptsOK'
    BY <2>2 DEF IInv, ScriptsOK
  <2>. QED BY <2>2, <2>7, <2>8 DEF IInv
<1>3. CASE AbandonInvestment \/ EndInvestment \/ AbandonCancel
  <2>1. account' = account /\ pending' = pending
    BY <1>3 DEF AbandonInvestment, EndInvestment, AbandonCancel
  <2>2. run' = run \/ run'.at \in {"idle", "sent"}
    BY <1>3 DEF AbandonInvestment, EndInvestment, AbandonCancel, Waiting
  <2>3. cancel' = cancel \/ cancel' = Nothing
    BY <1>3 DEF AbandonInvestment, EndInvestment, AbandonCancel
  <2>. QED BY <2>1, <2>2, <2>3, QuietStep
<1>4. CASE BeginCancel
  <2>1. account' = account /\ pending' = pending /\ run' = run /\ cancel' = <<account.nonce>>
    BY <1>4 DEF BeginCancel
  <2>2. ScriptsOK'
    BY <2>1, MoneyFields DEF IInv, ScriptsOK, InCollections
  <2>3. PoolOK' /\ PendingOK'
    BY <2>1, PoolRests DEF IInv
  <2>. QED BY <2>1, <2>2, <2>3 DEF IInv
<1>5. CASE SubmitCancel
  <2>1. account' = account /\ run' = run /\ cancel' = Nothing
    BY <1>5 DEF SubmitCancel
  <2>2. PICK tx : /\ tx.kind = "cancel" /\ tx.nonce = account.nonce
                  /\ pending' = (pending \ Replaced) \cup {tx}
                  /\ Replaced = {old \in pending : old.nonce = tx.nonce}
                  /\ tx.calledOff = Replaced
                  /\ \A old \in Replaced : old.kind = "invest"
    BY <1>5, WhatIsCancelled
  <2>3. \A called \in tx.calledOff : called.kind = "invest" /\ called.nonce = tx.nonce
    BY <2>2
  <2>4. PoolOK' /\ PendingOK'
    <3>1. CASE Replaced = {}
      <4>1. pending' = pending \cup {tx} /\ ~\E old \in pending : old.nonce = tx.nonce
        BY <2>2, <3>1
      <4>. QED BY <2>1, <2>2, <2>3, <4>1, PoolGrows
    <3>2. ASSUME NEW old \in Replaced PROVE PoolOK' /\ PendingOK'
      <4>1. old \in pending /\ Replaced = {old} /\ old.nonce = tx.nonce /\ old.kind = "invest"
        BY <2>2, <3>2 DEF IInv, PoolOK
      <4>. QED BY <2>1, <2>2, <2>3, <4>1, PoolReplaces
    <3>. QED BY <3>1, <3>2
  <2>5. ScriptsOK'
    BY <2>1 DEF IInv, ScriptsOK, InCollections
  <2>. QED BY <2>1, <2>4, <2>5 DEF IInv
<1>6. ASSUME NEW tx \in pending, MineInvestment(tx) \/ MineCancel(tx)
      PROVE  IInv'
  <2>1. Minable(tx) /\ pending' = pending \ {tx} /\ run' = run /\ cancel' = cancel
    BY <1>6 DEF MineInvestment, MineCancel
  <2>2. account' \in Money /\ account'.nonce = account.nonce + 1
    BY <1>6, WhatIsMined
  <2>3. PoolOK' /\ PendingOK'
    BY <2>1, <2>2, PoolShrinks
  <2>4. ScriptsOK'
    BY <2>1, <2>2, MoneyFields DEF IInv, ScriptsOK, InCollections
  <2>. QED BY <2>2, <2>3, <2>4 DEF IInv
<1>7. CASE Change
  <2>1. pending' = pending /\ run' = run /\ cancel' = cancel
    BY <1>7 DEF Change
  <2>2. account' = account \/ account' = [account EXCEPT !.etht = @ + 1]
    BY <1>7 DEF Change
  <2>3. account' \in Money /\ account'.nonce = account.nonce
    BY <2>2, MoneyFields DEF IInv, Money
  <2>4. PoolOK' /\ PendingOK'
    BY <2>1, <2>3, PoolRests DEF IInv
  <2>5. ScriptsOK'
    BY <2>1, <2>3 DEF IInv, ScriptsOK, InCollections
  <2>. QED BY <2>3, <2>4, <2>5 DEF IInv
<1>. QED BY <1>1, <1>2, <1>3, <1>4, <1>5, <1>6, <1>7 DEF Invests

\* Every step keeps what is known of the pool and of the script that invests.
LEMMA NextKeepsIInv == IInv /\ [Next]_vars => IInv'
<1>. SUFFICES ASSUME IInv, [Next]_vars PROVE IInv'
  OBVIOUS
<1>1. collections \subseteq collections'
  BY CollectionsGrow
<1>2. CASE UNCHANGED investVars
  BY <1>1, <1>2, QuietStep DEF investVars
<1>3. CASE Invests
  BY <1>1, <1>3, InvestsKeepsIInv
<1>4. CASE UNCHANGED vars
  BY <1>2, <1>4 DEF vars
<1>. QED BY <1>2, <1>3, <1>4 DEF Next

\* Of every account that uses the scripts: its balances never fall below zero, its pending
\* transactions have different nonces, and each investment among them was estimated.
THEOREM PoolIsSound == Spec => []IInv
  BY InitIInv, NextKeepsIInv, PTL DEF Spec

-----------------------------------------------------------------------------
(* Investments are exact *)

\* Only a miner uses up a nonce.
LEMMA NoncesAreMined ==
    ASSUME IInv, [Next]_vars, account'.nonce # account.nonce
    PROVE  \E tx \in pending : MineInvestment(tx) \/ MineCancel(tx)
<1>1. CASE Invests
  <2>1. CASE SendInvestment \/ AbandonInvestment \/ EndInvestment \/ BeginCancel \/ SubmitCancel
             \/ AbandonCancel \/ \E n \in Numbers, currency \in {"ETH", "EUR"} :
                                   CheckInvestment(n, currency)
    BY <2>1 DEF SendInvestment, AbandonInvestment, EndInvestment, BeginCancel, SubmitCancel,
                AbandonCancel, CheckInvestment
  <2>2. CASE Change
    <3>1. account' = account \/ account' = [account EXCEPT !.etht = @ + 1]
      BY <2>2 DEF Change
    <3>. QED BY <3>1 DEF IInv, Money
  <2>. QED BY <1>1, <2>1, <2>2 DEF Invests
<1>2. CASE UNCHANGED investVars
  BY <1>2 DEF investVars
<1>3. CASE UNCHANGED vars
  BY <1>2, <1>3 DEF vars
<1>. QED BY <1>1, <1>2, <1>3 DEF Next

\* What a mined investment does to the account.
LEMMA MinedExactly ==
    ASSUME IInv, NEW tx \in pending, MineInvestment(tx), tx.kind = "invest"
    PROVE  IF account'.ticket = account.ticket
           THEN /\ account' = [account EXCEPT !.eth = @ - Fee, !.nonce = @ + 1]
                /\ World(tx.offering) # tx.seen
           ELSE /\ account'.ticket = account.ticket + Amount
                /\ account'.eth + account'.etht + account'.eur
                     = account.eth + account.etht + account.eur - Amount - Fee
                /\ tx.currency = "ETH" /\ tx.readEtht = account.etht =>
                     account'.etht = IF account.etht > Amount THEN account.etht - Amount ELSE 0
                /\ ~\E other \in pending : other.kind = "cancel" /\ tx \in other.calledOff
<1>1. /\ account.eth \in Nat /\ account.etht \in Nat /\ account.eur \in Nat
      /\ account.ticket \in Nat /\ Amount \in Nat \ {0}
  BY MoneyFields, AmountAssumption DEF IInv
<1>2. Estimated(tx)
  BY DEF IInv, PendingOK
<1>3. tx.currency \in {"ETH", "EUR"} /\ tx.value \in Nat
      /\ (tx.currency = "ETH" =>
            /\ tx.readEtht \in Nat
            /\ tx.value = IF tx.readEtht >= Amount THEN 0 ELSE Amount - tx.readEtht)
  BY <1>2 DEF Estimated
<1>4. ~\E other \in pending : other.kind = "cancel" /\ tx \in other.calledOff
  BY DEF IInv, PoolOK, PendingOK
<1>5. CASE account' = [account EXCEPT !.eth = @ - Fee, !.nonce = @ + 1]
           /\ account'.ticket = account.ticket /\ ~Succeeds(tx)
  <2>1. World(tx.offering) # tx.seen
    BY <1>2, <1>5, SeenDecides DEF Estimated
  <2>. QED BY <1>5, <2>1
<1>6. CASE /\ tx.currency = "ETH"
           /\ account'.eth = account.eth - tx.value - Fee
           /\ account'.etht = account.etht + tx.value - Amount
           /\ account'.eur = account.eur
           /\ account'.ticket = account.ticket + Amount
  <2>1. account'.ticket # account.ticket
    BY <1>1, <1>6
  <2>2. account'.eth + account'.etht + account'.eur
          = account.eth + account.etht + account.eur - Amount - Fee
    BY <1>1, <1>3, <1>6 DEF Fee
  <2>3. tx.readEtht = account.etht =>
          account'.etht = IF account.etht > Amount THEN account.etht - Amount ELSE 0
    BY <1>1, <1>3, <1>6
  <2>. QED BY <1>4, <1>6, <2>1, <2>2, <2>3
<1>7. CASE /\ tx.currency = "EUR"
           /\ account'.eth = account.eth - Fee
           /\ account'.etht = account.etht
           /\ account'.eur = account.eur - Amount
           /\ account'.ticket = account.ticket + Amount
  <2>1. account'.ticket # account.ticket
    BY <1>1, <1>7
  <2>2. account'.eth + account'.etht + account'.eur
          = account.eth + account.etht + account.eur - Amount - Fee
    BY <1>1, <1>7 DEF Fee
  <2>. QED BY <1>4, <1>7, <2>1, <2>2
<1>. QED BY <1>5, <1>6, <1>7, WhatIsMined

\* An investment that is mined takes exactly its amount, or fails because something it was
\* estimated with has changed, for any amounts, offerings and order of events.
THEOREM InvestmentsAreExact == Spec => InvestmentIsExact
<1>1. IInv /\ [Next]_vars =>
        \A tx \in pending :
          tx.kind = "invest" /\ account'.nonce = tx.nonce + 1 /\ tx \notin pending' =>
            IF account'.ticket = account.ticket
            THEN /\ account' = [account EXCEPT !.eth = @ - Fee, !.nonce = @ + 1]
                 /\ World(tx.offering) # tx.seen
            ELSE /\ account'.ticket = account.ticket + Amount
                 /\ account'.eth + account'.etht + account'.eur
                      = account.eth + account.etht + account.eur - Amount - Fee
                 /\ tx.currency = "ETH" /\ tx.readEtht = account.etht =>
                      account'.etht = IF account.etht > Amount THEN account.etht - Amount ELSE 0
                 /\ ~\E other \in pending : other.kind = "cancel" /\ tx \in other.calledOff
  <2>. SUFFICES ASSUME IInv, [Next]_vars, NEW tx \in pending, tx.kind = "invest",
                       account'.nonce = tx.nonce + 1, tx \notin pending'
                PROVE  MineInvestment(tx)
    BY MinedExactly
  <2>1. account.nonce \in Nat /\ tx.nonce \in Nat /\ account.nonce <= tx.nonce
    BY MoneyFields DEF IInv, PoolOK
  <2>2. PICK mined \in pending : MineInvestment(mined) \/ MineCancel(mined)
    BY <2>1, NoncesAreMined
  <2>3. mined.nonce = account.nonce /\ account'.nonce = account.nonce + 1
    BY <2>2, WhatIsMined DEF MineInvestment, MineCancel, Minable
  <2>4. mined = tx
    BY <2>1, <2>3 DEF IInv, PoolOK
  <2>. QED BY <2>2, <2>4 DEF MineCancel
<1>. QED BY <1>1, PoolIsSound, PTL DEF Spec, InvestmentIsExact

-----------------------------------------------------------------------------
(* What the scripts report *)

\* Every step keeps what is known of the offerings set up.
LEMMA NextKeepsSetupIInv == SetupIInv /\ [Next]_vars => SetupIInv'
<1>. SUFFICES ASSUME SetupIInv, [Next]_vars PROVE SetupIInv'
  OBVIOUS
<1>1. CASE Scripts \/ Parties
  BY <1>1, SetupStepKeeps
<1>2. CASE Invests
  <2>1. UNCHANGED <<platform, offerings, script>>
    BY <1>2 DEF Invests, CheckInvestment, SendInvestment, AbandonInvestment, EndInvestment,
                BeginCancel, SubmitCancel, AbandonCancel, MineInvestment, MineCancel, Change,
                setupVars
  <2>2. budget' = budget \/ \E what \in {"changes", "investments", "cancels"} : Spends(what)
    BY <1>2 DEF Invests, CheckInvestment, SendInvestment, AbandonInvestment, EndInvestment,
                BeginCancel, SubmitCancel, AbandonCancel, MineInvestment, MineCancel, Change,
                setupVars
  <2>. QED BY <2>1, <2>2, BesideSetupKeeps
<1>3. CASE UNCHANGED vars
  BY <1>3, BesideSetupKeeps DEF vars, setupVars
<1>. QED BY <1>1, <1>2, <1>3 DEF Next

\* Of every sequence of scripts, stopped anywhere, on every universe: how far each is, and what
\* it has reported, is true of the contracts.
THEOREM SetupIsSound == Spec => []SetupIInv
<1>1. Init => SetupIInv
  BY SetupInitIInv DEF Init
<1>. QED BY <1>1, NextKeepsSetupIInv, PTL DEF Spec

\* A row that is the last of its investor is a ticket once its file is listed.
LEMMA ListedRows ==
    ASSUME SetupIInv, NEW n \in Numbers, NEW i \in DOMAIN offerings[n].listed,
           LastOf(offerings[n].listed[i].investor, i, offerings[n].listed)
    PROVE  offerings[n].whitelist[offerings[n].listed[i].investor] = TicketOf(offerings[n].listed[i])
<1>1. PICK file : file = offerings[n].listed
  OBVIOUS
<1>2. file \in Seq(Rows) \cup {<< >>}
  <2>1. offerings[n] \in Offerings
    BY OfferingType DEF SetupIInv
  <2>. QED BY <1>1, <2>1, FilesAssumption DEF Offerings, NoFile
<1>3. Len(file) \in Nat /\ DOMAIN file = 1 .. Len(file)
  <2>1. CASE file \in Seq(Rows)
    BY <2>1
  <2>2. CASE file = << >>
    BY <2>2, EmptySeq
  <2>. QED BY <1>2, <2>1, <2>2
<1>4. i \in 1 .. Len(file) /\ ~\E j \in i + 1 .. Len(file) : file[j].investor = file[i].investor
  BY <1>1, <1>3 DEF LastOf
<1>5. TicketsUpTo(offerings[n].whitelist, file, Len(file))
  BY <1>1 DEF SetupIInv, ToldOK
<1>. QED BY <1>1, <1>4, <1>5 DEF TicketsUpTo

\* What a script reports as done is done, for every universe, whitelist and order of events.
THEOREM ReportsAreTrue == Spec => []DoneMeansComplete
<1>1. SetupIInv => DoneMeansComplete
  <2>. SUFFICES ASSUME SetupIInv, NEW n \in Numbers
                PROVE  /\ offerings[n].told # "nothing" =>
                            /\ offerings[n].registered
                            /\ \A interface \in Interfaces : InUniverse(n, interface)
                       /\ offerings[n].told = "may issue" /\ ~isolated =>
                            canIssueNEU(neuAccessPolicy, n)
                       /\ \A i \in DOMAIN offerings[n].listed :
                            LastOf(offerings[n].listed[i].investor, i, offerings[n].listed) =>
                              offerings[n].whitelist[offerings[n].listed[i].investor]
                                = TicketOf(offerings[n].listed[i])
    BY DEF DoneMeansComplete
  <2>1. /\ offerings[n].told # "nothing" => offerings[n].registered /\ Registered(n)
        /\ offerings[n].told = "may issue" /\ ~isolated => canIssueNEU(neuAccessPolicy, n)
    BY DEF SetupIInv, ToldOK
  <2>. QED BY <2>1, ListedRows DEF Registered
<1>. QED BY <1>1, SetupIsSound, PTL

\* An offering that is shown green is ready for its company and, when it is open, for its
\* investors, in every universe the scripts can leave behind.
THEOREM GreenIsInvestable == Spec => []GreenMeansInvestable
<1>1. SetupIInv => GreenMeansInvestable
  <2>. SUFFICES ASSUME SetupIInv, NEW n \in Numbers, offerings[n].told # "nothing", CheckETO(n)
                PROVE  /\ offerings[n].state = "Setup" => MaySetStartDate(n)
                       /\ /\ offerings[n].state \in {"Whitelist", "Public"}
                          /\ around = [verified |-> TRUE, fresh |-> TRUE, room |-> TRUE]
                          /\ offerings[n].state = "Whitelist" => isWhitelisted(n)
                          => \A currency \in {"ETH", "EUR"} : tokenFallback(n, currency)
    BY DEF GreenMeansInvestable
  <2>1. offerings[n].registered
    BY DEF SetupIInv, ToldOK
  <2>2. offerings[n].state = "Setup" => MaySetStartDate(n)
    BY <2>1 DEF MaySetStartDate, CheckETO
  <2>3. canIssueNEU(neuAccessPolicy, n)
    BY DEF CheckETO
  <2>4. ASSUME offerings[n].state \in {"Whitelist", "Public"},
               around = [verified |-> TRUE, fresh |-> TRUE, room |-> TRUE],
               offerings[n].state = "Whitelist" => isWhitelisted(n),
               NEW currency \in {"ETH", "EUR"}
        PROVE  tokenFallback(n, currency)
    BY <2>3, <2>4 DEF tokenFallback
  <2>. QED BY <2>2, <2>4
<1>. QED BY <1>1, SetupIsSound, PTL

\* Every value stays what the code takes it for.
THEOREM TypeCorrect == Spec => []TypeOK
<1>1. SetupIInv /\ IInv => TypeOK
  <2>. SUFFICES ASSUME SetupIInv, IInv PROVE TypeOK
    OBVIOUS
  <2>1. isolated \in BOOLEAN /\ DOMAIN access = {accessPolicy, neuAccessPolicy}
    BY DEF SetupIInv, SetupTypeOK
  <2>2. \A n \in Numbers :
          /\ offerings[n].agreements \subseteq {"commitment", "equityToken"}
          /\ offerings[n].state \in {"Setup", "Whitelist", "Public", "Signing"}
          /\ offerings[n].told \in {"nothing", "must give role", "may issue"}
          /\ offerings[n].whitelist \in [Investors -> [slot : Nat, frac : 0 .. 100]]
          /\ offerings[n].listed \in Files \cup {NoFile}
    <3>. SUFFICES ASSUME NEW n \in Numbers
                  PROVE  offerings[n] \in Offerings
      BY DEF Offerings
    <3>. QED BY OfferingType DEF SetupIInv
  <2>3. budget \in [DOMAIN budget -> Nat]
    BY DEF SetupIInv, SetupTypeOK
  <2>4. account \in [eth : Nat, etht : Nat, eur : Nat, ticket : Nat, nonce : Nat]
    BY DEF IInv, Money
  <2>5. /\ \A tx \in pending : /\ tx.nonce >= account.nonce
                               /\ tx.kind = "invest" => tx.value \in Nat
        /\ \A tx, ty \in pending : tx.nonce = ty.nonce => tx = ty
    BY MoneyFields DEF IInv, PoolOK, PendingOK, Estimated
  <2>6. run.at \in {"idle", "confirm", "sent"}
    BY DEF IInv, ScriptsOK
  <2>. QED BY <2>1, <2>2, <2>3, <2>4, <2>5, <2>6 DEF TypeOK
<1>. QED BY <1>1, SetupIsSound, PoolIsSound, PTL

=============================================================================
