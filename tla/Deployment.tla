----------------------------- MODULE Deployment -----------------------------
(***************************************************************************)
(* The deployment of the platform: truffle runs the numbered migrations    *)
(* one after another, each a sequence of transactions of the deployer.  A  *)
(* transaction is atomic, a migration is not: it may stop after any of     *)
(* them, because a transaction reverts, the operator answers no, or the    *)
(* process or its connection dies.  Truffle saves the addresses of what a  *)
(* migration deployed when the migration ends, so a migration that stopped *)
(* is run again from its start and deploys anew, over a chain that kept    *)
(* every transaction already made.                                         *)
(*                                                                         *)
(* A migration is a sequence of operations on references (who, on which    *)
(* contract), resolved when the operation runs; each kind of operation is  *)
(* an action.  Between the runs the operator edits the configuration and   *)
(* the holders of the administrative keys do what the scripts ask of them. *)
(***************************************************************************)
EXTENDS AccessPolicy, FiniteSets, FiniteSetsExt

CONSTANTS Networks,     \* subset of {"live", "dev"}
          MaxCrashes,   \* bound: migrations that stop for no reason of the code's
          MaxRestarts,  \* bound: runs of truffle after the first
          MaxRevokes    \* bound: times the access controller takes the deployer's right

ASSUME NetworksAssumption == Networks \subseteq {"live", "dev"}
ASSUME BoundsAssumption == MaxCrashes \in Nat /\ MaxRestarts \in Nat /\ MaxRevokes \in Nat

VARIABLES
    network,    \* network name: live or development
    config,     \* what truffle.js overrides: the ICBM commitment, the universe, isolation
    contracts,  \* deployed contracts: their address and the state the migrations touch
    access,     \* the access policies deployed
    amended,    \* contracts to which an agreement is attached
    saved,      \* artifacts on disk: the last address deployed of each kind
    mem,        \* artifacts in the memory of the running truffle process
    step, pc,   \* the migration that runs or failed, the next operation in it
    status,     \* "running", "failed" or "done"
    interrupted,\* migrations that stopped before their end
    budget      \* crashes, restarts and revocations used

chain == <<contracts, access, amended>>
control == <<saved, step, pc, status, interrupted>>
vars == <<network, config, contracts, access, amended, saved, mem, step, pc, status,
          interrupted, budget>>

-----------------------------------------------------------------------------
(* Configuration *)

Steps == <<2, 3, 4, 5, 6, 9, 10, 11, 12, 13, 14, 15, 16, 201>>
Position(n) == CHOOSE i \in DOMAIN Steps : Steps[i] = n
Past(n) == status = "done" \/ Position(step) > Position(n)

isLiveDeployment == network = "live"

Account(name) == <<name, 0>>
DEPLOYER == Account("DEPLOYER")

\* getConfig: on a development network everything is the deployer's but the services,
\* on an isolated live universe the administrative roles are
OverriddenOnDev == {"EURT_DEPOSIT_MANAGER", "IDENTITY_MANAGER", "GAS_EXCHANGE", "TOKEN_RATE_ORACLE"}
DeployerWhenIsolated ==
    {"ACCESS_CONTROLLER", "UNIVERSE_MANAGER", "EURT_LEGAL_MANAGER", "PLATFORM_OPERATOR_WALLET",
     "PLATFORM_OPERATOR_REPRESENTATIVE"}
Addresses(name) ==
    IF \/ ~isLiveDeployment /\ name \notin OverriddenOnDev
       \/ isLiveDeployment /\ config.isolated /\ name \in DeployerWhenIsolated
    THEN DEPLOYER ELSE Account(name)

\* the products of the catalogue, one of each kind the deployment tells apart, by the
\* step of their deployment
Products == << <<[name |-> "retail_eto_li_vma", available |-> TRUE],
                 [name |-> "hnwi_eto_de_security", available |-> FALSE]>>,
               <<[name |-> "retail_eto_li_security", available |-> TRUE]>> >>
AllProducts == UNION {Range(Products[s]) : s \in DOMAIN Products}

Kinds == {"policy", "forkArbiter", "neumark", "icbmEtherToken", "icbmEuroToken", "icbmEtherLock",
          "icbmEuroLock", "commitment", "universe", "platformTerms", "identityRegistry",
          "etherToken", "euroTokenController", "euroToken", "etherLock", "euroLock", "gasExchange",
          "feeDisbursalController", "feeDisbursal", "votingController", "votingCenter"}
         \cup {product.name : product \in AllProducts}

-----------------------------------------------------------------------------
(* References: the contracts a migration works with *)

\* the contract a run takes over: the ICBM commitment and, from migration 12 on, the universe
Commitment == IF config.commitment # Zero THEN config.commitment ELSE mem["commitment"]
UniverseInUse ==
    IF step >= 12 /\ config.universe # Zero THEN config.universe ELSE mem["universe"]
SingletonOf(name) == contracts[UniverseInUse].singletons[name]
TokenController == contracts[SingletonOf("euroToken")].controller

Ref(r) ==
    CASE r[1] = "account"   -> Addresses(r[2])
      [] r[1] = "deployer"  -> DEPLOYER
      [] r[1] = "deployed"  -> mem[r[2]]
      [] r[1] = "icbm"      -> IF r[2] = "commitment" THEN Commitment
                               ELSE contracts[Commitment][r[2]]
      [] r[1] = "universe"  -> UniverseInUse
      [] r[1] = "singleton" -> SingletonOf(r[2])
      [] r[1] = "policy"    -> contracts[UniverseInUse].policy
      [] r[1] = "zero"      -> Zero

Of(name) == <<"account", name>>
Deployed(kind) == <<"deployed", kind>>
Icbm(field) == <<"icbm", field>>
Singleton(name) == <<"singleton", name>>
Deployer == <<"deployer", "">>
Universe == <<"universe", "">>
UniversePolicy == <<"policy", "">>
Everything == <<"zero", "">>
\* a property the configuration does not have: encoded as the zero address
Undefined == <<"zero", "">>

Grant(subject, role, object) ==
    [subject |-> subject, role |-> role, object |-> object, state |-> "Allow"]
Drop(subject, role, object) ==
    [subject |-> subject, role |-> role, object |-> object, state |-> "Unset"]
Resolved(rules) ==
    [i \in DOMAIN rules |-> [rules[i] EXCEPT !.subject = Ref(@), !.object = Ref(@)]]

-----------------------------------------------------------------------------
(* Operations *)

Deploy(kind) == [op |-> "deploy", kind |-> kind]
Roles(policy, rules) == [op |-> "roles", policy |-> policy, rules |-> rules]
SetSingletons(entries) == [op |-> "singletons", entries |-> entries]
SetCollections(members, listed) ==
    [op |-> "collections", members |-> members, listed |-> listed]
Attach(lock) == [op |-> "setController", lock |-> lock]
Penalty(lock) == [op |-> "setPenaltyDisbursal", lock |-> lock]
AllowFrom(token, who) == [op |-> "allowTransferFrom", token |-> token, who |-> who]
AllowTo(token, who) == [op |-> "allowTransferTo", token |-> token, who |-> who]
Settings == [op |-> "applySettings"]
FeeSettings == [op |-> "applyFeeSettings"]
DepositManager(who) == [op |-> "changeDepositManager", who |-> who]
NewFeeController == [op |-> "changeFeeDisbursalController"]
Amend(contract) == [op |-> "amendAgreement", contract |-> contract]

-----------------------------------------------------------------------------
(* The migrations *)

Migration2 == <<Deploy("policy"), Deploy("forkArbiter"), Deploy("neumark"),
    Deploy("icbmEtherToken"), Deploy("icbmEuroToken"), Deploy("icbmEtherLock"),
    Deploy("icbmEuroLock"), Deploy("commitment")>>

\* one transaction for each role; ICBMLockedAccount.deployed() is the euro lock, deployed last
Migration3 ==
    LET Give(s, r, o) == Roles(Deployed("policy"), <<Grant(s, r, o)>>)
    IN <<Give(Deployed("commitment"), "neumarkIssuer", Deployed("neumark")),
         Give(Deployed("commitment"), "transferAdmin", Deployed("neumark")),
         Give(Everything, "neumarkBurner", Deployed("neumark")),
         Give(Of("LOCKED_ACCOUNT_ADMIN"), "lockedAccountAdmin", Everything),
         Give(Of("WHITELIST_ADMIN"), "whitelistAdmin", Deployed("commitment")),
         Give(Of("PLATFORM_OPERATOR_REPRESENTATIVE"), "platformOperatorRepresentative", Everything),
         Give(Of("EURT_DEPOSIT_MANAGER"), "eurtDepositManager", Deployed("icbmEuroToken")),
         Give(Deployer, "eurtDepositManager", Deployed("icbmEuroToken")),
         AllowFrom(Deployed("icbmEuroToken"), Deployed("commitment")),
         AllowTo(Deployed("icbmEuroToken"), Deployed("commitment")),
         AllowTo(Deployed("icbmEuroToken"), Deployed("icbmEuroLock")),
         AllowFrom(Deployed("icbmEuroToken"), Deployed("icbmEuroLock"))>>

Migration4 == <<Roles(Deployed("policy"), <<Grant(Deployer, "lockedAccountAdmin", Everything)>>),
                Attach(Icbm("euroLock")), Attach(Icbm("etherLock"))>>

\* on a live network the representative attaches the agreements himself
Migration5 ==
    IF isLiveDeployment THEN << >>
    ELSE <<Amend(Deployed("neumark")), Amend(Deployed("commitment"))>>

\* mutant: the deployer stays global access controller
Migration6KeepsControl ==
    LET Set(rule) == Roles(Deployed("policy"), <<rule>>)
        controller == Of("ACCESS_CONTROLLER")
    IN IF ~isLiveDeployment THEN << >>
       ELSE <<Set(Drop(Deployer, "eurtDepositManager", Deployed("icbmEuroToken"))),
              Set(Drop(Deployer, "lockedAccountAdmin", Everything)),
              Set(Grant(controller, "accessController", Everything)),
              Set(Grant(controller, "accessController", Deployed("policy")))>>

\* mutant: the deployer also gives up its right on the policy itself
Migration6DropsItself ==
    IF ~isLiveDeployment THEN << >>
    ELSE <<Roles(Deployed("policy"), <<Grant(Of("ACCESS_CONTROLLER"), "accessController", Everything)>>),
           Roles(Deployed("policy"), <<Drop(Deployer, "accessController", Everything)>>),
           Roles(Deployed("policy"), <<Drop(Deployer, "accessController", Deployed("policy"))>>)>>

Migration6 ==
    LET Set(rule) == Roles(Deployed("policy"), <<rule>>)
        controller == Of("ACCESS_CONTROLLER")
    IN IF ~isLiveDeployment THEN << >>
       ELSE <<Set(Drop(Deployer, "eurtDepositManager", Deployed("icbmEuroToken"))),
              Set(Drop(Deployer, "lockedAccountAdmin", Everything)),
              Set(Grant(controller, "accessController", Everything)),
              Set(Grant(controller, "accessController", Deployed("policy"))),
              Set(Drop(Deployer, "accessController", Everything))>>

PlatformSingletons == [
    neumark |-> Icbm("neumark"), etherToken |-> Deployed("etherToken"),
    euroToken |-> Deployed("euroToken"), euroTokenController |-> Deployed("euroTokenController"),
    euroLock |-> Deployed("euroLock"), etherLock |-> Deployed("etherLock"),
    gasExchange |-> Deployed("gasExchange"), tokenExchangeRateOracle |-> Deployed("gasExchange"),
    icbmEtherLock |-> Icbm("etherLock"), icbmEuroLock |-> Icbm("euroLock"),
    icbmEtherToken |-> Icbm("etherToken"), icbmEuroToken |-> Icbm("euroToken"),
    icbmCommitment |-> Icbm("commitment"), identityRegistry |-> Deployed("identityRegistry"),
    feeDisbursal |-> Of("PLATFORM_OPERATOR_WALLET"),
    platformPortfolio |-> Of("PLATFORM_OPERATOR_WALLET"),
    platformTerms |-> Deployed("platformTerms")]

SingletonNames == DOMAIN PlatformSingletons \cup {"votingCenter"}

\* mutant: an isolated universe is deployed without a policy of its own
Migration9SharesPolicy ==
    <<Deploy("universe"), Deploy("platformTerms"), Deploy("identityRegistry"),
      Deploy("etherToken"), Deploy("euroTokenController"), Deploy("euroToken"),
      Deploy("etherLock"), Deploy("euroLock"), Deploy("gasExchange"),
      Roles(UniversePolicy, <<Grant(Deployer, "universeManager", Universe)>>),
      SetSingletons(PlatformSingletons)>>

\* an isolated universe gets an access policy of its own before anything else
Migration9 ==
    (IF config.isolated THEN <<Deploy("policy")>> ELSE << >>)
    \o <<Deploy("universe"), Deploy("platformTerms"), Deploy("identityRegistry"),
         Deploy("etherToken"), Deploy("euroTokenController"), Deploy("euroToken"),
         Deploy("etherLock"), Deploy("euroLock"), Deploy("gasExchange"),
         Roles(UniversePolicy, <<Grant(Deployer, "universeManager", Universe)>>),
         SetSingletons(PlatformSingletons)>>

Migration10 ==
    (IF config.isolated THEN << >>
     ELSE <<Roles(UniversePolicy,
               <<Drop(Singleton("icbmCommitment"), "neumarkIssuer", Singleton("neumark")),
                 Drop(Singleton("icbmCommitment"), "transferAdmin", Singleton("neumark"))>>)>>)
    \o <<Roles(UniversePolicy,
            <<Grant(Of("IDENTITY_MANAGER"), "identityManager", Everything),
              Grant(Of("EURT_LEGAL_MANAGER"), "eurtLegalManager", Everything),
              Grant(Of("EURT_DEPOSIT_MANAGER"), "eurtDepositManager", Everything),
              Grant(Singleton("euroLock"), "eurtDepositManager", Singleton("euroToken")),
              Grant(Of("TOKEN_RATE_ORACLE"), "tokenRateOracle", Singleton("tokenExchangeRateOracle")),
              Grant(Of("GAS_EXCHANGE"), "gasExchange", Singleton("gasExchange")),
              Grant(Of("UNIVERSE_MANAGER"), "universeManager", Universe)>>)>>

\* the ether sent to the services afterwards is left out
Migration11 ==
    <<Roles(UniversePolicy,
         <<Grant(Deployer, "eurtLegalManager", Everything),
           Grant(Deployer, "eurtDepositManager", Everything),
           Grant(Deployer, "identityManager", Everything),
           Grant(Deployer, "tokenRateOracle", Everything)>>),
      Settings, DepositManager(Deployer), FeeSettings, DepositManager(Of("EURT_DEPOSIT_MANAGER")),
      Roles(UniversePolicy,
         <<Grant(Of("PLATFORM_OPERATOR_WALLET"), "reclaimer", Singleton("gasExchange"))>>)>>

\* production networks get the platform terms again
NewTerms ==
    IF isLiveDeployment
    THEN <<Deploy("platformTerms"),
           SetSingletons([platformTerms |-> Deployed("platformTerms")])>>
    ELSE << >>

\* mutant: the old euro token is opened before the penalties are directed
Migration12OpensFirst ==
    <<Deploy("feeDisbursalController"), Deploy("feeDisbursal"),
      Roles(UniversePolicy,
         <<Grant(Deployer, "universeManager", Universe),
           Grant(Deployer, "eurtLegalManager", Everything),
           Grant(Deployer, "eurtDepositManager", Everything),
           Grant(Deployer, "lockedAccountAdmin", Everything),
           Grant(Undefined, "disburser", Deployed("feeDisbursal")),
           Grant(Deployed("feeDisbursal"), "eurtDepositManager", Singleton("euroToken"))>>),
      SetSingletons([feeDisbursal |-> Deployed("feeDisbursal")]),
      Settings,
      AllowTo(Singleton("icbmEuroToken"), Deployed("feeDisbursal")),
      AllowFrom(Singleton("icbmEuroToken"), Deployed("feeDisbursal")),
      Penalty(Singleton("icbmEuroLock")), Penalty(Singleton("icbmEtherLock")),
      SetCollections({<<"paymentToken", Singleton("euroToken")>>,
                      <<"paymentToken", Singleton("etherToken")>>}, TRUE)>>
    \o NewTerms

Migration12 ==
    <<Deploy("feeDisbursalController"), Deploy("feeDisbursal"),
      Roles(UniversePolicy,
         <<Grant(Deployer, "universeManager", Universe),
           Grant(Deployer, "eurtLegalManager", Everything),
           Grant(Deployer, "eurtDepositManager", Everything),
           Grant(Deployer, "lockedAccountAdmin", Everything),
           Grant(Undefined, "disburser", Deployed("feeDisbursal")),
           Grant(Deployed("feeDisbursal"), "eurtDepositManager", Singleton("euroToken"))>>),
      SetSingletons([feeDisbursal |-> Deployed("feeDisbursal")]),
      Settings,
      Penalty(Singleton("icbmEuroLock")), Penalty(Singleton("icbmEtherLock")),
      AllowTo(Singleton("icbmEuroToken"), Deployed("feeDisbursal")),
      AllowFrom(Singleton("icbmEuroToken"), Deployed("feeDisbursal")),
      SetCollections({<<"paymentToken", Singleton("euroToken")>>,
                      <<"paymentToken", Singleton("etherToken")>>}, TRUE)>>
    \o NewTerms

\* the products of one step, listed together; on live the unavailable ones are taken off
\* again by a second transaction
DeployConstraints(s) ==
    LET batch == Products[s]
        unavailable == {product \in Range(batch) : ~product.available}
        Constraints(products) ==
            {<<"etoTermsConstraints", Deployed(product.name)>> : product \in products}
    IN <<Roles(UniversePolicy, <<Grant(Deployer, "universeManager", Universe)>>)>>
       \o [i \in DOMAIN batch |-> Deploy(batch[i].name)]
       \o <<SetCollections(Constraints(Range(batch)), TRUE)>>
       \o IF isLiveDeployment /\ unavailable # {}
          THEN <<SetCollections(Constraints(unavailable), FALSE)>> ELSE << >>

Migration13 == DeployConstraints(1) \o NewTerms

Migration14 ==
    <<Roles(UniversePolicy, <<Grant(Deployer, "disbursalManager", Everything)>>),
      Deploy("feeDisbursalController"), NewFeeController>>

Migration15 == DeployConstraints(2)

Migration16 ==
    <<Deploy("votingController"), Deploy("votingCenter"),
      Roles(UniversePolicy, <<Grant(Deployer, "universeManager", Everything)>>),
      SetSingletons([votingCenter |-> Deployed("votingCenter")])>>

\* mutant: the administration of the locks is not given back
Migration201KeepsLocks ==
    IF ~isLiveDeployment \/ config.isolated THEN << >>
    ELSE <<Roles(UniversePolicy,
              <<Drop(Deployer, "eurtDepositManager", Everything),
                Drop(Deployer, "eurtLegalManager", Everything),
                Drop(Deployer, "identityManager", Everything),
                Drop(Deployer, "tokenRateOracle", Everything),
                Drop(Deployer, "disbursalManager", Everything),
                Drop(Deployer, "universeManager", Universe)>>)>>

\* finalize: the deployer gives back what it took for the deployment
Migration201 ==
    IF ~isLiveDeployment \/ config.isolated THEN << >>
    ELSE <<Roles(UniversePolicy,
              <<Drop(Deployer, "eurtDepositManager", Everything),
                Drop(Deployer, "eurtLegalManager", Everything),
                Drop(Deployer, "identityManager", Everything),
                Drop(Deployer, "tokenRateOracle", Everything),
                Drop(Deployer, "lockedAccountAdmin", Everything),
                Drop(Deployer, "disbursalManager", Everything),
                Drop(Deployer, "universeManager", Universe)>>)>>

Migration(n) ==
    CASE n = 2 -> Migration2 [] n = 3 -> Migration3 [] n = 4 -> Migration4 [] n = 5 -> Migration5
      [] n = 6 -> Migration6 [] n = 9 -> Migration9 [] n = 10 -> Migration10
      [] n = 11 -> Migration11 [] n = 12 -> Migration12 [] n = 13 -> Migration13
      [] n = 14 -> Migration14 [] n = 15 -> Migration15 [] n = 16 -> Migration16
      [] n = 201 -> Migration201

\* the steps of the ICBM are skipped once the commitment is configured
ShouldSkipStep(n) == config.commitment # Zero /\ n < 7

Current == Migration(step)[pc]
Running(op) == /\ status = "running" /\ pc \in 1 .. Len(Migration(step))
               /\ Current.op = op

-----------------------------------------------------------------------------
(* What a transaction of the deployer needs *)

May(subject, role, object) ==
    Allowed(access[contracts[object].policy], subject, role, object)

\* the require and only clauses of the function each operation calls
Accepted ==
    LET o == Current
    IN CASE o.op = "deploy" -> TRUE
         [] o.op = "roles" ->
              MaySetUserRoles(access[Ref(o.policy)], DEPLOYER, Ref(o.policy), Resolved(o.rules))
         [] o.op \in {"singletons", "collections"} -> May(DEPLOYER, "universeManager", UniverseInUse)
         [] o.op = "setController" -> /\ May(DEPLOYER, "lockedAccountAdmin", Ref(o.lock))
                                      /\ contracts[Ref(o.lock)].controller = Zero
         [] o.op = "setPenaltyDisbursal" -> May(DEPLOYER, "lockedAccountAdmin", Ref(o.lock))
         [] o.op \in {"allowTransferFrom", "allowTransferTo"} ->
              May(DEPLOYER, "eurtDepositManager", Ref(o.token))
         [] o.op \in {"applySettings", "changeDepositManager"} ->
              May(DEPLOYER, "eurtLegalManager", TokenController)
         [] o.op = "applyFeeSettings" -> /\ contracts[TokenController].depositManager = DEPLOYER
                                         /\ May(DEPLOYER, "eurtDepositManager", TokenController)
         [] o.op = "changeFeeDisbursalController" ->
              May(DEPLOYER, "disbursalManager", SingletonOf("feeDisbursal"))
         [] o.op = "amendAgreement" ->
              May(Addresses("PLATFORM_OPERATOR_REPRESENTATIVE"), "platformOperatorRepresentative",
                  Ref(o.contract))

-----------------------------------------------------------------------------
(* Init and the transactions *)

Init ==
    /\ network \in Networks
    /\ config = [commitment |-> Zero, universe |-> Zero, isolated |-> FALSE]
    /\ contracts = << >>
    /\ access = << >>
    /\ amended = {}
    /\ saved = [k \in Kinds |-> Zero]
    /\ mem = saved
    /\ step = Steps[1]
    /\ pc = 0
    /\ status = "running"
    /\ interrupted = {}
    /\ budget = [crashes |-> MaxCrashes, restarts |-> MaxRestarts, revokes |-> MaxRevokes]

Advance == pc' = pc + 1 /\ UNCHANGED <<network, config, saved, step, status, interrupted, budget>>

\* constructors: the references a contract keeps and the state the migrations change
Created(kind, this) ==
    LET icbm == mem["policy"]
        platform == contracts[mem["universe"]].policy
        Lock(token) == [policy |-> icbm, token |-> token, controller |-> Zero, target |-> Zero,
                        penaltyDisbursal |-> Addresses("PLATFORM_OPERATOR_WALLET")]
    IN CASE kind = "policy" -> [policy |-> this]
         [] kind \in {"forkArbiter", "neumark"} -> [policy |-> icbm]
         [] kind \in {"icbmEtherToken", "icbmEuroToken"} ->
              [policy |-> icbm, from |-> {}, to |-> {}]
         [] kind = "icbmEtherLock" -> Lock(mem["icbmEtherToken"])
         [] kind = "icbmEuroLock" -> Lock(mem["icbmEuroToken"])
         [] kind = "commitment" ->
              [policy |-> icbm, neumark |-> mem["neumark"],
               etherToken |-> mem["icbmEtherToken"], euroToken |-> mem["icbmEuroToken"],
               etherLock |-> mem["icbmEtherLock"], euroLock |-> mem["icbmEuroLock"]]
         [] kind = "universe" ->
              [policy |-> IF config.isolated THEN mem["policy"] ELSE contracts[Commitment].policy,
               singletons |-> [name \in SingletonNames |-> Zero], collections |-> {}]
         [] kind = "euroTokenController" ->
              [policy |-> platform, from |-> {}, to |-> {},
               depositManager |-> Addresses("EURT_DEPOSIT_MANAGER")]
         [] kind = "euroToken" ->
              [policy |-> platform, controller |-> mem["euroTokenController"]]
         [] kind \in {"identityRegistry", "etherToken", "gasExchange"} -> [policy |-> platform]
         [] kind = "etherLock" ->
              [policy |-> platform, source |-> contracts[Commitment].etherLock]
         [] kind = "euroLock" -> [policy |-> platform, source |-> contracts[Commitment].euroLock]
         [] kind = "feeDisbursal" ->
              [policy |-> contracts[UniverseInUse].policy,
               controller |-> mem["feeDisbursalController"]]
         [] OTHER -> [policy |-> Zero]

Added(f, x, value) == [y \in DOMAIN f \cup {x} |-> IF y = x THEN value ELSE f[y]]

DeployContract ==
    /\ Running("deploy")
    /\ LET kind == Current.kind
           this == <<kind, 1 + Cardinality({a \in DOMAIN contracts : a[1] = kind})>>
       IN /\ contracts' = Added(contracts, this, Created(kind, this))
          /\ mem' = [mem EXCEPT ![kind] = this]
          /\ access' = IF kind = "policy" THEN Added(access, this, NewPolicy(DEPLOYER, this))
                       ELSE access
    /\ UNCHANGED amended
    /\ Advance

SetRoles ==
    /\ Running("roles") /\ Accepted
    /\ access' = [access EXCEPT ![Ref(Current.policy)] = SetUserRoles(@, Resolved(Current.rules))]
    /\ UNCHANGED <<contracts, amended, mem>>
    /\ Advance

\* the other transactions change the state of one contract
Call(contract, state) ==
    /\ contracts' = [contracts EXCEPT ![contract] = state]
    /\ UNCHANGED <<access, amended, mem>>
    /\ Advance

SetManySingletons ==
    /\ Running("singletons") /\ Accepted
    /\ LET entries == Current.entries
       IN Call(UniverseInUse,
               [contracts[UniverseInUse] EXCEPT
                  !.singletons = [name \in SingletonNames |->
                      IF name \in DOMAIN entries THEN Ref(entries[name]) ELSE @[name]]])

SetCollectionsInterfaces ==
    /\ Running("collections") /\ Accepted
    /\ LET members == {<<member[1], Ref(member[2])>> : member \in Current.members}
       IN Call(UniverseInUse,
               [contracts[UniverseInUse] EXCEPT
                  !.collections = IF Current.listed THEN @ \cup members ELSE @ \ members])

SetController ==
    /\ Running("setController") /\ Accepted
    /\ LET lock == Ref(Current.lock)
       IN Call(lock, [contracts[lock] EXCEPT !.controller = Commitment])

SetPenaltyDisbursal ==
    /\ Running("setPenaltyDisbursal") /\ Accepted
    /\ LET lock == Ref(Current.lock)
       IN Call(lock, [contracts[lock] EXCEPT !.penaltyDisbursal = mem["feeDisbursal"]])

SetAllowedTransferFrom ==
    /\ Running("allowTransferFrom") /\ Accepted
    /\ LET token == Ref(Current.token)
       IN Call(token, [contracts[token] EXCEPT !.from = @ \cup {Ref(Current.who)}])

SetAllowedTransferTo ==
    /\ Running("allowTransferTo") /\ Accepted
    /\ LET token == Ref(Current.token)
       IN Call(token, [contracts[token] EXCEPT !.to = @ \cup {Ref(Current.who)}])

\* applySettings also lets the universe's contracts send and receive the euro token
ApplySettings ==
    /\ Running("applySettings") /\ Accepted
    /\ LET known == {SingletonOf(name) : name \in {"euroLock", "feeDisbursal", "gasExchange"}}
       IN Call(TokenController,
               [contracts[TokenController] EXCEPT !.from = @ \cup known, !.to = @ \cup known])

ApplyFeeSettings ==
    /\ Running("applyFeeSettings") /\ Accepted
    /\ Call(TokenController, contracts[TokenController])

ChangeDepositManager ==
    /\ Running("changeDepositManager") /\ Accepted
    /\ Call(TokenController,
            [contracts[TokenController] EXCEPT !.depositManager = Ref(Current.who)])

ChangeFeeDisbursalController ==
    /\ Running("changeFeeDisbursalController") /\ Accepted
    /\ LET disbursal == SingletonOf("feeDisbursal")
       IN Call(disbursal,
               [contracts[disbursal] EXCEPT !.controller = mem["feeDisbursalController"]])

AmendAgreement ==
    /\ Running("amendAgreement") /\ Accepted
    /\ amended' = amended \cup {Ref(Current.contract)}
    /\ UNCHANGED <<contracts, access, mem>>
    /\ Advance

-----------------------------------------------------------------------------
(* The course of a migration *)

\* what a migration checks before its first transaction; the universe of an isolated
\* deployment has a policy that is not deployed yet and belongs to the deployer
MayBegin(n) ==
    /\ n = 9 =>
         /\ isLiveDeployment => config.commitment # Zero
         /\ ~config.isolated => May(DEPLOYER, "accessController", contracts[Commitment].policy)
    /\ n \in 12 .. 16 /\ isLiveDeployment => config.universe # Zero

Begin ==
    /\ status = "running" /\ pc = 0 /\ MayBegin(step)
    /\ pc' = IF ShouldSkipStep(step) THEN Len(Migration(step)) + 1 ELSE 1
    /\ UNCHANGED <<network, config, chain, saved, mem, step, status, interrupted, budget>>

\* mutant: the next migration starts at the operation the last one ended at
FinishKeepsPlace ==
    /\ status = "running" /\ pc = Len(Migration(step)) + 1
    /\ saved' = mem
    /\ IF step = 201
       THEN status' = "done" /\ UNCHANGED <<step, pc>>
       ELSE step' = Steps[Position(step) + 1] /\ UNCHANGED <<pc, status>>
    /\ UNCHANGED <<network, config, chain, mem, interrupted, budget>>

Finish ==
    /\ status = "running" /\ pc = Len(Migration(step)) + 1
    /\ saved' = mem
    /\ IF step = 201
       THEN status' = "done" /\ UNCHANGED <<step, pc>>
       ELSE step' = Steps[Position(step) + 1] /\ pc' = 0 /\ UNCHANGED status
    /\ UNCHANGED <<network, config, chain, mem, interrupted, budget>>

\* what the migration deployed is on the chain, but its addresses are lost
Fail ==
    /\ status' = "failed"
    /\ pc' = 0
    /\ mem' = saved
    /\ interrupted' = interrupted \cup {step}
    /\ UNCHANGED <<network, config, chain, saved, step>>

\* a check throws or a transaction reverts
Revert ==
    /\ status = "running"
    /\ \/ pc = 0 /\ ~MayBegin(step)
       \/ pc \in 1 .. Len(Migration(step)) /\ ~Accepted
    /\ Fail /\ UNCHANGED budget

Crash ==
    /\ status = "running" /\ pc > 0
    /\ budget.crashes > 0
    /\ Fail /\ budget' = [budget EXCEPT !.crashes = @ - 1]

-----------------------------------------------------------------------------
(* The operator and the holders of the keys *)

\* setController succeeds once: a migration 4 that stopped after it is never passed again
LockIsTaken ==
    \E lock \in {"euroLock", "etherLock"} : contracts[contracts[Commitment][lock]].controller # Zero

\* the artifacts are given up (--reset): always on a development network, and on a live one
\* when the migration that stopped cannot be repeated
StartsAnew == ~isLiveDeployment \/ (step = 4 /\ ~ShouldSkipStep(4) /\ LockIsTaken)

\* truffle is run again, on live when what stopped it is put right (the deployer is a
\* controller): from the migration that failed, or from the first over the configured ICBM
Restart ==
    /\ status = "failed" /\ budget.restarts > 0
    /\ isLiveDeployment =>
         /\ MayBegin(step)
         /\ step > 9 => May(DEPLOYER, "accessController", contracts[UniverseInUse].policy)
    /\ status' = "running"
    /\ step' = IF StartsAnew \/ step = 9 THEN Steps[1] ELSE step
    /\ saved' = IF StartsAnew THEN [k \in Kinds |-> Zero] ELSE saved
    /\ mem' = saved'
    /\ budget' = [budget EXCEPT !.restarts = @ - 1]
    /\ UNCHANGED <<network, config, chain, pc, interrupted>>

\* truffle.js is edited between the runs that its absence stopped
ConfigureCommitment ==
    /\ status = "failed" /\ isLiveDeployment /\ step = 9 /\ config.commitment = Zero
    /\ \E isolated \in BOOLEAN :
         config' = [config EXCEPT !.commitment = saved["commitment"], !.isolated = isolated]
    /\ UNCHANGED <<network, chain, control, mem, budget>>

ConfigureUniverse ==
    /\ status = "failed" /\ isLiveDeployment /\ step = 12 /\ config.universe = Zero
    /\ config' = [config EXCEPT !.universe = saved["universe"]]
    /\ UNCHANGED <<network, chain, control, mem, budget>>

\* the access controller takes the deployer's right on the policy, as migrations 6 and 201
\* ask, at any time, and gives it back for the next run
IcbmPolicy == contracts[Commitment].policy
ByAccessController(state) ==
    /\ isLiveDeployment /\ Past(6)
    /\ LET rule == [subject |-> DEPLOYER, role |-> "accessController", object |-> IcbmPolicy,
                    state |-> state]
       IN /\ MaySetUserRoles(access[IcbmPolicy], Account("ACCESS_CONTROLLER"), IcbmPolicy, <<rule>>)
          /\ access' = [access EXCEPT ![IcbmPolicy] = SetUserRole(@, rule)]
    /\ UNCHANGED <<network, config, contracts, amended, control, mem>>

RevokeDeployer ==
    /\ budget.revokes > 0
    /\ ByAccessController("Unset")
    /\ budget' = [budget EXCEPT !.revokes = @ - 1]

ReinstateDeployer ==
    /\ status = "failed"
    /\ ByAccessController("Allow")
    /\ ~May(DEPLOYER, "accessController", IcbmPolicy)
    /\ UNCHANGED budget

\* what migration 201 asks to do by hand once the universe is known: the two migrations of the
\* locks, the right of the euro lock on the old euro token, the agreements.  Nothing reads one
\* of these transactions without the others, so they are one action
MayMigrate(old, new) ==
    LET lock == SingletonOf(old)
    IN /\ May(Account("LOCKED_ACCOUNT_ADMIN"), "lockedAccountAdmin", lock)
       /\ contracts[lock].controller # Zero /\ contracts[lock].target = Zero
       /\ contracts[SingletonOf(new)].source = lock

FinishByHand ==
    /\ isLiveDeployment /\ status # "running" /\ config.universe # Zero
    /\ MayMigrate("icbmEuroLock", "euroLock") /\ MayMigrate("icbmEtherLock", "etherLock")
    /\ LET token == SingletonOf("icbmEuroToken")
       IN /\ May(Account("EURT_DEPOSIT_MANAGER"), "eurtDepositManager", token)
          /\ contracts' = [contracts EXCEPT
               ![SingletonOf("icbmEuroLock")].target = SingletonOf("euroLock"),
               ![SingletonOf("icbmEtherLock")].target = SingletonOf("etherLock"),
               ![token].from = @ \cup {SingletonOf("euroLock")},
               ![token].to = @ \cup {SingletonOf("euroLock")}]
    /\ amended' = amended \cup {UniverseInUse}
                   \cup {SingletonOf(n) : n \in {"euroToken", "euroLock", "etherLock", "neumark"}}
    /\ UNCHANGED <<network, config, access, control, mem, budget>>

-----------------------------------------------------------------------------
Transaction ==
    \/ DeployContract \/ SetRoles \/ SetManySingletons \/ SetCollectionsInterfaces
    \/ SetController \/ SetPenaltyDisbursal \/ SetAllowedTransferFrom \/ SetAllowedTransferTo
    \/ ApplySettings \/ ApplyFeeSettings \/ ChangeDepositManager
    \/ ChangeFeeDisbursalController \/ AmendAgreement

Runs == Begin \/ Transaction \/ Finish \/ Revert

Configures == ConfigureCommitment \/ ConfigureUniverse

KeyHolders == RevokeDeployer \/ ReinstateDeployer \/ FinishByHand

Next == Runs \/ Crash \/ Restart \/ Configures \/ KeyHolders

\* A script runs on: weak fairness of Runs with the enabling condition spelled out, for in
\* every state of a running migration it has a next step (it begins or a check throws, the
\* call is accepted or reverts, it finishes).  A migration that stopped is run again, and
\* what stopped it is put right.
Fairness ==
    /\ []<>(status # "running") \/ []<><<Runs>>_vars
    /\ WF_vars(Restart \/ Configures \/ ReinstateDeployer)

Spec == Init /\ [][Next]_vars /\ Fairness

-----------------------------------------------------------------------------
(* scripts/verifyDeployment.js: what the operator is shown as green *)

Amended(contract) == contract \in amended
ReachesNeur(contract) ==
    contract \in contracts[TokenController].from \cap contracts[TokenController].to
ReachesIcbmNeur(contract) ==
    LET token == contracts[SingletonOf("icbmEuroToken")]
    IN contract \in token.from \cap token.to

Migrates(old, new) == /\ contracts[SingletonOf(old)].target = SingletonOf(new)
                      /\ contracts[SingletonOf(new)].source = SingletonOf(old)

LocksMigrate == Migrates("icbmEuroLock", "euroLock") /\ Migrates("icbmEtherLock", "etherLock")

EuroLockReachesIcbmNeur == ReachesIcbmNeur(SingletonOf("euroLock"))

AgreementsAttached ==
    Amended(UniverseInUse) /\ \A name \in {"euroToken", "euroLock", "etherLock", "neumark"} :
                                Amended(SingletonOf(name))

ControllerAllowsTransfers ==
    \A name \in {"feeDisbursal", "euroLock", "gasExchange"} : ReachesNeur(SingletonOf(name))

PaymentTokensListed ==
    \A name \in {"euroToken", "etherToken"} :
      <<"paymentToken", SingletonOf(name)>> \in contracts[UniverseInUse].collections

DisbursalHasRights ==
    /\ May(Addresses("PLATFORM_OPERATOR_WALLET"), "disburser", SingletonOf("feeDisbursal"))
    /\ May(SingletonOf("feeDisbursal"), "eurtDepositManager", SingletonOf("euroToken"))
    /\ ReachesIcbmNeur(SingletonOf("feeDisbursal"))

VerifyDeployment ==
    /\ UniverseInUse # Zero
    /\ \A name \in SingletonNames \ {"votingCenter"} : SingletonOf(name) # Zero
    /\ LocksMigrate /\ EuroLockReachesIcbmNeur /\ AgreementsAttached
    /\ ControllerAllowsTransfers /\ PaymentTokensListed /\ DisbursalHasRights

-----------------------------------------------------------------------------
(* Properties *)

TypeOK ==
    /\ network \in Networks
    /\ config.isolated \in BOOLEAN
    /\ {config.commitment, config.universe} \subseteq DOMAIN contracts \cup {Zero}
    /\ \A a \in DOMAIN contracts :
         contracts[a].policy \in DOMAIN access \cup {Zero}
    /\ \A p \in DOMAIN access : Range(access[p]) \subseteq {"Allow", "Deny"}
    /\ amended \subseteq DOMAIN contracts
    /\ {saved, mem} \subseteq [Kinds -> DOMAIN contracts \cup {Zero}]
    /\ step \in Range(Steps) /\ interrupted \subseteq Range(Steps)
    /\ pc \in 0 .. Len(Migration(step)) + 1
    /\ status \in {"running", "failed", "done"}
    /\ budget \in [crashes : 0 .. MaxCrashes, restarts : 0 .. MaxRestarts,
                   revokes : 0 .. MaxRevokes]

\* the penalties of both ICBM locks go to the fee disbursal of the universe, which may move
\* the old and the new euro token
PenaltiesReachDisbursal ==
    LET disbursal == SingletonOf("feeDisbursal")
    IN /\ \A lock \in {"icbmEuroLock", "icbmEtherLock"} :
            contracts[SingletonOf(lock)].penaltyDisbursal = disbursal
       /\ ReachesIcbmNeur(disbursal) /\ ReachesNeur(disbursal)

\* the deposit manager the token controller knows is the configured one and has the role
DepositsAreManaged ==
    LET manager == contracts[TokenController].depositManager
    IN /\ manager = Addresses("EURT_DEPOSIT_MANAGER")
       /\ May(manager, "eurtDepositManager", SingletonOf("euroToken"))

\* A universe that scripts/verifyDeployment.js shows all green (ETODEPLOY.md calls it fully
\* operational) is also wired where the script does not look: both ICBM locks pay penalties
\* to its fee disbursal, its euro lock may convert the old euro token, its deposit manager
\* can deposit, and no contract of another attempt at the deployment is mixed in.
VerifiedMeansWired ==
    VerifyDeployment =>
        /\ PenaltiesReachDisbursal
        /\ DepositsAreManaged
        /\ May(SingletonOf("euroLock"), "eurtDepositManager", SingletonOf("euroToken"))
        /\ \A name \in {"euroToken", "euroTokenController", "etherToken", "euroLock", "etherLock",
                        "gasExchange", "identityRegistry", "feeDisbursal"} :
             contracts[SingletonOf(name)].policy = contracts[UniverseInUse].policy
        /\ contracts[SingletonOf("euroToken")].controller = SingletonOf("euroTokenController")

\* However often a migration of a live network stopped and was run again, what it is for
\* holds once it is behind: the deployer no longer controls every contract and the access
\* controller does (6), deposits are managed (11), penalties reach the fee disbursal (12),
\* the products that are not available are switched off unless their own migration, 13,
\* stopped halfway, and the universe knows its voting center (16).
CompletedMigrationsHold ==
    isLiveDeployment =>
        /\ Past(6) => /\ Access(access[IcbmPolicy], DEPLOYER, "accessController", GLOBAL) = "Unset"
                      /\ \A object \in {GLOBAL, IcbmPolicy} :
                           Access(access[IcbmPolicy], Account("ACCESS_CONTROLLER"),
                                  "accessController", object) = "Allow"
        /\ Past(11) => DepositsAreManaged
        /\ Past(12) => PenaltiesReachDisbursal
        /\ Past(13) /\ 13 \notin interrupted =>
             ~\E product \in AllProducts, member \in contracts[UniverseInUse].collections :
                ~product.available /\ member[2][1] = product.name
        /\ Past(16) => SingletonOf("votingCenter") # Zero

\* Migration 201 takes every right the migrations gave the deployer for their own use away
\* again from the contracts in use: of the roles it names the deployer holds none on what the
\* universe registers, whichever of the attempts granted them.
TemporaryRightsDropped ==
    isLiveDeployment /\ ~config.isolated /\ status = "done" =>
        \A role \in {"eurtDepositManager", "eurtLegalManager", "identityManager",
                     "tokenRateOracle", "lockedAccountAdmin", "disbursalManager"} :
          \A name \in SingletonNames :
            ~Allowed(access[IcbmPolicy], DEPLOYER, role, SingletonOf(name))

\* The migrations that build an isolated universe leave the ICBM alone: no transaction of
\* theirs changes a contract of the ICBM or a role of its access policy.
IsolatedLeavesIcbmAlone ==
    [][ isLiveDeployment /\ config.isolated /\ Transaction =>
          /\ access'[IcbmPolicy] = access[IcbmPolicy]
          /\ \A a \in DOMAIN contracts :
               contracts[a].policy = IcbmPolicy => contracts'[a] = contracts[a] ]_vars

\* Every deployment that is run again whenever it stops is completed, started over if it
\* stopped in migration 4 after a setController, which succeeds only once; unless it builds
\* an isolated universe, which has no right on the ICBM locks that migration 12 changes.
PlatformIsCompleted == <>(status = "done" \/ config.isolated)

-----------------------------------------------------------------------------
(* Statements of the scripts that the code does not keep *)

\* 16_deploy_voting_center.js: "temporary access to universe, will be dropped in finalize"
TemporaryUniverseAccessDropped ==
    isLiveDeployment /\ ~config.isolated /\ status = "done" =>
        ~May(DEPLOYER, "universeManager", UniverseInUse)

\* 12_deploy_fee_disbursal.js: "add platform wallet to disbursers", and nobody else
OnlyPlatformWalletDisburses ==
    Past(12) => ~Allowed(access[contracts[UniverseInUse].policy], EVERYONE, "disburser",
                         SingletonOf("feeDisbursal"))

=============================================================================
