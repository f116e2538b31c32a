------------------------- MODULE Deployment_proofs --------------------------
(***************************************************************************)
(* The deployment of the platform, for any number of crashes, restarts and *)
(* revocations: what the migrations leave behind holds however often they  *)
(* stopped.  First what each migration does, operation by operation, and   *)
(* what a list of rules makes of a policy; then the inductive invariant,   *)
(* an assertion for every place a migration may have reached, kept by      *)
(* every operation; then the properties.                                   *)
(***************************************************************************)
EXTENDS Deployment, FiniteSums

-----------------------------------------------------------------------------
(* What a list of rules makes of a policy *)

\* A set of natural numbers up to n has a largest one, which is the Max of the folds.
LEMMA MaxIsMember ==
    ASSUME NEW n \in Nat, NEW T \in SUBSET (1 .. n), T # {}
    PROVE  Max(T) \in T
<1> DEFINE Up == {m \in Nat : \A t \in T : t <= m}
<1>1. n \in Up
  OBVIOUS
<1>2. PICK m \in Up : \A k \in Up : m <= k
  BY <1>1, LeastNumber
<1>3. m \in T
  <2>1. SUFFICES ASSUME m \notin T PROVE FALSE
    OBVIOUS
  <2>2. PICK t \in T : TRUE
    OBVIOUS
  <2>3. m \in Nat /\ t \in Nat /\ t <= m /\ t # m /\ t >= 1
    BY <2>1
  <2>4. m - 1 \in Up
    BY <2>1, <2>3
  <2> QED
    BY <1>2, <2>3, <2>4
<1>4. \E x \in T : \A y \in T : x >= y
  BY <1>3
<1> QED
  BY <1>4 DEF Max

\* f and g agree on a subset of S that has a chosen element if they agree without it.
AgreeStepwise(f, g, c, S) ==
    \A s \in SUBSET S : s # {} => /\ c[s] \in s
                                  /\ (f[s \ {c[s]}] = g[s \ {c[s]}] => f[s] = g[s])

\* Two functions of the subsets of a finite set that agree on the empty set and stepwise
\* agree on the whole set.
LEMMA FoldsAgree ==
    ASSUME NEW S, IsFiniteSet(S), NEW f, NEW g, NEW c, f[{}] = g[{}], AgreeStepwise(f, g, c, S)
    PROVE  f[S] = g[S]
<1> DEFINE Bad == {s \in SUBSET S : f[s] # g[s]}
<1>1. SUFFICES ASSUME Bad # {} PROVE FALSE
  OBVIOUS
<1>2. \E T \in Bad : \A U \in Bad : ~ (<<U, T>> \in StrictSubsetOrdering(S))
  <2>1. Bad \subseteq FiniteSubsetsOf(S)
    BY FS_FiniteSubsetsOfFinite
  <2> HIDE DEF Bad
  <2> QED
    BY <1>1, <2>1, FS_StrictSubsetOrderingWellFounded, WFMin
<1>3. PICK T \in Bad : \A U \in Bad : ~ (<<U, T>> \in StrictSubsetOrdering(S))
  BY <1>2
<1>4. T # {} /\ T \in SUBSET S
  OBVIOUS
<1>5. c[T] \in T /\ T \ {c[T]} \in Bad
  BY <1>4 DEF AgreeStepwise
<1>6. <<T \ {c[T]}, T>> \in StrictSubsetOrdering(S)
  BY <1>4, <1>5 DEF StrictSubsetOrdering
<1> QED
  BY <1>3, <1>5, <1>6

KeyOf(rule) == <<rule.subject, rule.role, rule.object>>
HoldsRoles(g, policy, rules) ==
    g = [s \in SUBSET DOMAIN rules |-> IF s = {} THEN policy
                                       ELSE SetUserRole(g[s \ {Max(s)}], rules[Max(s)])]

\* The policy the fold returns, as a function of the rules already set.
LEMMA SetUserRolesIsFold ==
    ASSUME NEW policy, NEW rules
    PROVE  SetUserRoles(policy, rules) = (CHOOSE g : HoldsRoles(g, policy, rules))[DOMAIN rules]
BY DEF SetUserRoles, FoldLeft, MapThenFoldSet, HoldsRoles

\* Any function that sets the rules one by one gives what the fold gives.
LEMMA RolesAreSet ==
    ASSUME NEW policy, NEW n \in Nat, NEW rules, DOMAIN rules = 1 .. n, NEW f,
           HoldsRoles(f, policy, rules)
    PROVE  SetUserRoles(policy, rules) = f[1 .. n]
<1> DEFINE g == CHOOSE h : HoldsRoles(h, policy, rules)
           c == [s \in SUBSET (1 .. n) |-> Max(s)]
<1>1. HoldsRoles(g, policy, rules)
  OBVIOUS
<1> HIDE DEF g
<1>2. g[{}] = f[{}]
  BY <1>1 DEF HoldsRoles
<1>3. \A s \in SUBSET (1 .. n) : s # {} => /\ c[s] \in s
                                         /\ (g[s \ {c[s]}] = f[s \ {c[s]}] => g[s] = f[s])
  BY <1>1, MaxIsMember DEF HoldsRoles
<1>4. IsFiniteSet(1 .. n)
  BY FS_Interval
<1>5. g[1 .. n] = f[1 .. n]
  <2> DEFINE S == 1 .. n
  <2>1. IsFiniteSet(S) /\ AgreeStepwise(g, f, c, S)
    BY <1>3, <1>4 DEF AgreeStepwise
  <2> HIDE DEF S, c
  <2>2. g[S] = f[S]
    BY <1>2, <2>1, FoldsAgree
  <2> QED
    BY <2>2 DEF S
<1> QED
  BY <1>5, SetUserRolesIsFold DEF g

\* The policy denies nothing; each of the n rules sets this state.
AllowsOnly(policy) == policy = [k \in DOMAIN policy |-> "Allow"]
Setting(rules, n, state) == DOMAIN rules = 1 .. n /\ \A i \in 1 .. n : rules[i].state = state

RuleKeys(rules, n) == {KeyOf(rules[i]) : i \in 1 .. n}
Allowing(keys) == [k \in keys |-> "Allow"]

\* Granted rights are added.
LEMMA GrantsAdd ==
    ASSUME NEW policy, AllowsOnly(policy), NEW n \in Nat, NEW rules, Setting(rules, n, "Allow")
    PROVE  SetUserRoles(policy, rules) = Allowing(DOMAIN policy \cup RuleKeys(rules, n))
<1> USE DEF AllowsOnly, Setting
<1> DEFINE G(s) == [k \in DOMAIN policy \cup {KeyOf(rules[i]) : i \in s} |-> "Allow"]
           f == [s \in SUBSET (1 .. n) |-> G(s)]
<1>1. G({}) = policy
  OBVIOUS
<1>2. ASSUME NEW s \in SUBSET (1 .. n), NEW i \in s
      PROVE  G(s) = SetUserRole(G(s \ {i}), rules[i])
  <2> DEFINE Q == G(s \ {i})
  <2>1. DOMAIN Q \cup {KeyOf(rules[i])} = DOMAIN policy \cup {KeyOf(rules[j]) : j \in s}
    OBVIOUS
  <2>2. SetUserRole(Q, rules[i]) = [k \in DOMAIN Q \cup {KeyOf(rules[i])} |->
                                      IF k = KeyOf(rules[i]) THEN "Allow" ELSE Q[k]]
    BY DEF SetUserRole, KeyOf
  <2>3. \A k \in DOMAIN Q : Q[k] = "Allow"
    OBVIOUS
  <2> QED
    BY <2>1, <2>2, <2>3
<1>3. \A s \in SUBSET (1 .. n) : s # {} => Max(s) \in s /\ s \ {Max(s)} \in SUBSET (1 .. n)
  BY MaxIsMember
<1>4. HoldsRoles(f, policy, rules)
  <2> HIDE DEF G
  <2>1. \A s \in SUBSET (1 .. n) :
          f[s] = IF s = {} THEN policy ELSE SetUserRole(f[s \ {Max(s)}], rules[Max(s)])
    BY <1>1, <1>2, <1>3
  <2> QED
    BY <2>1 DEF HoldsRoles
<1>5. f[1 .. n] = G(1 .. n)
  OBVIOUS
<1> HIDE DEF f
<1>6. SetUserRoles(policy, rules) = f[1 .. n]
  BY <1>4, RolesAreSet
<1> QED
  BY <1>5, <1>6 DEF RuleKeys, Allowing

\* Dropped rights are removed.
LEMMA DropsRemove ==
    ASSUME NEW policy, AllowsOnly(policy), NEW n \in Nat, NEW rules, Setting(rules, n, "Unset")
    PROVE  SetUserRoles(policy, rules) = Allowing(DOMAIN policy \ RuleKeys(rules, n))
<1> USE DEF AllowsOnly, Setting
<1> DEFINE G(s) == [k \in DOMAIN policy \ {KeyOf(rules[i]) : i \in s} |-> "Allow"]
           f == [s \in SUBSET (1 .. n) |-> G(s)]
<1>1. G({}) = policy
  OBVIOUS
<1>2. ASSUME NEW s \in SUBSET (1 .. n), NEW i \in s
      PROVE  G(s) = SetUserRole(G(s \ {i}), rules[i])
  <2> DEFINE Q == G(s \ {i})
  <2>1. DOMAIN Q \ {KeyOf(rules[i])} = DOMAIN policy \ {KeyOf(rules[j]) : j \in s}
    OBVIOUS
  <2>2. SetUserRole(Q, rules[i]) = [k \in DOMAIN Q \ {KeyOf(rules[i])} |-> Q[k]]
    BY DEF SetUserRole, KeyOf
  <2>3. \A k \in DOMAIN Q : Q[k] = "Allow"
    OBVIOUS
  <2> QED
    BY <2>1, <2>2, <2>3
<1>3. \A s \in SUBSET (1 .. n) : s # {} => Max(s) \in s /\ s \ {Max(s)} \in SUBSET (1 .. n)
  BY MaxIsMember
<1>4. HoldsRoles(f, policy, rules)
  <2> HIDE DEF G
  <2>1. \A s \in SUBSET (1 .. n) :
          f[s] = IF s = {} THEN policy ELSE SetUserRole(f[s \ {Max(s)}], rules[Max(s)])
    BY <1>1, <1>2, <1>3
  <2> QED
    BY <2>1 DEF HoldsRoles
<1>5. f[1 .. n] = G(1 .. n)
  OBVIOUS
<1> HIDE DEF f
<1>6. SetUserRoles(policy, rules) = f[1 .. n]
  BY <1>4, RolesAreSet
<1> QED
  BY <1>5, <1>6 DEF RuleKeys, Allowing

-----------------------------------------------------------------------------
(* The migrations, operation by operation *)

\* The operation o sets the rights of these keys, still references, to one state.
SetsRoles(o, policy, keys, state) ==
    /\ o.op = "roles" /\ o.policy = policy
    /\ \E n \in Nat : DOMAIN o.rules = 1 .. n
    /\ \A i \in DOMAIN o.rules :
         o.rules[i] = [subject |-> o.rules[i].subject, role |-> o.rules[i].role,
                       object |-> o.rules[i].object, state |-> state]
    /\ {KeyOf(o.rules[i]) : i \in DOMAIN o.rules} = keys

\* A single rule.
LEMMA OneRule ==
    ASSUME NEW p, NEW s, NEW r, NEW o
    PROVE  /\ SetsRoles(Roles(p, <<Grant(s, r, o)>>), p, {<<s, r, o>>}, "Allow")
           /\ SetsRoles(Roles(p, <<Drop(s, r, o)>>), p, {<<s, r, o>>}, "Unset")
<1>1. ASSUME NEW rule, NEW state,
             rule = [subject |-> s, role |-> r, object |-> o, state |-> state]
      PROVE  SetsRoles(Roles(p, <<rule>>), p, {<<s, r, o>>}, state)
  <2>1. DOMAIN <<rule>> = 1 .. 1 /\ <<rule>>[1] = rule
    OBVIOUS
  <2>2. {KeyOf(<<rule>>[i]) : i \in DOMAIN <<rule>>} = {<<s, r, o>>}
    BY <1>1, <2>1 DEF KeyOf
  <2> QED
    BY <1>1, <2>1, <2>2 DEF SetsRoles, Roles
<1> QED
  BY <1>1 DEF Grant, Drop

\* The rights of the ICBM commitment that migration 10 takes.
IssuerRulesKeys ==
    {   <<Singleton("icbmCommitment"), "neumarkIssuer", Singleton("neumark")>>,
        <<Singleton("icbmCommitment"), "transferAdmin", Singleton("neumark")>>}
IssuerRules ==
    <<  Drop(Singleton("icbmCommitment"), "neumarkIssuer", Singleton("neumark")),
        Drop(Singleton("icbmCommitment"), "transferAdmin", Singleton("neumark"))>>

\* What each of these lists of rules sets (10).
LEMMA IssuerRulesSet ==
    SetsRoles(Roles(UniversePolicy, IssuerRules), UniversePolicy, IssuerRulesKeys, "Unset")
<1>1. DOMAIN IssuerRules = 1 .. 2
  BY DEF IssuerRules
<1>2. \A i \in 1 .. 2 :
        IssuerRules[i] = [subject |-> IssuerRules[i].subject, role |-> IssuerRules[i].role,
                 object |-> IssuerRules[i].object, state |-> "Unset"]
  BY DEF IssuerRules, Drop
<1>3. {KeyOf(IssuerRules[i]) : i \in 1 .. 2} = IssuerRulesKeys
  BY DEF IssuerRules, IssuerRulesKeys, Drop, KeyOf
<1> QED
  BY <1>1, <1>2, <1>3 DEF SetsRoles, Roles

\* The rights of the platform (10).
PlatformRulesKeys ==
    {   <<Of("IDENTITY_MANAGER"), "identityManager", Everything>>,
        <<Of("EURT_LEGAL_MANAGER"), "eurtLegalManager", Everything>>,
        <<Of("EURT_DEPOSIT_MANAGER"), "eurtDepositManager", Everything>>,
        <<Singleton("euroLock"), "eurtDepositManager", Singleton("euroToken")>>,
        <<Of("TOKEN_RATE_ORACLE"), "tokenRateOracle", Singleton("tokenExchangeRateOracle")>>,
        <<Of("GAS_EXCHANGE"), "gasExchange", Singleton("gasExchange")>>,
        <<Of("UNIVERSE_MANAGER"), "universeManager", Universe>>}
PlatformRules ==
    <<  Grant(Of("IDENTITY_MANAGER"), "identityManager", Everything),
        Grant(Of("EURT_LEGAL_MANAGER"), "eurtLegalManager", Everything),
        Grant(Of("EURT_DEPOSIT_MANAGER"), "eurtDepositManager", Everything),
        Grant(Singleton("euroLock"), "eurtDepositManager", Singleton("euroToken")),
        Grant(Of("TOKEN_RATE_ORACLE"), "tokenRateOracle", Singleton("tokenExchangeRateOracle")),
        Grant(Of("GAS_EXCHANGE"), "gasExchange", Singleton("gasExchange")),
        Grant(Of("UNIVERSE_MANAGER"), "universeManager", Universe)>>

\* The platform's rights are granted.
LEMMA PlatformRulesSet ==
    SetsRoles(Roles(UniversePolicy, PlatformRules), UniversePolicy, PlatformRulesKeys, "Allow")
<1>1. DOMAIN PlatformRules = 1 .. 7
  BY DEF PlatformRules
<1>2. \A i \in 1 .. 7 :
        PlatformRules[i] = [subject |-> PlatformRules[i].subject, role |-> PlatformRules[i].role,
                 object |-> PlatformRules[i].object, state |-> "Allow"]
  BY DEF PlatformRules, Grant
<1>3. {KeyOf(PlatformRules[i]) : i \in 1 .. 7} = PlatformRulesKeys
  BY DEF PlatformRules, PlatformRulesKeys, Grant, KeyOf
<1> QED
  BY <1>1, <1>2, <1>3 DEF SetsRoles, Roles

\* The rights the deployer takes to set up the platform (11).
SetupRulesKeys ==
    {   <<Deployer, "eurtLegalManager", Everything>>,
        <<Deployer, "eurtDepositManager", Everything>>,
        <<Deployer, "identityManager", Everything>>,
        <<Deployer, "tokenRateOracle", Everything>>}
SetupRules ==
    <<  Grant(Deployer, "eurtLegalManager", Everything),
        Grant(Deployer, "eurtDepositManager", Everything),
        Grant(Deployer, "identityManager", Everything),
        Grant(Deployer, "tokenRateOracle", Everything)>>

\* The deployer's rights are granted.
LEMMA SetupRulesSet ==
    SetsRoles(Roles(UniversePolicy, SetupRules), UniversePolicy, SetupRulesKeys, "Allow")
<1>1. DOMAIN SetupRules = 1 .. 4
  BY DEF SetupRules
<1>2. \A i \in 1 .. 4 :
        SetupRules[i] = [subject |-> SetupRules[i].subject, role |-> SetupRules[i].role,
                 object |-> SetupRules[i].object, state |-> "Allow"]
  BY DEF SetupRules, Grant
<1>3. {KeyOf(SetupRules[i]) : i \in 1 .. 4} = SetupRulesKeys
  BY DEF SetupRules, SetupRulesKeys, Grant, KeyOf
<1> QED
  BY <1>1, <1>2, <1>3 DEF SetsRoles, Roles

\* The rights the deployer takes for the fee disbursal, and its own (12).
DisbursalRulesKeys ==
    {   <<Deployer, "universeManager", Universe>>,
        <<Deployer, "eurtLegalManager", Everything>>,
        <<Deployer, "eurtDepositManager", Everything>>,
        <<Deployer, "lockedAccountAdmin", Everything>>,
        <<Undefined, "disburser", Deployed("feeDisbursal")>>,
        <<Deployed("feeDisbursal"), "eurtDepositManager", Singleton("euroToken")>>}
DisbursalRules ==
    <<  Grant(Deployer, "universeManager", Universe),
        Grant(Deployer, "eurtLegalManager", Everything),
        Grant(Deployer, "eurtDepositManager", Everything),
        Grant(Deployer, "lockedAccountAdmin", Everything),
        Grant(Undefined, "disburser", Deployed("feeDisbursal")),
        Grant(Deployed("feeDisbursal"), "eurtDepositManager", Singleton("euroToken"))>>

\* The rights of migration 12 are granted.
LEMMA DisbursalRulesSet ==
    SetsRoles(Roles(UniversePolicy, DisbursalRules), UniversePolicy, DisbursalRulesKeys, "Allow")
<1>1. DOMAIN DisbursalRules = 1 .. 6
  BY DEF DisbursalRules
<1>2. \A i \in 1 .. 6 :
        DisbursalRules[i] = [subject |-> DisbursalRules[i].subject, role |-> DisbursalRules[i].role,
                 object |-> DisbursalRules[i].object, state |-> "Allow"]
  BY DEF DisbursalRules, Grant
<1>3. {KeyOf(DisbursalRules[i]) : i \in 1 .. 6} = DisbursalRulesKeys
  BY DEF DisbursalRules, DisbursalRulesKeys, Grant, KeyOf
<1> QED
  BY <1>1, <1>2, <1>3 DEF SetsRoles, Roles

\* The rights the deployer gives back (201).
FinalRulesKeys ==
    {   <<Deployer, "eurtDepositManager", Everything>>,
        <<Deployer, "eurtLegalManager", Everything>>,
        <<Deployer, "identityManager", Everything>>,
        <<Deployer, "tokenRateOracle", Everything>>,
        <<Deployer, "lockedAccountAdmin", Everything>>,
        <<Deployer, "disbursalManager", Everything>>,
        <<Deployer, "universeManager", Universe>>}
FinalRules ==
    <<  Drop(Deployer, "eurtDepositManager", Everything),
        Drop(Deployer, "eurtLegalManager", Everything),
        Drop(Deployer, "identityManager", Everything),
        Drop(Deployer, "tokenRateOracle", Everything),
        Drop(Deployer, "lockedAccountAdmin", Everything),
        Drop(Deployer, "disbursalManager", Everything),
        Drop(Deployer, "universeManager", Universe)>>

\* The deployer's rights are dropped.
LEMMA FinalRulesSet ==
    SetsRoles(Roles(UniversePolicy, FinalRules), UniversePolicy, FinalRulesKeys, "Unset")
<1>1. DOMAIN FinalRules = 1 .. 7
  BY DEF FinalRules
<1>2. \A i \in 1 .. 7 :
        FinalRules[i] = [subject |-> FinalRules[i].subject, role |-> FinalRules[i].role,
                 object |-> FinalRules[i].object, state |-> "Unset"]
  BY DEF FinalRules, Drop
<1>3. {KeyOf(FinalRules[i]) : i \in 1 .. 7} = FinalRulesKeys
  BY DEF FinalRules, FinalRulesKeys, Drop, KeyOf
<1> QED
  BY <1>1, <1>2, <1>3 DEF SetsRoles, Roles

\* Migration 2 deploys the ICBM.
LEMMA Program2 ==
    /\ Len(Migration(2)) = 8
    /\ Migration(2)[1] = Deploy("policy")
    /\ Migration(2)[2] = Deploy("forkArbiter")
    /\ Migration(2)[3] = Deploy("neumark")
    /\ Migration(2)[4] = Deploy("icbmEtherToken")
    /\ Migration(2)[5] = Deploy("icbmEuroToken")
    /\ Migration(2)[6] = Deploy("icbmEtherLock")
    /\ Migration(2)[7] = Deploy("icbmEuroLock")
    /\ Migration(2)[8] = Deploy("commitment")
BY DEF Migration, Migration2

\* Migration 3 sets its roles and lets the old euro token move.
LEMMA Program3 ==
    /\ Len(Migration(3)) = 12
    /\ Migration(3)[1] = Roles(Deployed("policy"), <<Grant(Deployed("commitment"), "neumarkIssuer", Deployed("neumark"))>>)
    /\ Migration(3)[2] = Roles(Deployed("policy"), <<Grant(Deployed("commitment"), "transferAdmin", Deployed("neumark"))>>)
    /\ Migration(3)[3] = Roles(Deployed("policy"), <<Grant(Everything, "neumarkBurner", Deployed("neumark"))>>)
    /\ Migration(3)[4] = Roles(Deployed("policy"), <<Grant(Of("LOCKED_ACCOUNT_ADMIN"), "lockedAccountAdmin", Everything)>>)
    /\ Migration(3)[5] = Roles(Deployed("policy"), <<Grant(Of("WHITELIST_ADMIN"), "whitelistAdmin", Deployed("commitment"))>>)
    /\ Migration(3)[6] = Roles(Deployed("policy"), <<Grant(Of("PLATFORM_OPERATOR_REPRESENTATIVE"), "platformOperatorRepresentative", Everything)>>)
    /\ Migration(3)[7] = Roles(Deployed("policy"), <<Grant(Of("EURT_DEPOSIT_MANAGER"), "eurtDepositManager", Deployed("icbmEuroToken"))>>)
    /\ Migration(3)[8] = Roles(Deployed("policy"), <<Grant(Deployer, "eurtDepositManager", Deployed("icbmEuroToken"))>>)
    /\ Migration(3)[9] = AllowFrom(Deployed("icbmEuroToken"), Deployed("commitment"))
    /\ Migration(3)[10] = AllowTo(Deployed("icbmEuroToken"), Deployed("commitment"))
    /\ Migration(3)[11] = AllowTo(Deployed("icbmEuroToken"), Deployed("icbmEuroLock"))
    /\ Migration(3)[12] = AllowFrom(Deployed("icbmEuroToken"), Deployed("icbmEuroLock"))
BY DEF Migration, Migration3

\* Migration 4 attaches the locks.
LEMMA Program4 ==
    /\ Len(Migration(4)) = 3
    /\ Migration(4)[1] = Roles(Deployed("policy"), <<Grant(Deployer, "lockedAccountAdmin", Everything)>>)
    /\ Migration(4)[2] = Attach(Icbm("euroLock"))
    /\ Migration(4)[3] = Attach(Icbm("etherLock"))
BY DEF Migration, Migration4

\* Migration 5 attaches the agreements on a development network.
LEMMA Program5Dev ==
    ASSUME ~isLiveDeployment
    PROVE  /\ Len(Migration(5)) = 2
           /\ Migration(5)[1] = Amend(Deployed("neumark"))
           /\ Migration(5)[2] = Amend(Deployed("commitment"))
BY DEF Migration, Migration5

\* On a live network it has nothing to do.
LEMMA Program5Live ==
    ASSUME isLiveDeployment
    PROVE  /\ Len(Migration(5)) = 0
BY DEF Migration, Migration5

\* Migration 6 gives the ICBM to the access controller.
LEMMA Program6Live ==
    ASSUME isLiveDeployment
    PROVE  /\ Len(Migration(6)) = 5
           /\ Migration(6)[1] = Roles(Deployed("policy"), <<Drop(Deployer, "eurtDepositManager", Deployed("icbmEuroToken"))>>)
           /\ Migration(6)[2] = Roles(Deployed("policy"), <<Drop(Deployer, "lockedAccountAdmin", Everything)>>)
           /\ Migration(6)[3] = Roles(Deployed("policy"), <<Grant(Of("ACCESS_CONTROLLER"), "accessController", Everything)>>)
           /\ Migration(6)[4] = Roles(Deployed("policy"), <<Grant(Of("ACCESS_CONTROLLER"), "accessController", Deployed("policy"))>>)
           /\ Migration(6)[5] = Roles(Deployed("policy"), <<Drop(Deployer, "accessController", Everything)>>)
BY DEF Migration, Migration6

\* On a development network it has nothing to do.
LEMMA Program6Dev ==
    ASSUME ~isLiveDeployment
    PROVE  /\ Len(Migration(6)) = 0
BY DEF Migration, Migration6

\* Migration 9 deploys the platform under the policy of the ICBM
LEMMA Program9Shared ==
    ASSUME ~config.isolated
    PROVE  /\ Len(Migration(9)) = 11
           /\ Migration(9)[1] = Deploy("universe")
           /\ Migration(9)[2] = Deploy("platformTerms")
           /\ Migration(9)[3] = Deploy("identityRegistry")
           /\ Migration(9)[4] = Deploy("etherToken")
           /\ Migration(9)[5] = Deploy("euroTokenController")
           /\ Migration(9)[6] = Deploy("euroToken")
           /\ Migration(9)[7] = Deploy("etherLock")
           /\ Migration(9)[8] = Deploy("euroLock")
           /\ Migration(9)[9] = Deploy("gasExchange")
           /\ Migration(9)[10] = Roles(UniversePolicy, <<Grant(Deployer, "universeManager", Universe)>>)
           /\ Migration(9)[11] = SetSingletons(PlatformSingletons)
BY DEF Migration, Migration9

\* or under a policy of its own.
LEMMA Program9Isolated ==
    ASSUME config.isolated
    PROVE  /\ Len(Migration(9)) = 12
           /\ Migration(9)[1] = Deploy("policy")
           /\ Migration(9)[2] = Deploy("universe")
           /\ Migration(9)[3] = Deploy("platformTerms")
           /\ Migration(9)[4] = Deploy("identityRegistry")
           /\ Migration(9)[5] = Deploy("etherToken")
           /\ Migration(9)[6] = Deploy("euroTokenController")
           /\ Migration(9)[7] = Deploy("euroToken")
           /\ Migration(9)[8] = Deploy("etherLock")
           /\ Migration(9)[9] = Deploy("euroLock")
           /\ Migration(9)[10] = Deploy("gasExchange")
           /\ Migration(9)[11] = Roles(UniversePolicy, <<Grant(Deployer, "universeManager", Universe)>>)
           /\ Migration(9)[12] = SetSingletons(PlatformSingletons)
BY DEF Migration, Migration9

\* Migration 10 sets the roles of the platform.
LEMMA Program10Shared ==
    ASSUME ~config.isolated
    PROVE  /\ Len(Migration(10)) = 2
           /\ Migration(10)[1] = Roles(UniversePolicy, IssuerRules)
           /\ Migration(10)[2] = Roles(UniversePolicy, PlatformRules)
BY DEF Migration, Migration10, IssuerRules, PlatformRules

\* An isolated universe has no rights of the ICBM to take.
LEMMA Program10Isolated ==
    ASSUME config.isolated
    PROVE  /\ Len(Migration(10)) = 1
           /\ Migration(10)[1] = Roles(UniversePolicy, PlatformRules)
BY DEF Migration, Migration10, PlatformRules

\* Migration 11 sets up the platform.
LEMMA Program11 ==
    /\ Len(Migration(11)) = 6
    /\ Migration(11)[1] = Roles(UniversePolicy, SetupRules)
    /\ Migration(11)[2] = Settings
    /\ Migration(11)[3] = DepositManager(Deployer)
    /\ Migration(11)[4] = FeeSettings
    /\ Migration(11)[5] = DepositManager(Of("EURT_DEPOSIT_MANAGER"))
    /\ Migration(11)[6] = Roles(UniversePolicy, <<Grant(Of("PLATFORM_OPERATOR_WALLET"), "reclaimer", Singleton("gasExchange"))>>)
BY DEF Migration, Migration11, SetupRules

\* Migration 12 deploys the fee disbursal, on a live network also new platform terms.
LEMMA Program12Live ==
    ASSUME isLiveDeployment
    PROVE  /\ Len(Migration(12)) = 12
           /\ Migration(12)[1] = Deploy("feeDisbursalController")
           /\ Migration(12)[2] = Deploy("feeDisbursal")
           /\ Migration(12)[3] = Roles(UniversePolicy, DisbursalRules)
           /\ Migration(12)[4] = SetSingletons([feeDisbursal |-> Deployed("feeDisbursal")])
           /\ Migration(12)[5] = Settings
           /\ Migration(12)[6] = Penalty(Singleton("icbmEuroLock"))
           /\ Migration(12)[7] = Penalty(Singleton("icbmEtherLock"))
           /\ Migration(12)[8] = AllowTo(Singleton("icbmEuroToken"), Deployed("feeDisbursal"))
           /\ Migration(12)[9] = AllowFrom(Singleton("icbmEuroToken"), Deployed("feeDisbursal"))
           /\ Migration(12)[10] = SetCollections({<<"paymentToken", Singleton("euroToken")>>, <<"paymentToken", Singleton("etherToken")>>}, TRUE)
           /\ Migration(12)[11] = Deploy("platformTerms")
           /\ Migration(12)[12] = SetSingletons([platformTerms |-> Deployed("platformTerms")])
BY DEF Migration, Migration12, NewTerms, DisbursalRules

\* And on a development network.
LEMMA Program12Dev ==
    ASSUME ~isLiveDeployment
    PROVE  /\ Len(Migration(12)) = 10
           /\ Migration(12)[1] = Deploy("feeDisbursalController")
           /\ Migration(12)[2] = Deploy("feeDisbursal")
           /\ Migration(12)[3] = Roles(UniversePolicy, DisbursalRules)
           /\ Migration(12)[4] = SetSingletons([feeDisbursal |-> Deployed("feeDisbursal")])
           /\ Migration(12)[5] = Settings
           /\ Migration(12)[6] = Penalty(Singleton("icbmEuroLock"))
           /\ Migration(12)[7] = Penalty(Singleton("icbmEtherLock"))
           /\ Migration(12)[8] = AllowTo(Singleton("icbmEuroToken"), Deployed("feeDisbursal"))
           /\ Migration(12)[9] = AllowFrom(Singleton("icbmEuroToken"), Deployed("feeDisbursal"))
           /\ Migration(12)[10] = SetCollections({<<"paymentToken", Singleton("euroToken")>>, <<"paymentToken", Singleton("etherToken")>>}, TRUE)
BY DEF Migration, Migration12, NewTerms, DisbursalRules

\* The products of a step are deployed, listed together and, on a live network, the
\* unavailable ones taken off again (13, 15).
ManageUniverse == Roles(UniversePolicy, <<Grant(Deployer, "universeManager", Universe)>>)
Constraint(name) == <<"etoTermsConstraints", Deployed(name)>>
ListFirst ==
    SetCollections({Constraint("retail_eto_li_vma"), Constraint("hnwi_eto_de_security")}, TRUE)
DelistFirst == SetCollections({Constraint("hnwi_eto_de_security")}, FALSE)
ListSecond == SetCollections({Constraint("retail_eto_li_security")}, TRUE)

\* The operations on the first batch of products,
LEMMA FirstConstraints ==
    DeployConstraints(1) =
       <<ManageUniverse>> \o <<Deploy("retail_eto_li_vma"), Deploy("hnwi_eto_de_security")>>
       \o <<ListFirst>> \o (IF isLiveDeployment THEN <<DelistFirst>> ELSE << >>)
<1> DEFINE p == [name |-> "retail_eto_li_vma", available |-> TRUE]
           q == [name |-> "hnwi_eto_de_security", available |-> FALSE]
           C(products) == {<<"etoTermsConstraints", Deployed(product.name)>> : product \in products}
<1>1. Products[1] = <<p, q>>
  BY DEF Products
<1>2. p.name = "retail_eto_li_vma" /\ q.name = "hnwi_eto_de_security" /\ p.available /\ ~q.available
  OBVIOUS
<1> HIDE DEF p, q
<1>3. Range(Products[1]) = {p, q}
  BY <1>1 DEF Range
<1>4. {product \in Range(Products[1]) : ~product.available} = {q}
  BY <1>2, <1>3
<1>5. [i \in DOMAIN Products[1] |-> Deploy(Products[1][i].name)] = <<Deploy(p.name), Deploy(q.name)>>
  BY <1>1
<1>6. C({p, q}) = {Constraint(p.name), Constraint(q.name)} /\ C({q}) = {Constraint(q.name)}
  BY DEF Constraint
<1> QED
  BY <1>2, <1>3, <1>4, <1>5, <1>6
  DEF DeployConstraints, ManageUniverse, ListFirst, DelistFirst, Constraint

\* and on the second.
LEMMA SecondConstraints ==
    DeployConstraints(2) =
       <<ManageUniverse>> \o <<Deploy("retail_eto_li_security")>> \o <<ListSecond>> \o << >>
<1> DEFINE p == [name |-> "retail_eto_li_security", available |-> TRUE]
           C(products) == {<<"etoTermsConstraints", Deployed(product.name)>> : product \in products}
<1>1. Products[2] = <<p>>
  BY DEF Products
<1>2. p.name = "retail_eto_li_security" /\ p.available
  OBVIOUS
<1> HIDE DEF p
<1>3. Range(Products[2]) = {p}
  BY <1>1 DEF Range
<1>4. {product \in Range(Products[2]) : ~product.available} = {}
  BY <1>2, <1>3
<1>5. [i \in DOMAIN Products[2] |-> Deploy(Products[2][i].name)] = <<Deploy(p.name)>>
  BY <1>1
<1>6. C({p}) = {Constraint(p.name)}
  BY DEF Constraint
<1> QED
  BY <1>2, <1>3, <1>4, <1>5, <1>6 DEF DeployConstraints, ManageUniverse, ListSecond, Constraint

\* Sequences of operations that are put together, read at each place.
LEMMA SevenOperations ==
    ASSUME NEW a, NEW b, NEW c, NEW d, NEW e, NEW f, NEW g
    PROVE  LET s == (<<a>> \o <<b, c>> \o <<d>> \o <<e>>) \o <<f, g>>
           IN /\ Len(s) = 7 /\ s[1] = a /\ s[2] = b /\ s[3] = c /\ s[4] = d /\ s[5] = e
              /\ s[6] = f /\ s[7] = g
OBVIOUS

\* Four of them.
LEMMA FourOperations ==
    ASSUME NEW a, NEW b, NEW c, NEW d
    PROVE  LET s == (<<a>> \o <<b, c>> \o <<d>> \o << >>) \o << >>
           IN Len(s) = 4 /\ s[1] = a /\ s[2] = b /\ s[3] = c /\ s[4] = d
OBVIOUS

\* Three of them.
LEMMA ThreeOperations ==
    ASSUME NEW a, NEW b, NEW c
    PROVE  LET s == <<a>> \o <<b>> \o <<c>> \o << >>
           IN Len(s) = 3 /\ s[1] = a /\ s[2] = b /\ s[3] = c
OBVIOUS

\* Migration 13 on a live network.
LEMMA Program13Live ==
    ASSUME isLiveDeployment
    PROVE  /\ Len(Migration(13)) = 7
           /\ Migration(13)[1] = ManageUniverse
           /\ Migration(13)[2] = Deploy("retail_eto_li_vma")
           /\ Migration(13)[3] = Deploy("hnwi_eto_de_security")
           /\ Migration(13)[4] = ListFirst
           /\ Migration(13)[5] = DelistFirst
           /\ Migration(13)[6] = Deploy("platformTerms")
           /\ Migration(13)[7] = SetSingletons([platformTerms |-> Deployed("platformTerms")])
<1> DEFINE b == Deploy("retail_eto_li_vma")
           c == Deploy("hnwi_eto_de_security")
           f == Deploy("platformTerms")
           g == SetSingletons([platformTerms |-> Deployed("platformTerms")])
<1>1. Migration(13) = DeployConstraints(1) \o NewTerms
  BY DEF Migration, Migration13
<1>2. DeployConstraints(1) = <<ManageUniverse>> \o <<b, c>> \o <<ListFirst>> \o <<DelistFirst>>
  BY FirstConstraints
<1>3. NewTerms = <<f, g>>
  BY DEF NewTerms
<1> HIDE DEF b, c, f, g
<1>4. Migration(13) =
        (<<ManageUniverse>> \o <<b, c>> \o <<ListFirst>> \o <<DelistFirst>>) \o <<f, g>>
  BY <1>1, <1>2, <1>3
<1>5. /\ Len(Migration(13)) = 7 /\ Migration(13)[1] = ManageUniverse
      /\ Migration(13)[2] = b /\ Migration(13)[3] = c /\ Migration(13)[4] = ListFirst
      /\ Migration(13)[5] = DelistFirst /\ Migration(13)[6] = f /\ Migration(13)[7] = g
  BY <1>4, SevenOperations
<1> QED
  BY <1>5 DEF b, c, f, g

\* And on a development network.
LEMMA Program13Dev ==
    ASSUME ~isLiveDeployment
    PROVE  /\ Len(Migration(13)) = 4
           /\ Migration(13)[1] = ManageUniverse
           /\ Migration(13)[2] = Deploy("retail_eto_li_vma")
           /\ Migration(13)[3] = Deploy("hnwi_eto_de_security")
           /\ Migration(13)[4] = ListFirst
<1> DEFINE b == Deploy("retail_eto_li_vma")
           c == Deploy("hnwi_eto_de_security")
<1>1. Migration(13) = DeployConstraints(1) \o NewTerms
  BY DEF Migration, Migration13
<1>2. DeployConstraints(1) = <<ManageUniverse>> \o <<b, c>> \o <<ListFirst>> \o << >>
  BY FirstConstraints
<1>3. NewTerms = << >>
  BY DEF NewTerms
<1> HIDE DEF b, c
<1>4. Migration(13) = (<<ManageUniverse>> \o <<b, c>> \o <<ListFirst>> \o << >>) \o << >>
  BY <1>1, <1>2, <1>3
<1>5. /\ Len(Migration(13)) = 4 /\ Migration(13)[1] = ManageUniverse
      /\ Migration(13)[2] = b /\ Migration(13)[3] = c /\ Migration(13)[4] = ListFirst
  BY <1>4, FourOperations
<1> QED
  BY <1>5 DEF b, c

\* Migration 15 deploys the second product.
LEMMA Program15 ==
    /\ Len(Migration(15)) = 3
    /\ Migration(15)[1] = ManageUniverse
    /\ Migration(15)[2] = Deploy("retail_eto_li_security")
    /\ Migration(15)[3] = ListSecond
<1> DEFINE b == Deploy("retail_eto_li_security")
<1>1. Migration(15) = DeployConstraints(2)
  BY DEF Migration, Migration15
<1>2. DeployConstraints(2) = <<ManageUniverse>> \o <<b>> \o <<ListSecond>> \o << >>
  BY SecondConstraints
<1> HIDE DEF b
<1>3. /\ Len(Migration(15)) = 3 /\ Migration(15)[1] = ManageUniverse
      /\ Migration(15)[2] = b /\ Migration(15)[3] = ListSecond
  BY <1>1, <1>2, ThreeOperations
<1> QED
  BY <1>3 DEF b

\* Migration 14 replaces the controller of the fee disbursal.
LEMMA Program14 ==
    /\ Len(Migration(14)) = 3
    /\ Migration(14)[1] = Roles(UniversePolicy, <<Grant(Deployer, "disbursalManager", Everything)>>)
    /\ Migration(14)[2] = Deploy("feeDisbursalController")
    /\ Migration(14)[3] = NewFeeController
BY DEF Migration, Migration14

\* Migration 16 deploys the voting center.
LEMMA Program16 ==
    /\ Len(Migration(16)) = 4
    /\ Migration(16)[1] = Deploy("votingController")
    /\ Migration(16)[2] = Deploy("votingCenter")
    /\ Migration(16)[3] = Roles(UniversePolicy, <<Grant(Deployer, "universeManager", Everything)>>)
    /\ Migration(16)[4] = SetSingletons([votingCenter |-> Deployed("votingCenter")])
BY DEF Migration, Migration16

\* Migration 201 drops the rights of the deployer, on a live network that is not isolated.
LEMMA Program201Live ==
    ASSUME isLiveDeployment, ~config.isolated
    PROVE  /\ Len(Migration(201)) = 1
           /\ Migration(201)[1] = Roles(UniversePolicy, FinalRules)
BY DEF Migration, Migration201, FinalRules

\* Elsewhere it has nothing to do.
LEMMA Program201Dev ==
    ASSUME ~isLiveDeployment \/ config.isolated
    PROVE  /\ Len(Migration(201)) = 0
BY DEF Migration, Migration201

-----------------------------------------------------------------------------
(* The order of the migrations, and how long each is *)

StepSet == {2, 3, 4, 5, 6, 9, 10, 11, 12, 13, 14, 15, 16, 201}
NextStep(n) ==
    CASE n = 2 -> 3 [] n = 3 -> 4 [] n = 4 -> 5 [] n = 5 -> 6 [] n = 6 -> 9 [] n = 9 -> 10
      [] n = 10 -> 11 [] n = 11 -> 12 [] n = 12 -> 13 [] n = 13 -> 14 [] n = 14 -> 15
      [] n = 15 -> 16 [] n = 16 -> 201

\* The migrations of the ICBM are skipped once it is configured.
Skipped == ShouldSkipStep(step)

Offset == IF config.isolated THEN 1 ELSE 0
LengthOf(n) ==
    CASE n = 2 -> 8 [] n = 3 -> 12 [] n = 4 -> 3
      [] n = 5 -> IF isLiveDeployment THEN 0 ELSE 2
      [] n = 6 -> IF isLiveDeployment THEN 5 ELSE 0
      [] n = 9 -> 11 + Offset [] n = 10 -> 2 - Offset [] n = 11 -> 6
      [] n = 12 -> IF isLiveDeployment THEN 12 ELSE 10
      [] n = 13 -> IF isLiveDeployment THEN 7 ELSE 4
      [] n = 14 -> 3 [] n = 15 -> 3 [] n = 16 -> 4
      [] n = 201 -> IF isLiveDeployment /\ ~config.isolated THEN 1 ELSE 0

\* The place of each migration in the order they run in.
LEMMA Positions ==
    /\ Position(2) = 1 /\ Position(3) = 2 /\ Position(4) = 3 /\ Position(5) = 4
    /\ Position(6) = 5 /\ Position(9) = 6 /\ Position(10) = 7 /\ Position(11) = 8
    /\ Position(12) = 9 /\ Position(13) = 10 /\ Position(14) = 11 /\ Position(15) = 12
    /\ Position(16) = 13 /\ Position(201) = 14
<1>1. DOMAIN Steps = 1 .. 14
  BY DEF Steps
<1>2. \A i \in 1 .. 14 : Position(Steps[i]) = i
  <2> SUFFICES ASSUME NEW i \in 1 .. 14 PROVE Position(Steps[i]) = i
    OBVIOUS
  <2>1. \A j \in 1 .. 14 : Steps[j] = Steps[i] => j = i
    BY DEF Steps
  <2> QED
    BY <1>1, <2>1 DEF Position
<1>3. /\ Steps[1] = 2 /\ Steps[2] = 3 /\ Steps[3] = 4 /\ Steps[4] = 5 /\ Steps[5] = 6
      /\ Steps[6] = 9 /\ Steps[7] = 10 /\ Steps[8] = 11 /\ Steps[9] = 12 /\ Steps[10] = 13
      /\ Steps[11] = 14 /\ Steps[12] = 15 /\ Steps[13] = 16 /\ Steps[14] = 201
  BY DEF Steps
<1> QED
  BY <1>2, <1>3

\* The migrations run in the order of their numbers.
LEMMA StepsInOrder ==
    /\ Range(Steps) = StepSet /\ Steps[1] = 2
    /\ \A n, m \in StepSet : Position(n) > Position(m) <=> n > m
    /\ \A n \in StepSet \ {201} : Steps[Position(n) + 1] = NextStep(n) /\ NextStep(n) \in StepSet
<1>1. Range(Steps) = StepSet /\ Steps[1] = 2
  BY DEF Steps, StepSet, Range
<1>2. \A n, m \in StepSet : Position(n) > Position(m) <=> n > m
  BY Positions DEF StepSet
<1>3. \A n \in StepSet \ {201} : Steps[Position(n) + 1] = NextStep(n)
  BY Positions DEF StepSet, NextStep, Steps
<1>4. \A n \in StepSet \ {201} : NextStep(n) \in StepSet
  BY DEF StepSet, NextStep
<1> QED
  BY <1>1, <1>2, <1>3, <1>4

\* The next migration has a higher number.
LEMMA NextStepGrows ==
    ASSUME NEW n \in StepSet \ {201}, NEW m, m = NextStep(n)
    PROVE  /\ m \in StepSet /\ m # 2 /\ m > n /\ (m > 9 <=> n >= 9) /\ (m > 12 <=> n >= 12)
           /\ m \in 3 .. 6 => n \in 2 .. 5
<1>1. /\ NextStep(2) = 3 /\ NextStep(3) = 4 /\ NextStep(4) = 5 /\ NextStep(5) = 6
      /\ NextStep(6) = 9 /\ NextStep(9) = 10 /\ NextStep(10) = 11 /\ NextStep(11) = 12
      /\ NextStep(12) = 13 /\ NextStep(13) = 14 /\ NextStep(14) = 15 /\ NextStep(15) = 16
      /\ NextStep(16) = 201
  BY DEF NextStep
<1> QED
  BY <1>1 DEF StepSet

\* Each migration is as long as LengthOf says.
LEMMA Lengths ==
    ASSUME config.isolated \in BOOLEAN, NEW n \in StepSet
    PROVE  Len(Migration(n)) = LengthOf(n) /\ LengthOf(n) \in Nat
<1>1. Len(Migration(2)) = LengthOf(2) /\ LengthOf(2) \in Nat
  BY Program2 DEF LengthOf, Offset
<1>2. Len(Migration(3)) = LengthOf(3) /\ LengthOf(3) \in Nat
  BY Program3 DEF LengthOf, Offset
<1>3. Len(Migration(4)) = LengthOf(4) /\ LengthOf(4) \in Nat
  BY Program4 DEF LengthOf, Offset
<1>4. Len(Migration(5)) = LengthOf(5) /\ LengthOf(5) \in Nat
  BY Program5Live, Program5Dev DEF LengthOf, Offset
<1>5. Len(Migration(6)) = LengthOf(6) /\ LengthOf(6) \in Nat
  BY Program6Live, Program6Dev DEF LengthOf, Offset
<1>6. Len(Migration(9)) = LengthOf(9) /\ LengthOf(9) \in Nat
  BY Program9Shared, Program9Isolated DEF LengthOf, Offset
<1>7. Len(Migration(10)) = LengthOf(10) /\ LengthOf(10) \in Nat
  BY Program10Shared, Program10Isolated DEF LengthOf, Offset
<1>8. Len(Migration(11)) = LengthOf(11) /\ LengthOf(11) \in Nat
  BY Program11 DEF LengthOf, Offset
<1>9. Len(Migration(12)) = LengthOf(12) /\ LengthOf(12) \in Nat
  <2>1. isLiveDeployment => Len(Migration(12)) = 12
    BY Program12Live
  <2>2. ~isLiveDeployment => Len(Migration(12)) = 10
    BY Program12Dev
  <2> QED
    BY <2>1, <2>2 DEF LengthOf
<1>10. Len(Migration(13)) = LengthOf(13) /\ LengthOf(13) \in Nat
  <2>1. isLiveDeployment => Len(Migration(13)) = 7
    BY Program13Live
  <2>2. ~isLiveDeployment => Len(Migration(13)) = 4
    BY Program13Dev
  <2> QED
    BY <2>1, <2>2 DEF LengthOf
<1>11. Len(Migration(14)) = LengthOf(14) /\ LengthOf(14) \in Nat
  BY Program14 DEF LengthOf, Offset
<1>12. Len(Migration(15)) = LengthOf(15) /\ LengthOf(15) \in Nat
  <2>1. Len(Migration(15)) = 3
    BY Program15
  <2> QED
    BY <2>1 DEF LengthOf
<1>13. Len(Migration(16)) = LengthOf(16) /\ LengthOf(16) \in Nat
  BY Program16 DEF LengthOf, Offset
<1>14. Len(Migration(201)) = LengthOf(201) /\ LengthOf(201) \in Nat
  BY Program201Live, Program201Dev DEF LengthOf, Offset
<1> QED
  BY <1>1, <1>2, <1>3, <1>4, <1>5, <1>6, <1>7, <1>8, <1>9, <1>10, <1>11, <1>12, <1>13, <1>14 DEF StepSet

-----------------------------------------------------------------------------
(* The structure of the chain and of the artifacts *)

OnChain == DOMAIN contracts
OfKind(kind) == {a \in OnChain : a[1] = kind}
Is(a, kind) == a \in OnChain /\ a[1] = kind
Policies == DOMAIN access
Addr == OnChain \cup {Zero}
Wallets == {Account("PLATFORM_OPERATOR_WALLET"), DEPLOYER}
Interfaces == {"paymentToken", "etoTermsConstraints"}

\* Addresses of one kind are numbered in the order of their deployment, so a new one is new.
AddressesOK ==
    /\ IsFiniteSet(OnChain)
    /\ \A a \in OnChain : /\ a = <<a[1], a[2]>> /\ a[1] \in Kinds
                          /\ a[2] \in 1 .. Cardinality(OfKind(a[1]))
    /\ Policies = OfKind("policy")
    /\ amended \subseteq OnChain

\* No policy denies anything.
AccessOK == \A p \in Policies : AllowsOnly(access[p])

\* Artifacts hold addresses of their kind.
Artifacts(M) == M \in [Kinds -> Addr] /\ \A k \in Kinds : M[k] # Zero => Is(M[k], k)
ArtifactsOK == Artifacts(mem) /\ Artifacts(saved)

\* What a contract of each kind keeps, over the addresses A and the policies P.
LockShape(A, P) == [policy : P, token : A, controller : A \cup {Zero}, target : A \cup {Zero},
               penaltyDisbursal : A \cup {Zero} \cup Wallets]
TokenShape(A, P) == [policy : P, from : SUBSET A, to : SUBSET A]
ControllerShape(A, P) == [policy : P, from : SUBSET (A \cup {Zero} \cup Wallets),
                          to : SUBSET (A \cup {Zero} \cup Wallets),
                          depositManager : {DEPLOYER, Account("EURT_DEPOSIT_MANAGER")}]
UniverseShape(A, P) == [policy : P, singletons : [SingletonNames -> A \cup {Zero} \cup Wallets],
                        collections : SUBSET (Interfaces \X (A \cup {Zero}))]
DisbursalShape(A, P) == [policy : P, controller : A \cup {Zero}]
Shape(kind, A, P) ==
    CASE kind = "commitment" ->
           [policy : P, neumark : A, etherToken : A, euroToken : A, etherLock : A, euroLock : A]
      [] kind \in {"icbmEtherToken", "icbmEuroToken"} -> TokenShape(A, P)
      [] kind \in {"icbmEtherLock", "icbmEuroLock"} -> LockShape(A, P)
      [] kind = "universe" -> UniverseShape(A, P)
      [] kind = "euroTokenController" -> ControllerShape(A, P)
      [] kind = "euroToken" -> [policy : P, controller : A]
      [] kind \in {"etherLock", "euroLock"} -> [policy : P, source : A]
      [] kind = "feeDisbursal" -> DisbursalShape(A, P)
      [] kind \in {"policy", "forkArbiter", "neumark", "identityRegistry", "etherToken", "gasExchange"} ->
           [policy : P]
      [] OTHER -> [policy : {Zero}]
ContractsOK == \A a \in OnChain : contracts[a] \in Shape(a[1], OnChain, Policies)

\* A commitment and a universe refer to contracts of the right kinds, under their own policy.
FieldKind == [neumark |-> "neumark", etherToken |-> "icbmEtherToken",
              euroToken |-> "icbmEuroToken", etherLock |-> "icbmEtherLock",
              euroLock |-> "icbmEuroLock"]
LinkedCommitment(r) ==
    \A f \in DOMAIN FieldKind : Is(r[f], FieldKind[f]) /\ contracts[r[f]].policy = r.policy

KindOf(name) ==
    CASE name = "tokenExchangeRateOracle" -> "gasExchange"
      [] name = "icbmCommitment" -> "commitment"
      [] name = "platformPortfolio" -> "feeDisbursal"
      [] OTHER -> name
SingletonOK(name, s) ==
    \/ s = Zero
    \/ Is(s, KindOf(name))
    \/ name \in {"feeDisbursal", "platformPortfolio"} /\ s \in Wallets
UnderPolicy == {"identityRegistry", "etherToken", "gasExchange", "euroToken", "euroTokenController",
                "euroLock", "etherLock", "feeDisbursal"}
LinkedUniverse(r) ==
    /\ \A name \in SingletonNames : SingletonOK(name, r.singletons[name])
    /\ \A name \in UnderPolicy :
          r.singletons[name] \in OnChain => contracts[r.singletons[name]].policy = r.policy
    /\ r.singletons["euroToken"] # Zero =>
          contracts[r.singletons["euroToken"]].controller = r.singletons["euroTokenController"]

Locks == {"icbmEtherLock", "icbmEuroLock"}
Linked(a) ==
    /\ a[1] = "policy" => contracts[a].policy = a
    /\ a[1] = "commitment" => LinkedCommitment(contracts[a])
    /\ a[1] = "universe" => LinkedUniverse(contracts[a])
    /\ a[1] = "euroToken" =>
          /\ Is(contracts[a].controller, "euroTokenController")
          /\ contracts[contracts[a].controller].policy = contracts[a].policy
    /\ a[1] \in Locks => contracts[a].target = Zero \/ config.universe # Zero
LinksOK == \A a \in OnChain : Linked(a)

-----------------------------------------------------------------------------
(* The course of the deployment *)

ControlOK ==
    /\ network \in Networks
    /\ status \in {"running", "failed", "done"}
    /\ step \in StepSet /\ interrupted \subseteq StepSet
    /\ pc \in 0 .. LengthOf(step) + 1
    /\ budget \in [crashes : 0 .. MaxCrashes, restarts : 0 .. MaxRestarts,
                   revokes : 0 .. MaxRevokes]
    /\ pc = 0 => mem = saved
    /\ status = "failed" => pc = 0
    /\ status = "done" => step = 201 /\ pc = LengthOf(step) + 1 /\ mem = saved
    /\ Skipped => mem = saved /\ (pc > 0 => pc = LengthOf(step) + 1)

\* The configuration names what the earlier runs deployed, and is complete in time.
ConfigOK ==
    /\ config \in [commitment : Addr, universe : Addr, isolated : BOOLEAN]
    /\ ~isLiveDeployment => config.commitment = Zero /\ config.universe = Zero /\ ~config.isolated
    /\ config.commitment # Zero =>
          config.commitment = saved["commitment"] /\ config.commitment = mem["commitment"]
    /\ config.universe # Zero => step >= 12 /\ config.universe = saved["universe"]
    /\ config.isolated => config.commitment # Zero
    /\ isLiveDeployment /\ (step > 9 \/ (step = 9 /\ pc > 0)) => config.commitment # Zero
    /\ isLiveDeployment /\ (step > 12 \/ (step = 12 /\ pc > 0)) => config.universe # Zero

\* Artifacts in memory differ from those on disk only in what the migration deploys.
IcbmKinds == {"forkArbiter", "neumark", "icbmEtherToken", "icbmEuroToken", "icbmEtherLock",
              "icbmEuroLock", "commitment"}
PlatformKinds == {"universe", "identityRegistry", "etherToken", "euroTokenController",
                  "euroToken", "etherLock", "euroLock", "gasExchange"}
\* The place of a kind's deployment in the migration, 0 if it is not in it or plays no part.
Place(kind) ==
    CASE step = 2 /\ kind = "policy" -> 1 [] step = 2 /\ kind = "forkArbiter" -> 2
      [] step = 2 /\ kind = "neumark" -> 3 [] step = 2 /\ kind = "icbmEtherToken" -> 4
      [] step = 2 /\ kind = "icbmEuroToken" -> 5 [] step = 2 /\ kind = "icbmEtherLock" -> 6
      [] step = 2 /\ kind = "icbmEuroLock" -> 7 [] step = 2 /\ kind = "commitment" -> 8
      [] step = 9 /\ config.isolated /\ kind = "policy" -> 1
      [] step = 9 /\ kind = "universe" -> 1 + Offset
      [] step = 9 /\ kind = "identityRegistry" -> 3 + Offset
      [] step = 9 /\ kind = "etherToken" -> 4 + Offset
      [] step = 9 /\ kind = "euroTokenController" -> 5 + Offset
      [] step = 9 /\ kind = "euroToken" -> 6 + Offset
      [] step = 9 /\ kind = "etherLock" -> 7 + Offset
      [] step = 9 /\ kind = "euroLock" -> 8 + Offset
      [] step = 9 /\ kind = "gasExchange" -> 9 + Offset
      [] step = 9 /\ kind = "platformTerms" -> 2 + Offset
      [] step = 12 /\ kind = "feeDisbursal" -> 2
      [] step = 12 /\ kind = "platformTerms" -> 11
      [] step = 13 /\ kind = "platformTerms" -> 6
      [] step = 13 /\ kind = "hnwi_eto_de_security" -> 3
      [] step = 16 /\ kind = "votingCenter" -> 2
      [] OTHER -> 0
DeployedBefore(kind) == ~Skipped /\ Place(kind) \in 1 .. pc - 1

MemOK ==
    /\ step # 2 => \A k \in IcbmKinds : mem[k] = saved[k]
    /\ step \notin {2, 9} => mem["policy"] = saved["policy"]
    /\ step # 9 => \A k \in PlatformKinds : mem[k] = saved[k]
    /\ \A k \in Kinds : DeployedBefore(k) => mem[k] # Zero

\* The contracts in use.
IcbmState == contracts[mem["commitment"]]
UniverseState == contracts[mem["universe"]]

FieldOf == [neumark |-> "neumark", icbmEtherLock |-> "etherLock", icbmEuroLock |-> "euroLock",
            icbmEtherToken |-> "etherToken", icbmEuroToken |-> "euroToken"]
Ready(r) ==
    /\ \A name \in SingletonNames \ {"votingCenter"} : r.singletons[name] # Zero
    /\ \A name \in DOMAIN FieldOf : r.singletons[name] = IcbmState[FieldOf[name]]

\* What the migrations that deploy have linked so far.
IcbmStage ==
    /\ step = 2 => \A k \in IcbmKinds : DeployedBefore(k) => contracts[mem[k]].policy = mem["policy"]
    /\ step # 2 \/ config.commitment # Zero => mem["commitment"] # Zero
    /\ \/ step = 2 /\ DeployedBefore("commitment")
       \/ step \in 3 .. 6 /\ config.commitment = Zero
       =>
          /\ mem["policy"] = IcbmState.policy /\ mem["neumark"] = IcbmState.neumark
          /\ mem["icbmEuroToken"] = IcbmState.euroToken
          /\ mem["icbmEuroLock"] = IcbmState.euroLock
PlatformStage ==
    /\ step = 9 =>
          /\ config.isolated /\ DeployedBefore("policy") => mem["policy"] # IcbmState.policy
          /\ DeployedBefore("universe") =>
               UniverseState.policy = IF config.isolated THEN mem["policy"] ELSE IcbmState.policy
          /\ \A k \in UnderPolicy : DeployedBefore(k) => contracts[mem[k]].policy = UniverseState.policy
          /\ DeployedBefore("euroToken") =>
               contracts[mem["euroToken"]].controller = mem["euroTokenController"]
    /\ step = 12 /\ DeployedBefore("feeDisbursal") =>
          contracts[mem["feeDisbursal"]].policy = UniverseState.policy

\* What the universe registers once its migration, and then that of the fee disbursal, is behind.
ReadyStage ==
    /\ step > 9 \/ (step = 9 /\ pc > 11 + Offset) =>
          /\ mem["universe"] # Zero /\ Ready(UniverseState)
          /\ UniverseState.policy = IcbmState.policy <=> ~config.isolated
    /\ step > 12 \/ (step = 12 /\ pc > 4) => UniverseState.singletons["feeDisbursal"] \in OnChain

Structure ==
    /\ AddressesOK /\ AccessOK /\ ArtifactsOK /\ ContractsOK /\ LinksOK
    /\ ControlOK /\ ConfigOK /\ MemOK /\ IcbmStage /\ PlatformStage /\ ReadyStage

-----------------------------------------------------------------------------
(* The rights on the ICBM *)

\* The roles migration 201 names, and who holds one of them for the deployment's own use.
Temporary == {"eurtDepositManager", "eurtLegalManager", "identityManager", "tokenRateOracle",
              "lockedAccountAdmin", "disbursalManager"}
Rights(p) == DOMAIN access[p]
HeldIn(R) == {k \in R : k[1] = DEPLOYER /\ k[2] \in Temporary}

\* Nobody but a named holder has a temporary right.
RightsSound(R) ==
    \A k \in R : k = <<k[1], k[2], k[3]>> /\ (k[1] = EVERYONE => k[2] \notin Temporary)

\* The access controller has taken the policy p over from the deployer.
CONTROLLER == Account("ACCESS_CONTROLLER")
Handed(R, p) ==
    /\ {<<CONTROLLER, "accessController", GLOBAL>>, <<CONTROLLER, "accessController", p>>} \subseteq R
    /\ <<DEPLOYER, "accessController", GLOBAL>> \notin R

\* The rights R under the policy p of the ICBM, whose euro token is t, at place i of migration n.
DepositKey(t) == <<DEPLOYER, "eurtDepositManager", t>>
AdminKey == <<DEPLOYER, "lockedAccountAdmin", GLOBAL>>
RightsAt(R, p, t, n, i, isolated) ==
    /\ n \in 3 .. 6 => HeldIn(R) \subseteq {DepositKey(t), AdminKey}
    /\ n = 6 =>
         /\ i > 1 => HeldIn(R) \subseteq {AdminKey}
         /\ i > 2 => HeldIn(R) = {}
         /\ i > 3 => <<CONTROLLER, "accessController", GLOBAL>> \in R
         /\ i > 4 => <<CONTROLLER, "accessController", p>> \in R
         /\ i > 5 => <<DEPLOYER, "accessController", GLOBAL>> \notin R
    /\ n >= 9 => Handed(R, p)
    /\ n \in 9 .. 10 \/ isolated => HeldIn(R) = {}
    /\ n >= 11 => \A k \in HeldIn(R) : k[3] = GLOBAL
    /\ n = 201 /\ i > 1 /\ ~isolated => HeldIn(R) = {}

\* A migration of the ICBM that is skipped finds the ICBM as migration 9 does.
Stage == IF Skipped THEN 9 ELSE step
RightsOK ==
    /\ \A p \in Policies : RightsSound(Rights(p))
    /\ isLiveDeployment =>
         /\ Stage = 2 /\ pc > 1 => HeldIn(Rights(mem["policy"])) = {}
         /\ Stage # 2 => RightsAt(Rights(IcbmState.policy), IcbmState.policy, IcbmState.euroToken,
                                  Stage, pc, config.isolated)

\* Under the policy of the universe the deposit manager has his role from migration 10 on,
\* and so has the euro lock.
DepositsAt(R, lock, token) ==
    /\ <<Account("EURT_DEPOSIT_MANAGER"), "eurtDepositManager", GLOBAL>> \in R
    /\ <<lock, "eurtDepositManager", token>> \in R
DepositRights ==
    step > 10 \/ (step = 10 /\ pc = LengthOf(10) + 1) =>
       DepositsAt(Rights(UniverseState.policy), UniverseState.singletons["euroLock"],
                  UniverseState.singletons["euroToken"])

-----------------------------------------------------------------------------
(* References, and where each operation is found *)

\* What the references refer to.
LEMMA References ==
    /\ \A name : Ref(Of(name)) = Addresses(name) /\ Ref(Singleton(name)) = SingletonOf(name)
    /\ \A kind : Ref(Deployed(kind)) = mem[kind]
    /\ \A f : Ref(Icbm(f)) = IF f = "commitment" THEN Commitment ELSE contracts[Commitment][f]
    /\ Ref(Deployer) = DEPLOYER /\ Ref(Universe) = UniverseInUse
    /\ Ref(UniversePolicy) = contracts[UniverseInUse].policy
    /\ Ref(Everything) = Zero /\ Ref(Undefined) = Zero
BY DEF Ref, Of, Singleton, Deployed, Icbm, Deployer, Universe, UniversePolicy, Everything, Undefined

\* The kinds there are.
LEMMA KindsAre ==
    Kinds = {"policy", "forkArbiter", "neumark", "icbmEtherToken", "icbmEuroToken",
             "icbmEtherLock", "icbmEuroLock", "commitment", "universe", "platformTerms",
             "identityRegistry", "etherToken", "euroTokenController", "euroToken", "etherLock",
             "euroLock", "gasExchange", "feeDisbursalController", "feeDisbursal",
             "votingController", "votingCenter", "retail_eto_li_vma", "hnwi_eto_de_security",
             "retail_eto_li_security"}
<1> DEFINE p == [name |-> "retail_eto_li_vma", available |-> TRUE]
           q == [name |-> "hnwi_eto_de_security", available |-> FALSE]
           r == [name |-> "retail_eto_li_security", available |-> TRUE]
<1>1. Products = <<<<p, q>>, <<r>>>>
  BY DEF Products
<1>2. /\ p.name = "retail_eto_li_vma" /\ q.name = "hnwi_eto_de_security"
      /\ r.name = "retail_eto_li_security"
  OBVIOUS
<1> HIDE DEF p, q, r
<1>3. Range(<<p, q>>) = {p, q} /\ Range(<<r>>) = {r}
  BY DEF Range
<1>4. {Range(Products[s]) : s \in DOMAIN Products} = {{p, q}, {r}}
  BY <1>1, <1>3
<1>5. AllProducts = {p, q, r}
  <2>1. AllProducts = UNION {{p, q}, {r}}
    BY <1>4 DEF AllProducts
  <2> QED
    BY <2>1
<1>6. {product.name : product \in {p, q, r}} = {p.name, q.name, r.name}
  OBVIOUS
<1> QED
  BY <1>2, <1>5, <1>6 DEF Kinds

\* What kind of operation a migration has at each place.
OpAt(n, p) ==
    CASE n = 2 -> "deploy"
      [] n = 3 -> IF p <= 8 THEN "roles" ELSE IF p \in 10 .. 11 THEN "allowTransferTo"
                  ELSE "allowTransferFrom"
      [] n = 4 -> IF p = 1 THEN "roles" ELSE "setController"
      [] n = 5 -> "amendAgreement"
      [] n = 6 -> "roles"
      [] n = 9 -> IF p <= 9 + Offset THEN "deploy" ELSE IF p = 10 + Offset THEN "roles"
                  ELSE "singletons"
      [] n = 10 -> "roles"
      [] n = 11 -> IF p \in {1, 6} THEN "roles" ELSE IF p = 2 THEN "applySettings"
                   ELSE IF p = 4 THEN "applyFeeSettings" ELSE "changeDepositManager"
      [] n = 12 -> IF p \in {1, 2, 11} THEN "deploy" ELSE IF p = 3 THEN "roles"
                   ELSE IF p \in {4, 12} THEN "singletons" ELSE IF p = 5 THEN "applySettings"
                   ELSE IF p \in 6 .. 7 THEN "setPenaltyDisbursal"
                   ELSE IF p = 8 THEN "allowTransferTo" ELSE IF p = 9 THEN "allowTransferFrom"
                   ELSE "collections"
      [] n = 13 -> IF p = 1 THEN "roles" ELSE IF p \in {2, 3, 6} THEN "deploy"
                   ELSE IF p \in 4 .. 5 THEN "collections" ELSE "singletons"
      [] n = 14 -> IF p = 1 THEN "roles" ELSE IF p = 2 THEN "deploy"
                   ELSE "changeFeeDisbursalController"
      [] n = 15 -> IF p = 1 THEN "roles" ELSE IF p = 2 THEN "deploy" ELSE "collections"
      [] n = 16 -> IF p = 3 THEN "roles" ELSE IF p = 4 THEN "singletons" ELSE "deploy"
      [] n = 201 -> "roles"

\* The name and the arguments of each operation.
LEMMA OperationNames ==
    /\ \A k : Deploy(k).op = "deploy" /\ Deploy(k).kind = k
    /\ \A p, r : Roles(p, r).op = "roles"
    /\ \A e : SetSingletons(e).op = "singletons" /\ SetSingletons(e).entries = e
    /\ \A m, l : /\ SetCollections(m, l).op = "collections"
                 /\ SetCollections(m, l).members = m /\ SetCollections(m, l).listed = l
    /\ \A l : Attach(l).op = "setController" /\ Attach(l).lock = l
    /\ \A l : Penalty(l).op = "setPenaltyDisbursal" /\ Penalty(l).lock = l
    /\ \A t, w : /\ AllowFrom(t, w).op = "allowTransferFrom"
                 /\ AllowFrom(t, w).token = t /\ AllowFrom(t, w).who = w
    /\ \A t, w : /\ AllowTo(t, w).op = "allowTransferTo"
                 /\ AllowTo(t, w).token = t /\ AllowTo(t, w).who = w
    /\ Settings.op = "applySettings" /\ FeeSettings.op = "applyFeeSettings"
    /\ \A w : DepositManager(w).op = "changeDepositManager" /\ DepositManager(w).who = w
    /\ NewFeeController.op = "changeFeeDisbursalController"
    /\ \A c : Amend(c).op = "amendAgreement" /\ Amend(c).contract = c
    /\ ManageUniverse.op = "roles"
    /\ ListFirst.op = "collections" /\ DelistFirst.op = "collections"
    /\ ListSecond.op = "collections"
BY DEF Deploy, Roles, SetSingletons, SetCollections, Attach, Penalty, AllowFrom, AllowTo, Settings,
       FeeSettings, DepositManager, NewFeeController, Amend, ManageUniverse, ListFirst, DelistFirst,
       ListSecond

\* Each migration has the operations OpAt says.
LEMMA OperationsAt ==
    ASSUME config.isolated \in BOOLEAN, NEW n \in StepSet, NEW p \in 1 .. LengthOf(n)
    PROVE  Migration(n)[p].op = OpAt(n, p)
<1>1. CASE n = 2
  BY <1>1, Program2, OperationNames DEF OpAt, LengthOf
<1>2. CASE n = 3
  BY <1>2, Program3, OperationNames DEF OpAt, LengthOf
<1>3. CASE n = 4
  BY <1>3, Program4, OperationNames DEF OpAt, LengthOf
<1>4. CASE n = 5
  <2>1. CASE isLiveDeployment
    BY <1>4, <2>1, Program5Live, OperationNames DEF OpAt, LengthOf, Offset
  <2>2. CASE ~isLiveDeployment
    BY <1>4, <2>2, Program5Dev, OperationNames DEF OpAt, LengthOf, Offset
  <2> QED
    BY <2>1, <2>2
<1>5. CASE n = 6
  <2>1. CASE isLiveDeployment
    BY <1>5, <2>1, Program6Live, OperationNames DEF OpAt, LengthOf, Offset
  <2>2. CASE ~isLiveDeployment
    BY <1>5, <2>2, Program6Dev, OperationNames DEF OpAt, LengthOf, Offset
  <2> QED
    BY <2>1, <2>2
<1>6. CASE n = 9
  <2>1. CASE ~config.isolated
    BY <1>6, <2>1, Program9Shared, OperationNames DEF OpAt, LengthOf, Offset
  <2>2. CASE config.isolated
    BY <1>6, <2>2, Program9Isolated, OperationNames DEF OpAt, LengthOf, Offset
  <2> QED
    BY <2>1, <2>2
<1>7. CASE n = 10
  <2>1. CASE ~config.isolated
    BY <1>7, <2>1, Program10Shared, OperationNames DEF OpAt, LengthOf, Offset
  <2>2. CASE config.isolated
    BY <1>7, <2>2, Program10Isolated, OperationNames DEF OpAt, LengthOf, Offset
  <2> QED
    BY <2>1, <2>2
<1>8. CASE n = 11
  BY <1>8, Program11, OperationNames DEF OpAt, LengthOf
<1>9. CASE n = 12
  <2>1. CASE isLiveDeployment
    <3>1. p \in 1 .. 12
      BY <1>9, <2>1 DEF LengthOf
    <3>2. p = 1 \/ p = 2 \/ p = 3 \/ p = 4 \/ p = 5 \/ p = 6 \/ p = 7 \/ p = 8 \/ p = 9 \/ p = 10 \/ p = 11 \/ p = 12
      BY <3>1
    <3>3. /\ Migration(12)[1].op = "deploy"
          /\ Migration(12)[2].op = "deploy"
          /\ Migration(12)[3].op = "roles"
          /\ Migration(12)[4].op = "singletons"
          /\ Migration(12)[5].op = "applySettings"
          /\ Migration(12)[6].op = "setPenaltyDisbursal"
          /\ Migration(12)[7].op = "setPenaltyDisbursal"
          /\ Migration(12)[8].op = "allowTransferTo"
          /\ Migration(12)[9].op = "allowTransferFrom"
          /\ Migration(12)[10].op = "collections"
          /\ Migration(12)[11].op = "deploy"
          /\ Migration(12)[12].op = "singletons"
      BY <1>9, <2>1, Program12Live
      DEF Deploy, Roles, SetSingletons, SetCollections, Settings, Penalty, AllowTo, AllowFrom
    <3>4. /\ OpAt(12, 1) = "deploy"
          /\ OpAt(12, 2) = "deploy"
          /\ OpAt(12, 3) = "roles"
          /\ OpAt(12, 4) = "singletons"
          /\ OpAt(12, 5) = "applySettings"
          /\ OpAt(12, 6) = "setPenaltyDisbursal"
          /\ OpAt(12, 7) = "setPenaltyDisbursal"
          /\ OpAt(12, 8) = "allowTransferTo"
          /\ OpAt(12, 9) = "allowTransferFrom"
          /\ OpAt(12, 10) = "collections"
          /\ OpAt(12, 11) = "deploy"
          /\ OpAt(12, 12) = "singletons"
      BY DEF OpAt
    <3> QED
      BY <1>9, <2>1, <3>2, <3>3, <3>4
  <2>2. CASE ~isLiveDeployment
    <3>1. p \in 1 .. 10
      BY <1>9, <2>2 DEF LengthOf
    <3>2. p = 1 \/ p = 2 \/ p = 3 \/ p = 4 \/ p = 5 \/ p = 6 \/ p = 7 \/ p = 8 \/ p = 9 \/ p = 10
      BY <3>1
    <3>3. /\ Migration(12)[1].op = "deploy"
          /\ Migration(12)[2].op = "deploy"
          /\ Migration(12)[3].op = "roles"
          /\ Migration(12)[4].op = "singletons"
          /\ Migration(12)[5].op = "applySettings"
          /\ Migration(12)[6].op = "setPenaltyDisbursal"
          /\ Migration(12)[7].op = "setPenaltyDisbursal"
          /\ Migration(12)[8].op = "allowTransferTo"
          /\ Migration(12)[9].op = "allowTransferFrom"
          /\ Migration(12)[10].op = "collections"
      BY <1>9, <2>2, Program12Dev
      DEF Deploy, Roles, SetSingletons, SetCollections, Settings, Penalty, AllowTo, AllowFrom
    <3>4. /\ OpAt(12, 1) = "deploy"
          /\ OpAt(12, 2) = "deploy"
          /\ OpAt(12, 3) = "roles"
          /\ OpAt(12, 4) = "singletons"
          /\ OpAt(12, 5) = "applySettings"
          /\ OpAt(12, 6) = "setPenaltyDisbursal"
          /\ OpAt(12, 7) = "setPenaltyDisbursal"
          /\ OpAt(12, 8) = "allowTransferTo"
          /\ OpAt(12, 9) = "allowTransferFrom"
          /\ OpAt(12, 10) = "collections"
      BY DEF OpAt
    <3> QED
      BY <1>9, <2>2, <3>2, <3>3, <3>4
  <2> QED
    BY <2>1, <2>2
<1>10. CASE n = 13
  <2>1. CASE isLiveDeployment
    <3>1. p \in 1 .. 7
      BY <1>10, <2>1 DEF LengthOf
    <3>2. p = 1 \/ p = 2 \/ p = 3 \/ p = 4 \/ p = 5 \/ p = 6 \/ p = 7
      BY <3>1
    <3>3. /\ Migration(13)[1].op = "roles"
          /\ Migration(13)[2].op = "deploy"
          /\ Migration(13)[3].op = "deploy"
          /\ Migration(13)[4].op = "collections"
          /\ Migration(13)[5].op = "collections"
          /\ Migration(13)[6].op = "deploy"
          /\ Migration(13)[7].op = "singletons"
      <4>1. Migration(13)[1].op = "roles"
        BY <1>10, <2>1, Program13Live, OperationNames
      <4>2. Migration(13)[2].op = "deploy"
        <5>1. Migration(13)[2] = Deploy("retail_eto_li_vma")
          BY <1>10, <2>1, Program13Live
        <5> QED
          BY <5>1 DEF Deploy
      <4>3. Migration(13)[3].op = "deploy"
        <5>1. Migration(13)[3] = Deploy("hnwi_eto_de_security")
          BY <1>10, <2>1, Program13Live
        <5> QED
          BY <5>1 DEF Deploy
      <4>4. Migration(13)[4].op = "collections"
        BY <1>10, <2>1, Program13Live, OperationNames
      <4>5. Migration(13)[5].op = "collections"
        BY <1>10, <2>1, Program13Live, OperationNames
      <4>6. Migration(13)[6].op = "deploy"
        <5>1. Migration(13)[6] = Deploy("platformTerms")
          BY <1>10, <2>1, Program13Live
        <5> QED
          BY <5>1 DEF Deploy
      <4>7. Migration(13)[7].op = "singletons"
        <5>1. Migration(13)[7] = SetSingletons([platformTerms |-> Deployed("platformTerms")])
          BY <1>10, <2>1, Program13Live
        <5> QED
          BY <5>1 DEF SetSingletons
      <4> QED
        BY <4>1, <4>2, <4>3, <4>4, <4>5, <4>6, <4>7
    <3>4. /\ OpAt(13, 1) = "roles"
          /\ OpAt(13, 2) = "deploy"
          /\ OpAt(13, 3) = "deploy"
          /\ OpAt(13, 4) = "collections"
          /\ OpAt(13, 5) = "collections"
          /\ OpAt(13, 6) = "deploy"
          /\ OpAt(13, 7) = "singletons"
      BY DEF OpAt
    <3> QED
      BY <1>10, <2>1, <3>2, <3>3, <3>4
  <2>2. CASE ~isLiveDeployment
    <3>1. p \in 1 .. 4
      BY <1>10, <2>2 DEF LengthOf
    <3>2. p = 1 \/ p = 2 \/ p = 3 \/ p = 4
      BY <3>1
    <3>3. /\ Migration(13)[1].op = "roles"
          /\ Migration(13)[2].op = "deploy"
          /\ Migration(13)[3].op = "deploy"
          /\ Migration(13)[4].op = "collections"
      <4>1. Migration(13)[1].op = "roles"
        BY <1>10, <2>2, Program13Dev, OperationNames
      <4>2. Migration(13)[2].op = "deploy"
        <5>1. Migration(13)[2] = Deploy("retail_eto_li_vma")
          BY <1>10, <2>2, Program13Dev
        <5> QED
          BY <5>1 DEF Deploy
      <4>3. Migration(13)[3].op = "deploy"
        <5>1. Migration(13)[3] = Deploy("hnwi_eto_de_security")
          BY <1>10, <2>2, Program13Dev
        <5> QED
          BY <5>1 DEF Deploy
      <4>4. Migration(13)[4].op = "collections"
        BY <1>10, <2>2, Program13Dev, OperationNames
      <4> QED
        BY <4>1, <4>2, <4>3, <4>4
    <3>4. /\ OpAt(13, 1) = "roles"
          /\ OpAt(13, 2) = "deploy"
          /\ OpAt(13, 3) = "deploy"
          /\ OpAt(13, 4) = "collections"
      BY DEF OpAt
    <3> QED
      BY <1>10, <2>2, <3>2, <3>3, <3>4
  <2> QED
    BY <2>1, <2>2
<1>11. CASE n = 14
  <2>1. p \in 1 .. 3
    BY <1>11 DEF LengthOf
  <2>2. p = 1 \/ p = 2 \/ p = 3
    BY <2>1
  <2>3. /\ Migration(14)[1].op = "roles"
        /\ Migration(14)[2].op = "deploy"
        /\ Migration(14)[3].op = "changeFeeDisbursalController"
    BY <1>11, Program14, OperationNames
  <2>4. /\ OpAt(14, 1) = "roles"
        /\ OpAt(14, 2) = "deploy"
        /\ OpAt(14, 3) = "changeFeeDisbursalController"
    BY DEF OpAt
  <2> QED
    BY <1>11, <2>2, <2>3, <2>4
<1>12. CASE n = 15
  <2>1. p = 1 \/ p = 2 \/ p = 3
    BY <1>12 DEF LengthOf
  <2>2. Migration(15)[1].op = "roles"
    BY Program15, OperationNames
  <2>3. Migration(15)[2].op = "deploy"
    <3>1. Migration(15)[2] = Deploy("retail_eto_li_security")
      BY Program15
    <3> QED
      BY <3>1 DEF Deploy
  <2>4. Migration(15)[3].op = "collections"
    BY Program15, OperationNames
  <2>5. OpAt(15, 1) = "roles" /\ OpAt(15, 2) = "deploy" /\ OpAt(15, 3) = "collections"
    BY DEF OpAt
  <2> QED
    BY <1>12, <2>1, <2>2, <2>3, <2>4, <2>5
<1>13. CASE n = 16
  BY <1>13, Program16, OperationNames DEF OpAt, LengthOf
<1>14. CASE n = 201
  <2>1. CASE isLiveDeployment /\ ~config.isolated
    BY <1>14, <2>1, Program201Live, OperationNames DEF OpAt, LengthOf, Offset
  <2>2. CASE ~isLiveDeployment \/ config.isolated
    BY <1>14, <2>2, Program201Dev, OperationNames DEF OpAt, LengthOf, Offset
  <2> QED
    BY <2>1, <2>2
<1> QED
  BY <1>1, <1>2, <1>3, <1>4, <1>5, <1>6, <1>7, <1>8, <1>9, <1>10, <1>11, <1>12, <1>13, <1>14 DEF StepSet

SimpleKinds == {"platformTerms", "feeDisbursalController", "votingController",
                "retail_eto_li_vma", "retail_eto_li_security"}

\* Which kind a migration deploys at each place.
DeployedAt(n, p) ==
    CASE n = 2 -> IF p = 1 THEN "policy" ELSE IF p = 2 THEN "forkArbiter" ELSE IF p = 3 THEN "neumark"
                  ELSE IF p = 4 THEN "icbmEtherToken" ELSE IF p = 5 THEN "icbmEuroToken"
                  ELSE IF p = 6 THEN "icbmEtherLock" ELSE IF p = 7 THEN "icbmEuroLock"
                  ELSE "commitment"
      [] n = 9 -> IF p = Offset THEN "policy" ELSE IF p = 1 + Offset THEN "universe"
                  ELSE IF p = 2 + Offset THEN "platformTerms"
                  ELSE IF p = 3 + Offset THEN "identityRegistry"
                  ELSE IF p = 4 + Offset THEN "etherToken"
                  ELSE IF p = 5 + Offset THEN "euroTokenController"
                  ELSE IF p = 6 + Offset THEN "euroToken" ELSE IF p = 7 + Offset THEN "etherLock"
                  ELSE IF p = 8 + Offset THEN "euroLock" ELSE "gasExchange"
      [] n = 12 -> IF p = 1 THEN "feeDisbursalController" ELSE IF p = 2 THEN "feeDisbursal"
                   ELSE "platformTerms"
      [] n = 13 -> IF p = 2 THEN "retail_eto_li_vma" ELSE IF p = 3 THEN "hnwi_eto_de_security"
                   ELSE "platformTerms"
      [] n = 14 -> "feeDisbursalController"
      [] n = 15 -> "retail_eto_li_security"
      [] n = 16 -> IF p = 1 THEN "votingController" ELSE "votingCenter"

\* Each deployment is of the kind DeployedAt says.
LEMMA DeploysAt ==
    ASSUME config.isolated \in BOOLEAN, NEW n \in StepSet, NEW p \in 1 .. LengthOf(n),
           OpAt(n, p) = "deploy"
    PROVE  Migration(n)[p] = Deploy(DeployedAt(n, p)) /\ DeployedAt(n, p) \in Kinds
<1>1. CASE n = 2
  BY <1>1, Program2, KindsAre DEF OpAt, LengthOf, DeployedAt
<1>2. CASE n = 9
  <2>1. CASE ~config.isolated
    BY <1>2, <2>1, Program9Shared, KindsAre DEF OpAt, LengthOf, Offset, DeployedAt
  <2>2. CASE config.isolated
    BY <1>2, <2>2, Program9Isolated, KindsAre DEF OpAt, LengthOf, Offset, DeployedAt
  <2> QED
    BY <2>1, <2>2
<1>3. CASE n = 12
  <2>1. CASE isLiveDeployment
    BY <1>3, <2>1, Program12Live, KindsAre DEF OpAt, LengthOf, Offset, DeployedAt
  <2>2. CASE ~isLiveDeployment
    BY <1>3, <2>2, Program12Dev, KindsAre DEF OpAt, LengthOf, Offset, DeployedAt
  <2> QED
    BY <2>1, <2>2
<1>4. CASE n = 13
  <2>1. CASE isLiveDeployment
    BY <1>4, <2>1, Program13Live, KindsAre DEF OpAt, LengthOf, Offset, DeployedAt
  <2>2. CASE ~isLiveDeployment
    BY <1>4, <2>2, Program13Dev, KindsAre DEF OpAt, LengthOf, Offset, DeployedAt
  <2> QED
    BY <2>1, <2>2
<1>5. CASE n = 14
  BY <1>5, Program14, KindsAre DEF OpAt, LengthOf, DeployedAt
<1>6. CASE n = 15
  BY <1>6, Program15, KindsAre DEF OpAt, LengthOf, DeployedAt
<1>7. CASE n = 16
  BY <1>7, Program16, KindsAre DEF OpAt, LengthOf, DeployedAt
<1>8. n \in {2, 9, 12, 13, 14, 15, 16}
  BY DEF OpAt, StepSet
<1> QED
  BY <1>1, <1>2, <1>3, <1>4, <1>5, <1>6, <1>7, <1>8


\* The place of a kind is where it is deployed.
LEMMA Places ==
    ASSUME config.isolated \in BOOLEAN, step \in StepSet, pc \in 1 .. LengthOf(step)
    PROVE  /\ OpAt(step, pc) = "deploy" =>
                \/ Place(DeployedAt(step, pc)) = pc
                \/ Place(DeployedAt(step, pc)) = 0 /\ DeployedAt(step, pc) \in SimpleKinds
           /\ \A k : Place(k) = pc => OpAt(step, pc) = "deploy" /\ DeployedAt(step, pc) = k
<1>1. ASSUME OpAt(step, pc) = "deploy"
      PROVE  \/ Place(DeployedAt(step, pc)) = pc
             \/ Place(DeployedAt(step, pc)) = 0 /\ DeployedAt(step, pc) \in SimpleKinds
  <2>1. CASE step = 2
    BY <1>1, <2>1 DEF OpAt, DeployedAt, Place, SimpleKinds, LengthOf, Offset
  <2>2. CASE step = 9
    BY <1>1, <2>2 DEF OpAt, DeployedAt, Place, SimpleKinds, LengthOf, Offset
  <2>3. CASE step = 12
    BY <1>1, <2>3 DEF OpAt, DeployedAt, Place, SimpleKinds, LengthOf, Offset
  <2>4. CASE step = 13
    BY <1>1, <2>4 DEF OpAt, DeployedAt, Place, SimpleKinds, LengthOf, Offset
  <2>5. CASE step = 14
    BY <1>1, <2>5 DEF OpAt, DeployedAt, Place, SimpleKinds, LengthOf, Offset
  <2>6. CASE step = 15
    BY <1>1, <2>6 DEF OpAt, DeployedAt, Place, SimpleKinds, LengthOf, Offset
  <2>7. CASE step = 16
    BY <1>1, <2>7 DEF OpAt, DeployedAt, Place, SimpleKinds, LengthOf, Offset
  <2> QED
    BY <1>1, <2>1, <2>2, <2>3, <2>4, <2>5, <2>6, <2>7 DEF OpAt, StepSet
<1>2. ASSUME NEW k, Place(k) = pc
      PROVE  OpAt(step, pc) = "deploy" /\ DeployedAt(step, pc) = k
  BY <1>2 DEF OpAt, DeployedAt, Place, StepSet, LengthOf, Offset
<1> QED
  BY <1>1, <1>2

-----------------------------------------------------------------------------
(* What every transaction keeps *)

\* Neither the zero address nor a wallet is a contract.
LEMMA NotContracts ==
    ASSUME NEW A, \A a \in A : a[1] \in Kinds
    PROVE  Zero \notin A /\ A \cap Wallets = {}
BY KindsAre DEF Zero, Wallets, Account, DEPLOYER

\* Where a transaction runs.
LEMMA RunningIs ==
    ASSUME ControlOK, ConfigOK, NEW op, Running(op)
    PROVE  /\ status = "running" /\ step \in StepSet /\ pc \in 1 .. LengthOf(step)
           /\ OpAt(step, pc) = op /\ ~Skipped /\ config.isolated \in BOOLEAN
<1>1. config.isolated \in BOOLEAN /\ step \in StepSet /\ status = "running"
  BY DEF ConfigOK, ControlOK, Running
<1>2. Len(Migration(step)) = LengthOf(step) /\ LengthOf(step) \in Nat
  BY <1>1, Lengths
<1>3. pc \in 1 .. LengthOf(step)
  BY <1>2 DEF Running
<1>4. OpAt(step, pc) = op
  BY <1>1, <1>3, OperationsAt DEF Running, Current
<1>5. ~Skipped
  BY <1>2, <1>3 DEF ControlOK
<1> QED
  BY <1>1, <1>3, <1>4, <1>5

\* A transaction moves on within its migration.
LEMMA ControlMoves ==
    ASSUME ControlOK, ConfigOK, NEW op, Running(op), Advance
    PROVE  ControlOK'
<1>1. /\ status = "running" /\ step \in StepSet /\ pc \in 1 .. LengthOf(step) /\ ~Skipped
      /\ config.isolated \in BOOLEAN
  BY RunningIs
<1>2. LengthOf(step) \in Nat
  BY <1>1, Lengths
<1>3. LengthOf(step)' = LengthOf(step) /\ Skipped' = Skipped
  BY DEF Advance, LengthOf, Offset, isLiveDeployment, Skipped, ShouldSkipStep
<1>4. pc' = pc + 1 /\ UNCHANGED <<network, config, saved, step, status, interrupted, budget>>
  BY DEF Advance
<1> QED
  BY <1>1, <1>2, <1>3, <1>4 DEF ControlOK

\* Contracts stay, under their policy; commitments and euro tokens stay as they are.
Keeps ==
    /\ OnChain \subseteq OnChain' /\ Policies \subseteq Policies'
    /\ \A a \in OnChain : contracts'[a].policy = contracts[a].policy
    /\ \A a \in OnChain : a[1] \in {"commitment", "euroToken"} => contracts'[a] = contracts[a]

\* The contracts of a universe stay, and the lock does not get a new target.
KeepsLinks(a) ==
    /\ a[1] = "universe" => contracts'[a].singletons = contracts[a].singletons
    /\ a[1] \in Locks => contracts'[a].target = contracts[a].target

\* A contract whose links are kept is still linked.
LEMMA LinkedKept ==
    ASSUME LinksOK, AddressesOK', Keeps, NEW a \in OnChain, KeepsLinks(a),
           config.universe # Zero => config'.universe # Zero
    PROVE  Linked(a)'
<1>1. Linked(a)
  BY DEF LinksOK
<1>2. Zero \notin OnChain' /\ OnChain' \cap Wallets = {}
  BY NotContracts DEF AddressesOK
<1>3. a[1] = "policy" => contracts'[a].policy = a
  BY <1>1 DEF Linked, Keeps
<1>4. a[1] = "commitment" => LinkedCommitment(contracts[a])'
  BY <1>1 DEF Linked, Keeps, LinkedCommitment, Is
<1>5. a[1] = "universe" => LinkedUniverse(contracts[a])'
  <2> SUFFICES ASSUME a[1] = "universe" PROVE LinkedUniverse(contracts[a])'
    OBVIOUS
  <2> DEFINE s == contracts[a].singletons
  <2>1. contracts'[a].singletons = s /\ contracts'[a].policy = contracts[a].policy
    BY DEF Keeps, KeepsLinks
  <2>2. LinkedUniverse(contracts[a])
    BY <1>1 DEF Linked
  <2>3. \A name \in SingletonNames : SingletonOK(name, s[name])
    BY <2>2 DEF LinkedUniverse
  <2>4. \A name \in SingletonNames :
          s[name] \in OnChain \/ s[name] = Zero \/ s[name] \in Wallets
    BY <2>3 DEF SingletonOK, Is
  <2>5. \A name \in SingletonNames : SingletonOK(name, s[name])'
    <3> SUFFICES ASSUME NEW name \in SingletonNames PROVE SingletonOK(name, s[name])'
      OBVIOUS
    <3>1. SingletonOK(name, s[name])
      BY <2>3
    <3> QED
      BY <2>1, <3>1 DEF SingletonOK, Is, Keeps
  <2>6. UnderPolicy \subseteq SingletonNames /\ "euroToken" \in SingletonNames
        /\ KindOf("euroToken") = "euroToken"
    BY DEF UnderPolicy, SingletonNames, PlatformSingletons, KindOf
  <2>7. \A name \in UnderPolicy :
          s[name] \in OnChain' => contracts'[s[name]].policy = contracts'[a].policy
    BY <1>2, <2>1, <2>2, <2>4, <2>6 DEF LinkedUniverse, Keeps
  <2>8. s["euroToken"] # Zero => contracts'[s["euroToken"]].controller = s["euroTokenController"]
    <3>1. s["euroToken"] # Zero => Is(s["euroToken"], "euroToken")
      BY <2>3, <2>6 DEF SingletonOK
    <3> QED
      BY <2>2, <3>1 DEF LinkedUniverse, Keeps, Is
  <2> QED
    BY <2>1, <2>5, <2>7, <2>8 DEF LinkedUniverse
<1>6. a[1] = "euroToken" =>
        /\ Is(contracts[a].controller, "euroTokenController")'
        /\ contracts'[contracts'[a].controller].policy = contracts'[a].policy
  BY <1>1 DEF Linked, Keeps, Is
<1>7. a[1] \in Locks => contracts'[a].target = Zero \/ config'.universe # Zero
  BY <1>1 DEF Linked, KeepsLinks
<1> QED
  BY <1>3, <1>4, <1>5, <1>6, <1>7 DEF Linked

-----------------------------------------------------------------------------
(* The contracts in use *)

\* The names the universe registers contracts under.
LEMMA NamesKnown ==
    /\ UnderPolicy \subseteq SingletonNames /\ DOMAIN FieldOf \subseteq SingletonNames
    /\ {"euroToken", "feeDisbursal", "gasExchange", "euroLock", "etherToken", "votingCenter",
        "icbmCommitment", "tokenExchangeRateOracle", "platformTerms", "identityRegistry",
        "etherLock", "platformPortfolio", "euroTokenController"} \subseteq SingletonNames
    /\ \A name \in UnderPolicy : KindOf(name) = name
    /\ DOMAIN FieldKind = {"neumark", "etherToken", "euroToken", "etherLock", "euroLock"}
    /\ DOMAIN FieldOf = {"neumark", "icbmEtherLock", "icbmEuroLock", "icbmEtherToken",
                         "icbmEuroToken"}
    /\ \A f \in DOMAIN FieldOf : FieldOf[f] \in DOMAIN FieldKind /\ FieldKind[FieldOf[f]] = f
BY DEF UnderPolicy, SingletonNames, PlatformSingletons, KindOf, FieldKind, FieldOf

\* Who has a policy of the chain.
Governed == {"policy", "forkArbiter", "neumark", "icbmEtherToken", "icbmEuroToken",
             "icbmEtherLock", "icbmEuroLock", "commitment", "universe", "euroTokenController",
             "euroToken", "etherLock", "euroLock", "feeDisbursal",
             "identityRegistry", "etherToken", "gasExchange"}

\* A contract of a kind that has a policy has one of the chain.
LEMMA PolicyOf ==
    ASSUME NEW A, NEW P, NEW k, NEW r \in Shape(k, A, P)
    PROVE  r.policy \in P \cup {Zero} /\ (k \in Governed => r.policy \in P)
BY DEF Shape, LockShape, TokenShape, ControllerShape, UniverseShape, DisbursalShape, Governed

\* The commitment in use and its contracts, all under its policy.
LEMMA IcbmInUse ==
    ASSUME Structure, step # 2 \/ config.commitment # Zero
    PROVE  /\ Commitment = mem["commitment"] /\ Is(mem["commitment"], "commitment")
           /\ IcbmState.policy \in Policies /\ Is(IcbmState.policy, "policy")
           /\ \A f \in DOMAIN FieldKind :
                Is(IcbmState[f], FieldKind[f]) /\ contracts[IcbmState[f]].policy = IcbmState.policy
<1> USE DEF Structure
<1>1. mem["commitment"] # Zero
  BY DEF IcbmStage
<1>2. Commitment = mem["commitment"]
  BY DEF ConfigOK, Commitment
<1>3. "commitment" \in Kinds
  BY KindsAre
<1>4. Is(mem["commitment"], "commitment")
  BY <1>1, <1>3 DEF ArtifactsOK, Artifacts
<1>5. LinkedCommitment(IcbmState)
  BY <1>4 DEF LinksOK, Linked, Is, IcbmState
<1>6. IcbmState \in Shape("commitment", OnChain, Policies)
  BY <1>4 DEF ContractsOK, Is, IcbmState
<1>7. IcbmState.policy \in Policies
  BY <1>6, PolicyOf DEF Governed
<1>8. Is(IcbmState.policy, "policy")
  BY <1>7 DEF AddressesOK, Is, OfKind
<1> QED
  BY <1>2, <1>4, <1>5, <1>7, <1>8 DEF LinkedCommitment

\* The universe in use.
LEMMA UniverseIsKnown ==
    ASSUME Structure, step >= 9, mem["universe"] # Zero
    PROVE  /\ UniverseInUse = mem["universe"] /\ Is(mem["universe"], "universe")
           /\ UniverseState \in UniverseShape(OnChain, Policies)
           /\ UniverseState.policy \in Policies /\ Is(UniverseState.policy, "policy")
           /\ LinkedUniverse(UniverseState)
           /\ \A name : SingletonOf(name) = UniverseState.singletons[name]
<1> USE DEF Structure
<1>1. "universe" \in Kinds /\ "universe" \in PlatformKinds
  BY KindsAre DEF PlatformKinds
<1>2. UniverseInUse = mem["universe"]
  BY <1>1 DEF ConfigOK, UniverseInUse, MemOK
<1>3. Is(mem["universe"], "universe")
  BY <1>1 DEF ArtifactsOK, Artifacts
<1>4. LinkedUniverse(UniverseState)
  BY <1>3 DEF LinksOK, Linked, Is, UniverseState
<1>5. UniverseState \in Shape("universe", OnChain, Policies)
  BY <1>3 DEF ContractsOK, Is, UniverseState
<1>6. UniverseState.policy \in Policies
  BY <1>5, PolicyOf DEF Governed
<1>8. UniverseState \in UniverseShape(OnChain, Policies)
  BY <1>5 DEF Shape
<1>7. Is(UniverseState.policy, "policy")
  BY <1>6 DEF AddressesOK, Is, OfKind
<1> QED
  BY <1>2, <1>3, <1>4, <1>6, <1>7, <1>8 DEF SingletonOf, UniverseState

\* What it registers once its migration is behind.
LEMMA UniverseIsReady ==
    ASSUME Structure, step > 9
    PROVE  /\ mem["universe"] # Zero
           /\ \A name \in DOMAIN FieldOf :
                /\ SingletonOf(name) = IcbmState[FieldOf[name]]
                /\ Is(SingletonOf(name), name)
                /\ contracts[SingletonOf(name)].policy = IcbmState.policy
           /\ Is(SingletonOf("euroToken"), "euroToken")
           /\ contracts[SingletonOf("euroToken")].policy = UniverseState.policy
           /\ Is(SingletonOf("euroLock"), "euroLock")
           /\ TokenController = SingletonOf("euroTokenController")
           /\ Is(TokenController, "euroTokenController")
           /\ contracts[TokenController].policy = UniverseState.policy
           /\ UniverseState.policy = IcbmState.policy <=> ~config.isolated
<1>1. /\ mem["universe"] # Zero /\ Ready(UniverseState)
      /\ UniverseState.policy = IcbmState.policy <=> ~config.isolated
  BY DEF Structure, ReadyStage
<1>2. step >= 9 /\ step # 2
  BY DEF Structure, ControlOK, StepSet
<1>3. /\ \A name : SingletonOf(name) = UniverseState.singletons[name]
      /\ LinkedUniverse(UniverseState) 
  BY <1>1, <1>2, UniverseIsKnown
<1>4. ASSUME NEW name \in DOMAIN FieldOf
      PROVE  /\ SingletonOf(name) = IcbmState[FieldOf[name]]
             /\ Is(SingletonOf(name), name)
             /\ contracts[SingletonOf(name)].policy = IcbmState.policy
  <2>1. SingletonOf(name) = IcbmState[FieldOf[name]]
    BY <1>1, <1>3 DEF Ready
  <2>2. FieldOf[name] \in DOMAIN FieldKind /\ FieldKind[FieldOf[name]] = name
    BY NamesKnown
  <2> QED
    BY <1>2, <2>1, <2>2, IcbmInUse
<1> DEFINE token == SingletonOf("euroToken")
<1>5. \A name \in {"euroToken", "euroLock", "euroTokenController"} : Is(SingletonOf(name), name)
  <2> SUFFICES ASSUME NEW name \in {"euroToken", "euroLock", "euroTokenController"}
               PROVE  Is(SingletonOf(name), name)
    OBVIOUS
  <2>1. name \in SingletonNames \ {"votingCenter"} /\ KindOf(name) = name
    BY NamesKnown DEF UnderPolicy
  <2>2. SingletonOf(name) # Zero
    BY <1>1, <1>3, <2>1 DEF Ready
  <2>3. SingletonOK(name, SingletonOf(name))
    BY <1>3, <2>1 DEF LinkedUniverse
  <2> QED
    BY <2>1, <2>2, <2>3 DEF SingletonOK
<1>6. contracts[token].policy = UniverseState.policy
  BY <1>3, <1>5 DEF LinkedUniverse, UnderPolicy, Is
<1>7. TokenController = SingletonOf("euroTokenController")
  <2>1. token # Zero
    BY <1>5, NotContracts DEF Structure, AddressesOK, Is
  <2> QED
    BY <1>3, <2>1 DEF LinkedUniverse, TokenController, Is
<1>8. contracts[TokenController].policy = UniverseState.policy
  BY <1>3, <1>5, <1>7 DEF LinkedUniverse, UnderPolicy, Is
<1> QED
  BY <1>1, <1>4, <1>5, <1>6, <1>7, <1>8

-----------------------------------------------------------------------------
(* Transactions that deploy nothing *)

\* A contract that fits its kind still does when the chain has grown.
LEMMA ShapeGrows ==
    ASSUME NEW A, NEW B, NEW P, NEW Q, A \subseteq B, P \subseteq Q, NEW k
    PROVE  Shape(k, A, P) \subseteq Shape(k, B, Q)
<1> SUFFICES ASSUME NEW r \in Shape(k, A, P) PROVE r \in Shape(k, B, Q)
  OBVIOUS
<1>1. CASE k = "commitment"
  BY <1>1 DEF Shape
<1>2. CASE k \in {"icbmEtherToken", "icbmEuroToken"}
  BY <1>2 DEF Shape, TokenShape
<1>3. CASE k \in {"icbmEtherLock", "icbmEuroLock"}
  BY <1>3 DEF Shape, LockShape
<1>4. CASE k = "universe"
  BY <1>4 DEF Shape, UniverseShape
<1>5. CASE k = "euroTokenController"
  BY <1>5 DEF Shape, ControllerShape
<1>6. CASE k \in {"euroToken", "etherLock", "euroLock", "feeDisbursal"}
  BY <1>6 DEF Shape, DisbursalShape
<1>7. CASE k \notin Governed \/ k \in {"policy", "forkArbiter", "neumark", "identityRegistry",
                                   "etherToken", "gasExchange"}
  BY <1>7 DEF Shape, Governed
<1> QED
  BY <1>1, <1>2, <1>3, <1>4, <1>5, <1>6, <1>7 DEF Governed

\* The artifacts and the contracts in use stay what they are.
LEMMA ArtifactsKept ==
    ASSUME ArtifactsOK, OnChain \subseteq OnChain', mem' = mem, saved' = saved
    PROVE  ArtifactsOK'
BY DEF ArtifactsOK, Artifacts, Addr, Is

\* What is deployed so far does not change when nothing is deployed.
LEMMA NothingDeployed ==
    ASSUME ControlOK, ConfigOK, NEW op, Running(op), op # "deploy", Advance, NEW k
    PROVE  DeployedBefore(k)' <=> DeployedBefore(k)
<1>1. /\ step \in StepSet /\ pc \in 1 .. LengthOf(step) /\ OpAt(step, pc) = op
      /\ config.isolated \in BOOLEAN
  BY RunningIs
<1>2. Place(k) # pc
  BY <1>1, Places
<1>3. pc \in Nat /\ pc >= 1
  BY <1>1, Lengths
<1>4. pc' = pc + 1 /\ Place(k)' = Place(k) /\ Skipped' = Skipped
  BY DEF Advance, Place, Offset, Skipped, ShouldSkipStep
<1>5. Place(k) \in Int
  BY <1>1 DEF Place, Offset
<1> QED
  BY <1>2, <1>3, <1>4, <1>5 DEF DeployedBefore

\* What is deployed so far stays linked when nothing is deployed.
LEMMA StagesMove ==
    ASSUME Structure, NEW op, Running(op), op # "deploy", Advance, mem' = mem, Keeps
    PROVE  ConfigOK' /\ MemOK' /\ IcbmStage' /\ PlatformStage'
<1>1. /\ step \in StepSet /\ pc \in 1 .. LengthOf(step) /\ LengthOf(step) \in Nat
      /\ config.isolated \in BOOLEAN
  BY RunningIs, Lengths DEF Structure
<1>2. pc' = pc + 1 /\ UNCHANGED <<network, config, saved, step, status, mem>>
  BY DEF Advance
<1>3. \A k : DeployedBefore(k)' <=> DeployedBefore(k)
  BY NothingDeployed DEF Structure
<1>4. ConfigOK'
  BY <1>1, <1>2 DEF Structure, ConfigOK, Keeps, Addr, isLiveDeployment
<1>5. MemOK'
  BY <1>2, <1>3 DEF Structure, MemOK
<1>6. \A k \in Kinds : mem[k] # Zero => mem[k] \in OnChain
  BY DEF Structure, ArtifactsOK, Artifacts, Is
<1>7. \A k \in Kinds : DeployedBefore(k) => contracts'[mem[k]].policy = contracts[mem[k]].policy
  BY <1>6 DEF Structure, MemOK, Keeps
<1>8. IcbmStage'
  <2>1. step = 2 => \A k \in IcbmKinds : DeployedBefore(k)' => contracts'[mem'[k]].policy = mem'["policy"]
    <3>1. IcbmKinds \subseteq Kinds
      BY KindsAre DEF IcbmKinds
    <3> QED
      BY <1>2, <1>3, <1>7, <3>1 DEF Structure, IcbmStage
  <2>2. step # 2 /\ IcbmState' = IcbmState
    <3>1. step # 2
      BY <1>1, RunningIs DEF OpAt, Structure
    <3> QED
      BY <1>2, <3>1, IcbmInUse DEF IcbmState, Keeps, Is
  <2> QED
    BY <1>2, <2>1, <2>2 DEF Structure, IcbmStage
<1>9. PlatformStage'
  <2>1. CASE step = 9
    <3>1. IcbmState' = IcbmState
      BY <1>2, <2>1, IcbmInUse DEF IcbmState, Keeps, Is
    <3>2. DeployedBefore("universe") => UniverseState'.policy = UniverseState.policy
      BY <1>2, <1>7, KindsAre DEF UniverseState
    <3>3. \A k \in UnderPolicy : DeployedBefore(k) => DeployedBefore("universe")
      BY <1>1, <2>1 DEF UnderPolicy, DeployedBefore, Place, Offset
    <3>4. \A k \in UnderPolicy : DeployedBefore(k) => contracts'[mem[k]].policy = UniverseState'.policy
      <4>1. UnderPolicy \subseteq Kinds
        BY KindsAre DEF UnderPolicy
      <4> QED
        BY <2>1, <4>1, <3>2, <3>3, <1>7 DEF Structure, PlatformStage
    <3>5. DeployedBefore("euroToken") =>
            contracts'[mem["euroToken"]].controller = mem["euroTokenController"]
      <4>1. SUFFICES ASSUME DeployedBefore("euroToken")
                     PROVE  contracts'[mem["euroToken"]].controller = mem["euroTokenController"]
        OBVIOUS
      <4>2. Is(mem["euroToken"], "euroToken")
        BY <4>1, KindsAre DEF Structure, MemOK, ArtifactsOK, Artifacts
      <4> QED
        BY <2>1, <4>1, <4>2 DEF Structure, PlatformStage, Keeps, Is
    <3> QED
      BY <1>2, <1>3, <2>1, <3>1, <3>2, <3>4, <3>5 DEF Structure, PlatformStage
  <2>2. CASE step = 12
    <3>1. UniverseState'.policy = UniverseState.policy
      BY <1>2, <2>2, UniverseIsReady, UniverseIsKnown DEF UniverseState, Keeps, Is
    <3> QED
      BY <1>2, <1>3, <1>7, <2>2, <3>1, KindsAre DEF Structure, PlatformStage
  <2>3. CASE step \notin {9, 12}
    BY <1>2, <2>3 DEF PlatformStage
  <2> QED
    BY <2>1, <2>2, <2>3
<1> QED
  BY <1>4, <1>5, <1>8, <1>9

\* What the universe registers stays registered.
LEMMA ReadyMoves ==
    ASSUME Structure, NEW op, Running(op), op \notin {"deploy", "singletons"}, Advance, mem' = mem,
           Keeps, \A a \in OnChain : KeepsLinks(a)
    PROVE  ReadyStage'
<1>1. /\ step \in StepSet /\ pc \in 1 .. LengthOf(step) /\ OpAt(step, pc) = op
      /\ config.isolated \in BOOLEAN
  BY RunningIs DEF Structure
<1>2. pc' = pc + 1 /\ UNCHANGED <<network, config, saved, step, status, mem>> /\ Offset' = Offset
  BY DEF Advance, Offset
<1>3. ~(step = 9 /\ pc = 11 + Offset) /\ ~(step = 12 /\ pc = 4)
  BY <1>1 DEF OpAt, Offset
<1>4. CASE step = 9
  BY <1>1, <1>2, <1>3, <1>4 DEF ReadyStage, LengthOf, Offset
<1>5. CASE step > 9
  <2>1. /\ mem["universe"] # Zero /\ Ready(UniverseState)
        /\ UniverseState.policy = IcbmState.policy <=> ~config.isolated
    BY <1>5 DEF Structure, ReadyStage
  <2>2. step >= 9 /\ step # 2
    BY <1>1, <1>5 DEF StepSet
  <2>3. /\ UniverseState'.policy = UniverseState.policy
        /\ UniverseState'.singletons = UniverseState.singletons
    BY <1>2, <2>1, <2>2, UniverseIsKnown DEF UniverseState, Keeps, KeepsLinks, Is
  <2>4. IcbmState' = IcbmState
    BY <1>2, <2>2, IcbmInUse DEF IcbmState, Keeps, Is
  <2>5. Ready(UniverseState)'
    BY <2>1, <2>3, <2>4 DEF Ready
  <2>6. step > 12 \/ (step = 12 /\ pc' > 4) =>
          UniverseState'.singletons["feeDisbursal"] \in OnChain'
    BY <1>1, <1>2, <1>3, <2>3, Lengths DEF Structure, ReadyStage, Keeps
  <2> QED
    BY <1>2, <2>1, <2>3, <2>4, <2>5, <2>6 DEF ReadyStage
<1>6. CASE step < 9
  BY <1>1, <1>2, <1>6 DEF ReadyStage, StepSet
<1> QED
  BY <1>1, <1>4, <1>5, <1>6 DEF StepSet

\* The addresses stay what they are.
LEMMA AddressesKept ==
    ASSUME AddressesOK, OnChain' = OnChain, Policies' = Policies, amended' \subseteq OnChain
    PROVE  AddressesOK'
BY DEF AddressesOK, OfKind

\* A transaction that deploys and registers nothing keeps the structure.
LEMMA TransactionKeeps ==
    ASSUME Structure, NEW op, Running(op), op \notin {"deploy", "singletons"}, Advance, mem' = mem,
           Keeps, OnChain' = OnChain, Policies' = Policies, amended' \subseteq OnChain,
           \A a \in OnChain : KeepsLinks(a), ContractsOK', AccessOK'
    PROVE  Structure'
<1>1. AddressesOK'
  BY AddressesKept DEF Structure
<1>2. LinksOK'
  BY <1>1, LinkedKept DEF Structure, LinksOK, Advance
<1>3. ArtifactsOK'
  BY ArtifactsKept DEF Structure, Advance
<1> QED
  BY <1>1, <1>2, <1>3, StagesMove, ReadyMoves, ControlMoves DEF Structure

-----------------------------------------------------------------------------
(* What the operations on roles set *)

\* The policy, the rights, still references, and what becomes of them.
PolicyAt(n) == IF n < 9 THEN Deployed("policy") ELSE UniversePolicy
KeysAt(n, p) ==
    CASE n = 3 ->
           {IF p = 1 THEN <<Deployed("commitment"), "neumarkIssuer", Deployed("neumark")>>
            ELSE IF p = 2 THEN <<Deployed("commitment"), "transferAdmin", Deployed("neumark")>>
            ELSE IF p = 3 THEN <<Everything, "neumarkBurner", Deployed("neumark")>>
            ELSE IF p = 4 THEN <<Of("LOCKED_ACCOUNT_ADMIN"), "lockedAccountAdmin", Everything>>
            ELSE IF p = 5 THEN <<Of("WHITELIST_ADMIN"), "whitelistAdmin", Deployed("commitment")>>
            ELSE IF p = 6 THEN <<Of("PLATFORM_OPERATOR_REPRESENTATIVE"),
                                 "platformOperatorRepresentative", Everything>>
            ELSE IF p = 7 THEN <<Of("EURT_DEPOSIT_MANAGER"), "eurtDepositManager",
                                 Deployed("icbmEuroToken")>>
            ELSE <<Deployer, "eurtDepositManager", Deployed("icbmEuroToken")>>}
      [] n = 4 -> {<<Deployer, "lockedAccountAdmin", Everything>>}
      [] n = 6 ->
           {IF p = 1 THEN <<Deployer, "eurtDepositManager", Deployed("icbmEuroToken")>>
            ELSE IF p = 2 THEN <<Deployer, "lockedAccountAdmin", Everything>>
            ELSE IF p = 3 THEN <<Of("ACCESS_CONTROLLER"), "accessController", Everything>>
            ELSE IF p = 4 THEN <<Of("ACCESS_CONTROLLER"), "accessController", Deployed("policy")>>
            ELSE <<Deployer, "accessController", Everything>>}
      [] n \in {9, 13, 15} -> {<<Deployer, "universeManager", Universe>>}
      [] n = 10 -> IF p = 1 /\ ~config.isolated THEN IssuerRulesKeys ELSE PlatformRulesKeys
      [] n = 11 -> IF p = 1 THEN SetupRulesKeys
                   ELSE {<<Of("PLATFORM_OPERATOR_WALLET"), "reclaimer", Singleton("gasExchange")>>}
      [] n = 12 -> DisbursalRulesKeys
      [] n = 14 -> {<<Deployer, "disbursalManager", Everything>>}
      [] n = 16 -> {<<Deployer, "universeManager", Everything>>}
      [] n = 201 -> FinalRulesKeys
StateAt(n, p) ==
    IF (n = 6 /\ p \in {1, 2, 5}) \/ (n = 10 /\ p = 1 /\ ~config.isolated) \/ n = 201
    THEN "Unset" ELSE "Allow"

\* The rules of each operation on roles are those of KeysAt and StateAt.
LEMMA RolesAt ==
    ASSUME config.isolated \in BOOLEAN, NEW n \in StepSet, NEW p \in 1 .. LengthOf(n),
           OpAt(n, p) = "roles"
    PROVE  SetsRoles(Migration(n)[p], PolicyAt(n), KeysAt(n, p), StateAt(n, p))
<1>1. CASE n = 3
  <2>1. p = 1 \/ p = 2 \/ p = 3 \/ p = 4 \/ p = 5 \/ p = 6 \/ p = 7 \/ p = 8
    BY <1>1 DEF OpAt, LengthOf
  <2>2. SetsRoles(Migration(3)[1], PolicyAt(3), KeysAt(3, 1), StateAt(3, 1))
    <3>1. Migration(3)[1] = Roles(Deployed("policy"), <<Grant(Deployed("commitment"), "neumarkIssuer", Deployed("neumark"))>>)
      BY Program3
    <3>2. SetsRoles(Migration(3)[1], Deployed("policy"), {<<Deployed("commitment"), "neumarkIssuer", Deployed("neumark")>>}, "Allow")
      BY <3>1, OneRule
    <3>3. /\ PolicyAt(3) = Deployed("policy") /\ StateAt(3, 1) = "Allow"
         /\ KeysAt(3, 1) = {<<Deployed("commitment"), "neumarkIssuer", Deployed("neumark")>>}
      BY DEF PolicyAt, StateAt, KeysAt
    <3> QED
      BY <3>2, <3>3
  <2>3. SetsRoles(Migration(3)[2], PolicyAt(3), KeysAt(3, 2), StateAt(3, 2))
    <3>1. Migration(3)[2] = Roles(Deployed("policy"), <<Grant(Deployed("commitment"), "transferAdmin", Deployed("neumark"))>>)
      BY Program3
    <3>2. SetsRoles(Migration(3)[2], Deployed("policy"), {<<Deployed("commitment"), "transferAdmin", Deployed("neumark")>>}, "Allow")
      BY <3>1, OneRule
    <3>3. /\ PolicyAt(3) = Deployed("policy") /\ StateAt(3, 2) = "Allow"
         /\ KeysAt(3, 2) = {<<Deployed("commitment"), "transferAdmin", Deployed("neumark")>>}
      BY DEF PolicyAt, StateAt, KeysAt
    <3> QED
      BY <3>2, <3>3
  <2>4. SetsRoles(Migration(3)[3], PolicyAt(3), KeysAt(3, 3), StateAt(3, 3))
    <3>1. Migration(3)[3] = Roles(Deployed("policy"), <<Grant(Everything, "neumarkBurner", Deployed("neumark"))>>)
      BY Program3
    <3>2. SetsRoles(Migration(3)[3], Deployed("policy"), {<<Everything, "neumarkBurner", Deployed("neumark")>>}, "Allow")
      BY <3>1, OneRule
    <3>3. /\ PolicyAt(3) = Deployed("policy") /\ StateAt(3, 3) = "Allow"
         /\ KeysAt(3, 3) = {<<Everything, "neumarkBurner", Deployed("neumark")>>}
      BY DEF PolicyAt, StateAt, KeysAt
    <3> QED
      BY <3>2, <3>3
  <2>5. SetsRoles(Migration(3)[4], PolicyAt(3), KeysAt(3, 4), StateAt(3, 4))
    <3>1. Migration(3)[4] = Roles(Deployed("policy"), <<Grant(Of("LOCKED_ACCOUNT_ADMIN"), "lockedAccountAdmin", Everything)>>)
      BY Program3
    <3>2. SetsRoles(Migration(3)[4], Deployed("policy"), {<<Of("LOCKED_ACCOUNT_ADMIN"), "lockedAccountAdmin", Everything>>}, "Allow")
      BY <3>1, OneRule
    <3>3. /\ PolicyAt(3) = Deployed("policy") /\ StateAt(3, 4) = "Allow"
         /\ KeysAt(3, 4) = {<<Of("LOCKED_ACCOUNT_ADMIN"), "lockedAccountAdmin", Everything>>}
      BY DEF PolicyAt, StateAt, KeysAt
    <3> QED
      BY <3>2, <3>3
  <2>6. SetsRoles(Migration(3)[5], PolicyAt(3), KeysAt(3, 5), StateAt(3, 5))
    <3>1. Migration(3)[5] = Roles(Deployed("policy"), <<Grant(Of("WHITELIST_ADMIN"), "whitelistAdmin", Deployed("commitment"))>>)
      BY Program3
    <3>2. SetsRoles(Migration(3)[5], Deployed("policy"), {<<Of("WHITELIST_ADMIN"), "whitelistAdmin", Deployed("commitment")>>}, "Allow")
      BY <3>1, OneRule
    <3>3. /\ PolicyAt(3) = Deployed("policy") /\ StateAt(3, 5) = "Allow"
         /\ KeysAt(3, 5) = {<<Of("WHITELIST_ADMIN"), "whitelistAdmin", Deployed("commitment")>>}
      BY DEF PolicyAt, StateAt, KeysAt
    <3> QED
      BY <3>2, <3>3
  <2>7. SetsRoles(Migration(3)[6], PolicyAt(3), KeysAt(3, 6), StateAt(3, 6))
    <3>1. Migration(3)[6] = Roles(Deployed("policy"), <<Grant(Of("PLATFORM_OPERATOR_REPRESENTATIVE"), "platformOperatorRepresentative", Everything)>>)
      BY Program3
    <3>2. SetsRoles(Migration(3)[6], Deployed("policy"), {<<Of("PLATFORM_OPERATOR_REPRESENTATIVE"), "platformOperatorRepresentative", Everything>>}, "Allow")
      BY <3>1, OneRule
    <3>3. /\ PolicyAt(3) = Deployed("policy") /\ StateAt(3, 6) = "Allow"
         /\ KeysAt(3, 6) = {<<Of("PLATFORM_OPERATOR_REPRESENTATIVE"), "platformOperatorRepresentative", Everything>>}
      BY DEF PolicyAt, StateAt, KeysAt
    <3> QED
      BY <3>2, <3>3
  <2>8. SetsRoles(Migration(3)[7], PolicyAt(3), KeysAt(3, 7), StateAt(3, 7))
    <3>1. Migration(3)[7] = Roles(Deployed("policy"), <<Grant(Of("EURT_DEPOSIT_MANAGER"), "eurtDepositManager", Deployed("icbmEuroToken"))>>)
      BY Program3
    <3>2. SetsRoles(Migration(3)[7], Deployed("policy"), {<<Of("EURT_DEPOSIT_MANAGER"), "eurtDepositManager", Deployed("icbmEuroToken")>>}, "Allow")
      BY <3>1, OneRule
    <3>3. /\ PolicyAt(3) = Deployed("policy") /\ StateAt(3, 7) = "Allow"
         /\ KeysAt(3, 7) = {<<Of("EURT_DEPOSIT_MANAGER"), "eurtDepositManager", Deployed("icbmEuroToken")>>}
      BY DEF PolicyAt, StateAt, KeysAt
    <3> QED
      BY <3>2, <3>3
  <2>9. SetsRoles(Migration(3)[8], PolicyAt(3), KeysAt(3, 8), StateAt(3, 8))
    <3>1. Migration(3)[8] = Roles(Deployed("policy"), <<Grant(Deployer, "eurtDepositManager", Deployed("icbmEuroToken"))>>)
      BY Program3
    <3>2. SetsRoles(Migration(3)[8], Deployed("policy"), {<<Deployer, "eurtDepositManager", Deployed("icbmEuroToken")>>}, "Allow")
      BY <3>1, OneRule
    <3>3. /\ PolicyAt(3) = Deployed("policy") /\ StateAt(3, 8) = "Allow"
         /\ KeysAt(3, 8) = {<<Deployer, "eurtDepositManager", Deployed("icbmEuroToken")>>}
      BY DEF PolicyAt, StateAt, KeysAt
    <3> QED
      BY <3>2, <3>3
  <2> QED
    BY <1>1, <2>1, <2>2, <2>3, <2>4, <2>5, <2>6, <2>7, <2>8, <2>9
<1>2. CASE n = 4
  <2>1. p = 1
    BY <1>2 DEF OpAt, LengthOf
  <2>2. SetsRoles(Migration(4)[1], PolicyAt(4), KeysAt(4, 1), StateAt(4, 1))
    <3>1. Migration(4)[1] = Roles(Deployed("policy"), <<Grant(Deployer, "lockedAccountAdmin", Everything)>>)
      BY Program4
    <3>2. SetsRoles(Migration(4)[1], Deployed("policy"), {<<Deployer, "lockedAccountAdmin", Everything>>}, "Allow")
      BY <3>1, OneRule
    <3>3. /\ PolicyAt(4) = Deployed("policy") /\ StateAt(4, 1) = "Allow"
         /\ KeysAt(4, 1) = {<<Deployer, "lockedAccountAdmin", Everything>>}
      BY DEF PolicyAt, StateAt, KeysAt
    <3> QED
      BY <3>2, <3>3
  <2> QED
    BY <1>2, <2>1, <2>2
<1>3. CASE n = 6
  <2>1. isLiveDeployment /\ (p = 1 \/ p = 2 \/ p = 3 \/ p = 4 \/ p = 5)
    BY <1>3 DEF LengthOf
  <2>2. SetsRoles(Migration(6)[1], PolicyAt(6), KeysAt(6, 1), StateAt(6, 1))
    <3>1. Migration(6)[1] = Roles(Deployed("policy"), <<Drop(Deployer, "eurtDepositManager", Deployed("icbmEuroToken"))>>)
      BY <2>1, Program6Live
    <3>2. SetsRoles(Migration(6)[1], Deployed("policy"), {<<Deployer, "eurtDepositManager", Deployed("icbmEuroToken")>>}, "Unset")
      BY <3>1, OneRule
    <3>3. /\ PolicyAt(6) = Deployed("policy") /\ StateAt(6, 1) = "Unset"
         /\ KeysAt(6, 1) = {<<Deployer, "eurtDepositManager", Deployed("icbmEuroToken")>>}
      BY DEF PolicyAt, StateAt, KeysAt
    <3> QED
      BY <3>2, <3>3
  <2>3. SetsRoles(Migration(6)[2], PolicyAt(6), KeysAt(6, 2), StateAt(6, 2))
    <3>1. Migration(6)[2] = Roles(Deployed("policy"), <<Drop(Deployer, "lockedAccountAdmin", Everything)>>)
      BY <2>1, Program6Live
    <3>2. SetsRoles(Migration(6)[2], Deployed("policy"), {<<Deployer, "lockedAccountAdmin", Everything>>}, "Unset")
      BY <3>1, OneRule
    <3>3. /\ PolicyAt(6) = Deployed("policy") /\ StateAt(6, 2) = "Unset"
         /\ KeysAt(6, 2) = {<<Deployer, "lockedAccountAdmin", Everything>>}
      BY DEF PolicyAt, StateAt, KeysAt
    <3> QED
      BY <3>2, <3>3
  <2>4. SetsRoles(Migration(6)[3], PolicyAt(6), KeysAt(6, 3), StateAt(6, 3))
    <3>1. Migration(6)[3] = Roles(Deployed("policy"), <<Grant(Of("ACCESS_CONTROLLER"), "accessController", Everything)>>)
      BY <2>1, Program6Live
    <3>2. SetsRoles(Migration(6)[3], Deployed("policy"), {<<Of("ACCESS_CONTROLLER"), "accessController", Everything>>}, "Allow")
      BY <3>1, OneRule
    <3>3. /\ PolicyAt(6) = Deployed("policy") /\ StateAt(6, 3) = "Allow"
         /\ KeysAt(6, 3) = {<<Of("ACCESS_CONTROLLER"), "accessController", Everything>>}
      BY DEF PolicyAt, StateAt, KeysAt
    <3> QED
      BY <3>2, <3>3
  <2>5. SetsRoles(Migration(6)[4], PolicyAt(6), KeysAt(6, 4), StateAt(6, 4))
    <3>1. Migration(6)[4] = Roles(Deployed("policy"), <<Grant(Of("ACCESS_CONTROLLER"), "accessController", Deployed("policy"))>>)
      BY <2>1, Program6Live
    <3>2. SetsRoles(Migration(6)[4], Deployed("policy"), {<<Of("ACCESS_CONTROLLER"), "accessController", Deployed("policy")>>}, "Allow")
      BY <3>1, OneRule
    <3>3. /\ PolicyAt(6) = Deployed("policy") /\ StateAt(6, 4) = "Allow"
         /\ KeysAt(6, 4) = {<<Of("ACCESS_CONTROLLER"), "accessController", Deployed("policy")>>}
      BY DEF PolicyAt, StateAt, KeysAt
    <3> QED
      BY <3>2, <3>3
  <2>6. SetsRoles(Migration(6)[5], PolicyAt(6), KeysAt(6, 5), StateAt(6, 5))
    <3>1. Migration(6)[5] = Roles(Deployed("policy"), <<Drop(Deployer, "accessController", Everything)>>)
      BY <2>1, Program6Live
    <3>2. SetsRoles(Migration(6)[5], Deployed("policy"), {<<Deployer, "accessController", Everything>>}, "Unset")
      BY <3>1, OneRule
    <3>3. /\ PolicyAt(6) = Deployed("policy") /\ StateAt(6, 5) = "Unset"
         /\ KeysAt(6, 5) = {<<Deployer, "accessController", Everything>>}
      BY DEF PolicyAt, StateAt, KeysAt
    <3> QED
      BY <3>2, <3>3
  <2> QED
    BY <1>3, <2>1, <2>2, <2>3, <2>4, <2>5, <2>6
<1>4. CASE n = 9
  <2>1. p = 10 + Offset
    BY <1>4 DEF OpAt, LengthOf, Offset
  <2>2. Migration(9)[p] = Roles(UniversePolicy, <<Grant(Deployer, "universeManager", Universe)>>)
    BY <2>1, Program9Shared, Program9Isolated DEF Offset
  <2>3. SetsRoles(Migration(9)[p], UniversePolicy, {<<Deployer, "universeManager", Universe>>}, "Allow")
    BY <2>2, OneRule
  <2>4. /\ PolicyAt(9) = UniversePolicy /\ StateAt(9, p) = "Allow"
        /\ KeysAt(9, p) = {<<Deployer, "universeManager", Universe>>}
    BY DEF PolicyAt, StateAt, KeysAt
  <2> QED
    BY <1>4, <2>3, <2>4
<1>5. CASE n = 10
  <2>1. CASE p = 1 /\ ~config.isolated
    <3>1. SetsRoles(Migration(10)[1], UniversePolicy, IssuerRulesKeys, "Unset")
      BY <2>1, Program10Shared, IssuerRulesSet
    <3>2. PolicyAt(10) = UniversePolicy /\ StateAt(10, 1) = "Unset" /\ KeysAt(10, 1) = IssuerRulesKeys
      BY <2>1 DEF PolicyAt, StateAt, KeysAt
    <3> QED
      BY <1>5, <2>1, <3>1, <3>2
  <2>2. CASE ~(p = 1 /\ ~config.isolated)
    <3>1. (p = 1 /\ config.isolated) \/ (p = 2 /\ ~config.isolated)
      BY <1>5, <2>2 DEF LengthOf, Offset
    <3>2. SetsRoles(Migration(10)[p], UniversePolicy, PlatformRulesKeys, "Allow")
      BY <3>1, Program10Shared, Program10Isolated, PlatformRulesSet
    <3>3. /\ PolicyAt(10) = UniversePolicy /\ StateAt(10, p) = "Allow"
          /\ KeysAt(10, p) = PlatformRulesKeys
      BY <3>1 DEF PolicyAt, StateAt, KeysAt
    <3> QED
      BY <1>5, <3>2, <3>3
  <2> QED
    BY <2>1, <2>2
<1>6. CASE n = 11
  <2>1. p = 1 \/ p = 6
    BY <1>6 DEF OpAt, LengthOf
  <2>2. SetsRoles(Migration(11)[1], PolicyAt(11), KeysAt(11, 1), StateAt(11, 1))
    <3>1. SetsRoles(Migration(11)[1], UniversePolicy, SetupRulesKeys, "Allow")
      BY Program11, SetupRulesSet
    <3>2. PolicyAt(11) = UniversePolicy /\ StateAt(11, 1) = "Allow" /\ KeysAt(11, 1) = SetupRulesKeys
      BY DEF PolicyAt, StateAt, KeysAt
    <3> QED
      BY <3>1, <3>2
  <2>3. SetsRoles(Migration(11)[6], PolicyAt(11), KeysAt(11, 6), StateAt(11, 6))
    <3>1. Migration(11)[6] = Roles(UniversePolicy, <<Grant(Of("PLATFORM_OPERATOR_WALLET"), "reclaimer", Singleton("gasExchange"))>>)
      BY Program11
    <3>2. SetsRoles(Migration(11)[6], UniversePolicy, {<<Of("PLATFORM_OPERATOR_WALLET"), "reclaimer", Singleton("gasExchange")>>}, "Allow")
      BY <3>1, OneRule
    <3>3. /\ PolicyAt(11) = UniversePolicy /\ StateAt(11, 6) = "Allow"
         /\ KeysAt(11, 6) = {<<Of("PLATFORM_OPERATOR_WALLET"), "reclaimer", Singleton("gasExchange")>>}
      BY DEF PolicyAt, StateAt, KeysAt
    <3> QED
      BY <3>2, <3>3
  <2> QED
    BY <1>6, <2>1, <2>2, <2>3
<1>7. CASE n = 12
  <2>1. p = 3
    BY <1>7 DEF OpAt, LengthOf
  <2>2. SetsRoles(Migration(12)[3], UniversePolicy, DisbursalRulesKeys, "Allow")
    <3>1. Migration(12)[3] = Roles(UniversePolicy, DisbursalRules)
      BY Program12Live, Program12Dev
    <3> QED
      BY <3>1, DisbursalRulesSet
  <2>3. PolicyAt(12) = UniversePolicy /\ StateAt(12, 3) = "Allow" /\ KeysAt(12, 3) = DisbursalRulesKeys
    BY DEF PolicyAt, StateAt, KeysAt
  <2> QED
    BY <1>7, <2>1, <2>2, <2>3
<1>8. CASE n = 13 \/ n = 15
  <2>1. p = 1
    BY <1>8 DEF OpAt, LengthOf
  <2>2. Migration(n)[1] = ManageUniverse
    BY <1>8, Program13Live, Program13Dev, Program15
  <2>3. SetsRoles(ManageUniverse, UniversePolicy, {<<Deployer, "universeManager", Universe>>}, "Allow")
    BY OneRule DEF ManageUniverse
  <2>4. /\ PolicyAt(n) = UniversePolicy /\ StateAt(n, 1) = "Allow"
        /\ KeysAt(n, 1) = {<<Deployer, "universeManager", Universe>>}
    BY <1>8 DEF PolicyAt, StateAt, KeysAt
  <2> QED
    BY <2>1, <2>2, <2>3, <2>4
<1>9. CASE n = 14
  <2>1. p = 1
    BY <1>9 DEF OpAt, LengthOf
  <2>2. SetsRoles(Migration(14)[1], PolicyAt(14), KeysAt(14, 1), StateAt(14, 1))
    <3>1. Migration(14)[1] = Roles(UniversePolicy, <<Grant(Deployer, "disbursalManager", Everything)>>)
      BY Program14
    <3>2. SetsRoles(Migration(14)[1], UniversePolicy, {<<Deployer, "disbursalManager", Everything>>}, "Allow")
      BY <3>1, OneRule
    <3>3. /\ PolicyAt(14) = UniversePolicy /\ StateAt(14, 1) = "Allow"
         /\ KeysAt(14, 1) = {<<Deployer, "disbursalManager", Everything>>}
      BY DEF PolicyAt, StateAt, KeysAt
    <3> QED
      BY <3>2, <3>3
  <2> QED
    BY <1>9, <2>1, <2>2
<1>10. CASE n = 16
  <2>1. p = 3
    BY <1>10 DEF OpAt, LengthOf
  <2>2. SetsRoles(Migration(16)[3], PolicyAt(16), KeysAt(16, 3), StateAt(16, 3))
    <3>1. Migration(16)[3] = Roles(UniversePolicy, <<Grant(Deployer, "universeManager", Everything)>>)
      BY Program16
    <3>2. SetsRoles(Migration(16)[3], UniversePolicy, {<<Deployer, "universeManager", Everything>>}, "Allow")
      BY <3>1, OneRule
    <3>3. /\ PolicyAt(16) = UniversePolicy /\ StateAt(16, 3) = "Allow"
         /\ KeysAt(16, 3) = {<<Deployer, "universeManager", Everything>>}
      BY DEF PolicyAt, StateAt, KeysAt
    <3> QED
      BY <3>2, <3>3
  <2> QED
    BY <1>10, <2>1, <2>2
<1>11. CASE n = 201
  <2>1. p = 1 /\ isLiveDeployment /\ ~config.isolated
    BY <1>11 DEF LengthOf
  <2>2. SetsRoles(Migration(201)[1], UniversePolicy, FinalRulesKeys, "Unset")
    BY <2>1, Program201Live, FinalRulesSet
  <2>3. /\ PolicyAt(201) = UniversePolicy /\ StateAt(201, 1) = "Unset"
        /\ KeysAt(201, 1) = FinalRulesKeys
    BY DEF PolicyAt, StateAt, KeysAt
  <2> QED
    BY <1>11, <2>1, <2>2, <2>3
<1>12. n \notin {2, 5}
  BY DEF OpAt
<1> QED
  BY <1>1, <1>2, <1>3, <1>4, <1>5, <1>6, <1>7, <1>8, <1>9, <1>10, <1>11, <1>12 DEF StepSet

\* The rights, of the contracts and accounts the references stand for.
RightsOf(keys) == {<<Ref(k[1]), k[2], Ref(k[3])>> : k \in keys}
Changed(rights, keys, state) ==
    Allowing(IF state = "Allow" THEN rights \cup RightsOf(keys) ELSE rights \ RightsOf(keys))

\* Rules with their references resolved change the rights as Changed says.
LEMMA RolesResolve ==
    ASSUME NEW o, NEW p, NEW keys, NEW state \in {"Allow", "Unset"}, SetsRoles(o, p, keys, state),
           NEW policy, AllowsOnly(policy)
    PROVE  SetUserRoles(policy, Resolved(o.rules)) = Changed(DOMAIN policy, keys, state)
<1> DEFINE r == o.rules
           R == Resolved(r)
<1>1. PICK n \in Nat : DOMAIN r = 1 .. n
  BY DEF SetsRoles
<1>2. \A i \in 1 .. n : r[i] = [subject |-> r[i].subject, role |-> r[i].role,
                                object |-> r[i].object, state |-> state]
  BY <1>1 DEF SetsRoles
<1>3. {KeyOf(r[i]) : i \in 1 .. n} = keys
  BY <1>1 DEF SetsRoles
<1> HIDE DEF r
<1>4. DOMAIN R = 1 .. n
  BY <1>1 DEF Resolved
<1>5. \A i \in 1 .. n : R[i] = [r[i] EXCEPT !.subject = Ref(r[i].subject), !.object = Ref(r[i].object)]
  BY <1>1 DEF Resolved
<1> HIDE DEF R
<1>6. \A i \in 1 .. n : /\ KeyOf(R[i]) = <<Ref(KeyOf(r[i])[1]), KeyOf(r[i])[2], Ref(KeyOf(r[i])[3])>>
                        /\ R[i].state = state
  <2> SUFFICES ASSUME NEW i \in 1 .. n
               PROVE  /\ KeyOf(R[i]) = <<Ref(KeyOf(r[i])[1]), KeyOf(r[i])[2], Ref(KeyOf(r[i])[3])>>
                      /\ R[i].state = state
    OBVIOUS
  <2> DEFINE x == r[i]
             y == R[i]
             sub == r[i].subject
             role == r[i].role
             obj == r[i].object
             S == Ref(sub)
             O == Ref(obj)
  <2>1. x = [subject |-> sub, role |-> role, object |-> obj, state |-> state]
    BY <1>2
  <2>2. y = [x EXCEPT !.subject = S, !.object = O]
    BY <1>5
  <2>3. KeyOf(x) = <<sub, role, obj>>
    BY DEF KeyOf
  <2>4. SUFFICES KeyOf(y) = <<S, role, O>> /\ y.state = state
    BY <2>3
  <2> HIDE DEF x, y, sub, role, obj, S, O
  <2>5. y.subject = S /\ y.role = role /\ y.object = O /\ y.state = state
    BY <2>1, <2>2
  <2> QED
    BY <2>5 DEF KeyOf
<1>7. RuleKeys(R, n) = RightsOf(keys)
  BY <1>3, <1>6 DEF RightsOf, RuleKeys
<1>8. Setting(R, n, state)
  BY <1>4, <1>6 DEF Setting
<1>9. CASE state = "Allow"
  <2>1. SetUserRoles(policy, R) = Allowing(DOMAIN policy \cup RuleKeys(R, n))
    BY <1>8, <1>9, GrantsAdd
  <2> QED
    BY <1>7, <1>9, <2>1 DEF Changed, r, R
<1>10. CASE state = "Unset"
  <2>1. SetUserRoles(policy, R) = Allowing(DOMAIN policy \ RuleKeys(R, n))
    BY <1>8, <1>10, DropsRemove
  <2> QED
    BY <1>7, <1>10, <2>1 DEF Changed, r, R
<1> QED
  BY <1>9, <1>10

\* A rule allows or unsets.
LEMMA StatesAre ==
    ASSUME NEW n, NEW p
    PROVE  StateAt(n, p) \in {"Allow", "Unset"}
BY DEF StateAt

\* A transaction on roles changes the rights of one policy.
LEMMA SetRolesChanges ==
    ASSUME Structure, SetRoles
    PROVE  /\ Running("roles") /\ Advance /\ UNCHANGED <<contracts, amended, mem>>
           /\ access' = [access EXCEPT ![Ref(PolicyAt(step))] =
                           Changed(DOMAIN @, KeysAt(step, pc), StateAt(step, pc))]
<1>1. Running("roles") /\ Advance /\ UNCHANGED <<contracts, amended, mem>>
  BY DEF SetRoles
<1>2. /\ step \in StepSet /\ pc \in 1 .. LengthOf(step) /\ OpAt(step, pc) = "roles"
      /\ config.isolated \in BOOLEAN
  BY <1>1, RunningIs DEF Structure
<1>3. SetsRoles(Current, PolicyAt(step), KeysAt(step, pc), StateAt(step, pc))
  BY <1>2, RolesAt DEF Current
<1> DEFINE p == Ref(PolicyAt(step))
           new == SetUserRoles(access[p], Resolved(Current.rules))
           changed == Changed(DOMAIN access[p], KeysAt(step, pc), StateAt(step, pc))
<1>4. access' = [access EXCEPT ![p] = new]
  BY <1>3 DEF SetRoles, SetsRoles
<1>5. p \in Policies => new = changed
  BY <1>3, RolesResolve, StatesAre DEF Structure, AccessOK
<1> HIDE DEF p, new, changed
<1>6. access' = [access EXCEPT ![p] = changed]
  BY <1>4, <1>5 DEF Policies
<1> QED
  BY <1>1, <1>6 DEF p, changed

\* It keeps the structure.
LEMMA SetRolesKeeps ==
    ASSUME Structure, SetRoles
    PROVE  Structure'
<1>1. /\ Running("roles") /\ Advance /\ UNCHANGED <<contracts, amended, mem>>
      /\ access' = [access EXCEPT ![Ref(PolicyAt(step))] =
                      Changed(DOMAIN @, KeysAt(step, pc), StateAt(step, pc))]
  BY SetRolesChanges
<1>2. Policies' = Policies /\ OnChain' = OnChain
  BY <1>1 DEF Policies, OnChain
<1>3. Keeps /\ \A a \in OnChain : KeepsLinks(a)
  BY <1>1, <1>2 DEF Keeps, KeepsLinks
<1>4. AccessOK'
  <2>1. \A rights, keys, state : AllowsOnly(Changed(rights, keys, state))
    BY DEF AllowsOnly, Changed, Allowing
  <2> QED
    BY <1>1, <1>2, <2>1 DEF Structure, AccessOK, Policies
<1>5. ContractsOK'
  BY <1>1, <1>2 DEF Structure, ContractsOK
<1>6. amended' \subseteq OnChain
  BY <1>1 DEF Structure, AddressesOK
<1> QED
  BY <1>1, <1>2, <1>3, <1>4, <1>5, <1>6, TransactionKeeps

-----------------------------------------------------------------------------
(* Calls *)

\* A call that changes neither the policy of a contract nor what it is linked to.
Neutral(c, s) ==
    /\ c \in OnChain /\ s \in Shape(c[1], OnChain, Policies)
    /\ s.policy = contracts[c].policy /\ c[1] \notin {"commitment", "euroToken"}
    /\ c[1] = "universe" => s.singletons = contracts[c].singletons
    /\ c[1] \in Locks => s.target = contracts[c].target

\* Such a call keeps the structure.
LEMMA CallKeeps ==
    ASSUME Structure, NEW op, Running(op), op \notin {"deploy", "singletons"}, NEW c, NEW s,
           Neutral(c, s), Call(c, s)
    PROVE  Structure'
<1>1. /\ contracts' = [contracts EXCEPT ![c] = s] /\ UNCHANGED <<access, amended, mem>> /\ Advance
  BY DEF Call
<1>2. Policies' = Policies /\ OnChain' = OnChain
  BY <1>1 DEF Policies, OnChain
<1>3. Keeps /\ \A a \in OnChain : KeepsLinks(a)
  BY <1>1, <1>2 DEF Keeps, KeepsLinks, Neutral, OnChain
<1>4. AccessOK'
  BY <1>1, <1>2 DEF Structure, AccessOK
<1>5. ContractsOK'
  BY <1>1, <1>2 DEF Structure, ContractsOK, Neutral, OnChain
<1>6. amended' \subseteq OnChain
  BY <1>1 DEF Structure, AddressesOK
<1> QED
  BY <1>1, <1>2, <1>3, <1>4, <1>5, <1>6, TransactionKeeps

\* The contracts that carry a kind have its shape.
LEMMA ContractShapes ==
    ASSUME Structure, NEW c
    PROVE  /\ Is(c, "icbmEtherToken") \/ Is(c, "icbmEuroToken") =>
                contracts[c] \in TokenShape(OnChain, Policies)
           /\ Is(c, "icbmEtherLock") \/ Is(c, "icbmEuroLock") =>
                contracts[c] \in LockShape(OnChain, Policies)
           /\ Is(c, "euroTokenController") => contracts[c] \in ControllerShape(OnChain, Policies)
           /\ Is(c, "feeDisbursal") => contracts[c] \in DisbursalShape(OnChain, Policies)
           /\ Is(c, "universe") => contracts[c] \in UniverseShape(OnChain, Policies)
<1>1. c \in OnChain => contracts[c] \in Shape(c[1], OnChain, Policies)
  BY DEF Structure, ContractsOK
<1> QED
  BY <1>1 DEF Is, Shape

\* Where each kind of call is.
LEMMA CallsAt ==
    ASSUME config.isolated \in BOOLEAN, NEW n \in StepSet, NEW p \in 1 .. LengthOf(n)
    PROVE  /\ OpAt(n, p) = "collections" =>
                (n = 12 /\ p = 10) \/ (n = 13 /\ p \in {4, 5}) \/ (n = 15 /\ p = 3)
           /\ OpAt(n, p) = "setController" => n = 4 /\ p \in {2, 3}
           /\ OpAt(n, p) = "setPenaltyDisbursal" => n = 12 /\ p \in {6, 7}
           /\ OpAt(n, p) = "allowTransferFrom" => (n = 3 /\ p \in {9, 12}) \/ (n = 12 /\ p = 9)
           /\ OpAt(n, p) = "allowTransferTo" => (n = 3 /\ p \in {10, 11}) \/ (n = 12 /\ p = 8)
           /\ OpAt(n, p) = "applySettings" => (n = 11 /\ p = 2) \/ (n = 12 /\ p = 5)
           /\ OpAt(n, p) = "applyFeeSettings" => n = 11 /\ p = 4
           /\ OpAt(n, p) = "changeDepositManager" => n = 11 /\ p \in {3, 5}
           /\ OpAt(n, p) = "changeFeeDisbursalController" => n = 14 /\ p = 3
           /\ OpAt(n, p) = "amendAgreement" => n = 5 /\ ~isLiveDeployment /\ p \in {1, 2}
           /\ OpAt(n, p) = "singletons" =>
                (n = 9 /\ p = 11 + Offset) \/ (n = 12 /\ p \in {4, 12}) \/ (n = 13 /\ p = 7)
                \/ (n = 16 /\ p = 4)
<1>1. CASE n = 2
  BY <1>1 DEF OpAt, LengthOf, Offset
<1>2. CASE n = 3
  BY <1>2 DEF OpAt, LengthOf, Offset
<1>3. CASE n = 4
  BY <1>3 DEF OpAt, LengthOf, Offset
<1>4. CASE n = 5
  BY <1>4 DEF OpAt, LengthOf, Offset
<1>5. CASE n = 6
  BY <1>5 DEF OpAt, LengthOf, Offset
<1>6. CASE n = 9
  BY <1>6 DEF OpAt, LengthOf, Offset
<1>7. CASE n = 10
  BY <1>7 DEF OpAt, LengthOf, Offset
<1>8. CASE n = 11
  BY <1>8 DEF OpAt, LengthOf, Offset
<1>9. CASE n = 12
  BY <1>9 DEF OpAt, LengthOf, Offset
<1>10. CASE n = 13
  BY <1>10 DEF OpAt, LengthOf, Offset
<1>11. CASE n = 14
  BY <1>11 DEF OpAt, LengthOf, Offset
<1>12. CASE n = 15
  BY <1>12 DEF OpAt, LengthOf, Offset
<1>13. CASE n = 16
  BY <1>13 DEF OpAt, LengthOf, Offset
<1>14. CASE n = 201
  BY <1>14 DEF OpAt, LengthOf, Offset
<1> QED
  BY <1>1, <1>2, <1>3, <1>4, <1>5, <1>6, <1>7, <1>8, <1>9, <1>10, <1>11, <1>12, <1>13, <1>14 DEF StepSet

\* The commitment of a running migration 3 to 6 is the one it deployed.
LEMMA IcbmRunning ==
    ASSUME Structure, NEW op, Running(op), step \in 3 .. 6
    PROVE  /\ Commitment = mem["commitment"] /\ Is(mem["commitment"], "commitment")
           /\ mem["policy"] = IcbmState.policy /\ Is(mem["policy"], "policy")
           /\ mem["neumark"] = IcbmState.neumark /\ Is(mem["neumark"], "neumark")
           /\ mem["icbmEuroToken"] = IcbmState.euroToken /\ Is(mem["icbmEuroToken"], "icbmEuroToken")
           /\ mem["icbmEuroLock"] = IcbmState.euroLock /\ Is(mem["icbmEuroLock"], "icbmEuroLock")
           /\ Is(IcbmState.etherLock, "icbmEtherLock")
<1>1. config.commitment = Zero
  BY RunningIs DEF Structure, Skipped, ShouldSkipStep
<1>2. /\ mem["policy"] = IcbmState.policy /\ mem["neumark"] = IcbmState.neumark
      /\ mem["icbmEuroToken"] = IcbmState.euroToken /\ mem["icbmEuroLock"] = IcbmState.euroLock
  BY <1>1 DEF Structure, IcbmStage
<1>3. /\ Commitment = mem["commitment"] /\ Is(mem["commitment"], "commitment")
      /\ Is(IcbmState.policy, "policy")
      /\ \A f \in DOMAIN FieldKind : Is(IcbmState[f], FieldKind[f])
  BY IcbmInUse
<1>4. /\ Is(IcbmState.neumark, "neumark") /\ Is(IcbmState.euroToken, "icbmEuroToken")
      /\ Is(IcbmState.euroLock, "icbmEuroLock") /\ Is(IcbmState.etherLock, "icbmEtherLock")
  BY <1>3 DEF FieldKind
<1> QED
  BY <1>2, <1>3, <1>4

\* The addresses known to a running migration.
LEMMA Known ==
    ASSUME Structure
    PROVE  /\ \A k \in Kinds : mem[k] \in OnChain \cup {Zero} /\ (mem[k] # Zero => Is(mem[k], k))
           /\ step > 9 => \A name \in SingletonNames :
                            /\ SingletonOf(name) \in OnChain \cup {Zero} \cup Wallets
                            /\ SingletonOK(name, SingletonOf(name))
<1>1. \A k \in Kinds : mem[k] \in OnChain \cup {Zero} /\ (mem[k] # Zero => Is(mem[k], k))
  BY DEF Structure, ArtifactsOK, Artifacts, Addr
<1>2. ASSUME step > 9
      PROVE  \A name \in SingletonNames : /\ SingletonOf(name) \in OnChain \cup {Zero} \cup Wallets
                                          /\ SingletonOK(name, SingletonOf(name))
  <2>1. \A name \in SingletonNames : SingletonOK(name, SingletonOf(name))
    BY <1>2, UniverseIsReady, UniverseIsKnown DEF LinkedUniverse, Structure, ControlOK, StepSet
  <2> QED
    BY <2>1 DEF SingletonOK, Is
<1> QED
  BY <1>1, <1>2

\* The members the operation on collections lists or takes off.
MembersAt(n, p) ==
    CASE n = 12 -> {<<"paymentToken", SingletonOf("euroToken")>>,
                    <<"paymentToken", SingletonOf("etherToken")>>}
      [] n = 13 /\ p = 4 -> {<<"etoTermsConstraints", mem["retail_eto_li_vma"]>>,
                             <<"etoTermsConstraints", mem["hnwi_eto_de_security"]>>}
      [] n = 13 /\ p = 5 -> {<<"etoTermsConstraints", mem["hnwi_eto_de_security"]>>}
      [] n = 15 -> {<<"etoTermsConstraints", mem["retail_eto_li_security"]>>}
ListedAt(n, p) == ~(n = 13 /\ p = 5)

ResolvedMembers(members) == {<<member[1], Ref(member[2])>> : member \in members}

\* The members of each operation on collections, resolved.
LEMMA CollectionsAt ==
    ASSUME config.isolated \in BOOLEAN, step \in StepSet, pc \in 1 .. LengthOf(step),
           OpAt(step, pc) = "collections"
    PROVE  /\ {<<member[1], Ref(member[2])>> : member \in Current.members} = MembersAt(step, pc)
           /\ Current.listed = ListedAt(step, pc)
<1>1. /\ Ref(Singleton("euroToken")) = SingletonOf("euroToken")
      /\ Ref(Singleton("etherToken")) = SingletonOf("etherToken")
      /\ Ref(Deployed("retail_eto_li_vma")) = mem["retail_eto_li_vma"]
      /\ Ref(Deployed("hnwi_eto_de_security")) = mem["hnwi_eto_de_security"]
      /\ Ref(Deployed("retail_eto_li_security")) = mem["retail_eto_li_security"]
  BY References
<1> HIDE DEF ResolvedMembers
<1>2. CASE step = 12 /\ pc = 10
  <2>1. Current = SetCollections({<<"paymentToken", Singleton("euroToken")>>,
                                  <<"paymentToken", Singleton("etherToken")>>}, TRUE)
    BY <1>2, Program12Live, Program12Dev DEF Current
  <2>2. ResolvedMembers({<<"paymentToken", Singleton("euroToken")>>, <<"paymentToken", Singleton("etherToken")>>})
          = {<<"paymentToken", SingletonOf("euroToken")>>, <<"paymentToken", SingletonOf("etherToken")>>}
    BY <1>1 DEF ResolvedMembers
  <2>3. MembersAt(12, 10) = {<<"paymentToken", SingletonOf("euroToken")>>,
                             <<"paymentToken", SingletonOf("etherToken")>>}
        /\ ListedAt(12, 10)
    BY DEF MembersAt, ListedAt
  <2>4. ResolvedMembers(Current.members) = MembersAt(12, 10) /\ Current.listed = ListedAt(12, 10)
    BY <2>1, <2>2, <2>3 DEF SetCollections
  <2> QED
    BY <1>2, <2>4 DEF ResolvedMembers
<1>3. CASE step = 13 /\ pc = 4
  <2>1. Current = ListFirst
    BY <1>3, Program13Live, Program13Dev DEF Current
  <2>2. ResolvedMembers({Constraint("retail_eto_li_vma"), Constraint("hnwi_eto_de_security")})
          = {<<"etoTermsConstraints", mem["retail_eto_li_vma"]>>,
             <<"etoTermsConstraints", mem["hnwi_eto_de_security"]>>}
    BY <1>1 DEF ResolvedMembers, Constraint
  <2>3. MembersAt(13, 4) = {<<"etoTermsConstraints", mem["retail_eto_li_vma"]>>,
                            <<"etoTermsConstraints", mem["hnwi_eto_de_security"]>>}
        /\ ListedAt(13, 4)
    BY DEF MembersAt, ListedAt
  <2>4. ResolvedMembers(Current.members) = MembersAt(13, 4) /\ Current.listed = ListedAt(13, 4)
    BY <2>1, <2>2, <2>3 DEF SetCollections, ListFirst
  <2> QED
    BY <1>3, <2>4 DEF ResolvedMembers
<1>4. CASE step = 13 /\ pc = 5
  <2>1. isLiveDeployment
    BY <1>4 DEF LengthOf
  <2>2. Current = DelistFirst
    BY <1>4, <2>1, Program13Live DEF Current
  <2>3. ResolvedMembers({Constraint("hnwi_eto_de_security")})
          = {<<"etoTermsConstraints", mem["hnwi_eto_de_security"]>>}
    BY <1>1 DEF ResolvedMembers, Constraint
  <2>4. /\ MembersAt(13, 5) = {<<"etoTermsConstraints", mem["hnwi_eto_de_security"]>>}
        /\ ListedAt(13, 5) = FALSE
    BY DEF MembersAt, ListedAt
  <2>5. ResolvedMembers(Current.members) = MembersAt(13, 5) /\ Current.listed = ListedAt(13, 5)
    BY <2>2, <2>3, <2>4 DEF SetCollections, DelistFirst
  <2> QED
    BY <1>4, <2>5 DEF ResolvedMembers
<1>5. CASE step = 15 /\ pc = 3
  <2>1. Current = ListSecond
    BY <1>5, Program15 DEF Current
  <2>2. ResolvedMembers({Constraint("retail_eto_li_security")})
          = {<<"etoTermsConstraints", mem["retail_eto_li_security"]>>}
    BY <1>1 DEF ResolvedMembers, Constraint
  <2>3. /\ MembersAt(15, 3) = {<<"etoTermsConstraints", mem["retail_eto_li_security"]>>}
        /\ ListedAt(15, 3)
    BY DEF MembersAt, ListedAt
  <2>4. ResolvedMembers(Current.members) = MembersAt(15, 3) /\ Current.listed = ListedAt(15, 3)
    BY <2>1, <2>2, <2>3 DEF SetCollections, ListSecond
  <2> QED
    BY <1>5, <2>4 DEF ResolvedMembers
<1> QED
  BY <1>2, <1>3, <1>4, <1>5, CallsAt

\* What a transaction on collections does to the universe.
LEMMA CollectionsCalled ==
    ASSUME Structure, SetCollectionsInterfaces
    PROVE  /\ Running("collections") /\ step > 9
           /\ Call(mem["universe"],
                   [UniverseState EXCEPT !.collections = IF ListedAt(step, pc) THEN @ \cup MembersAt(step, pc)
                                                         ELSE @ \ MembersAt(step, pc)])
<1>1. Running("collections")
  BY DEF SetCollectionsInterfaces
<1>2. /\ step \in StepSet /\ pc \in 1 .. LengthOf(step) /\ OpAt(step, pc) = "collections"
      /\ config.isolated \in BOOLEAN
  BY <1>1, RunningIs DEF Structure
<1>3. /\ {<<member[1], Ref(member[2])>> : member \in Current.members} = MembersAt(step, pc)
      /\ Current.listed = ListedAt(step, pc)
  BY <1>2, CollectionsAt
<1>4. step > 9
  BY <1>2, CallsAt
<1>5. UniverseInUse = mem["universe"]
  BY <1>4, UniverseIsReady, UniverseIsKnown DEF Structure, ControlOK, StepSet
<1> QED
  BY <1>1, <1>3, <1>4, <1>5 DEF SetCollectionsInterfaces, UniverseState

\* It keeps the structure.
LEMMA CollectionsKeep ==
    ASSUME Structure, SetCollectionsInterfaces
    PROVE  Structure'
<1> DEFINE S == MembersAt(step, pc)
           s == [UniverseState EXCEPT !.collections = IF ListedAt(step, pc) THEN @ \cup S ELSE @ \ S]
<1>1. Running("collections") /\ step > 9 /\ Call(mem["universe"], s)
  BY CollectionsCalled
<1>2. /\ step \in StepSet /\ pc \in 1 .. LengthOf(step) /\ OpAt(step, pc) = "collections"
      /\ config.isolated \in BOOLEAN
  BY <1>1, RunningIs DEF Structure
<1>3. S \in SUBSET (Interfaces \X (OnChain \cup {Zero}))
  <2>1. SingletonOf("euroToken") \in OnChain \cup {Zero} /\ SingletonOf("etherToken") \in OnChain \cup {Zero}
    BY <1>1, Known, NamesKnown DEF SingletonOK, Is
  <2>2. /\ mem["retail_eto_li_vma"] \in OnChain \cup {Zero}
        /\ mem["hnwi_eto_de_security"] \in OnChain \cup {Zero}
        /\ mem["retail_eto_li_security"] \in OnChain \cup {Zero}
    BY Known, KindsAre
  <2> QED
    BY <1>2, <2>1, <2>2, CallsAt DEF MembersAt, Interfaces
<1>4. Is(mem["universe"], "universe") /\ UniverseState \in UniverseShape(OnChain, Policies)
  BY <1>1, <1>2, UniverseIsReady, UniverseIsKnown DEF StepSet
<1>5. /\ s \in UniverseShape(OnChain, Policies) /\ s.policy = UniverseState.policy
      /\ s.singletons = UniverseState.singletons
  <2> HIDE DEF S
  <2>1. CASE ListedAt(step, pc)
    <3>1. s = [UniverseState EXCEPT !.collections = @ \cup S]
      BY <2>1
    <3> HIDE DEF s
    <3> QED
      BY <1>3, <1>4, <3>1 DEF UniverseShape
  <2>2. CASE ~ListedAt(step, pc)
    <3>1. s = [UniverseState EXCEPT !.collections = @ \ S]
      BY <2>2
    <3> HIDE DEF s
    <3> QED
      BY <1>3, <1>4, <3>1 DEF UniverseShape
  <2> QED
    BY <2>1, <2>2
<1> HIDE DEF S, s
<1>6. Neutral(mem["universe"], s)
  BY <1>4, <1>5 DEF Neutral, Is, Shape, Locks, UniverseState
<1> QED
  BY <1>1, <1>6, CallKeeps

\* The calls on the contracts of the ICBM: which contract, and with whom.
AttachedLock == IF pc = 2 THEN IcbmState.euroLock ELSE IcbmState.etherLock
PenaltyLock == IF pc = 6 THEN IcbmState.euroLock ELSE IcbmState.etherLock
AllowedFrom == IF step = 12 THEN mem["feeDisbursal"]
               ELSE IF pc = 9 THEN mem["commitment"] ELSE mem["icbmEuroLock"]
AllowedTo == IF step = 12 THEN mem["feeDisbursal"]
             ELSE IF pc = 10 THEN mem["commitment"] ELSE mem["icbmEuroLock"]

\* The old locks and the old euro token the universe registers are those of the commitment.
LEMMA IcbmRegistered ==
    ASSUME Structure, step > 9
    PROVE  /\ SingletonOf("icbmEuroLock") = IcbmState.euroLock
           /\ SingletonOf("icbmEtherLock") = IcbmState.etherLock
           /\ SingletonOf("icbmEuroToken") = IcbmState.euroToken
           /\ Is(IcbmState.euroLock, "icbmEuroLock") /\ Is(IcbmState.etherLock, "icbmEtherLock")
           /\ Is(IcbmState.euroToken, "icbmEuroToken")
<1>1. \A name \in DOMAIN FieldOf : /\ SingletonOf(name) = IcbmState[FieldOf[name]]
                                   /\ Is(SingletonOf(name), name)
  BY UniverseIsReady
<1> QED
  BY <1>1 DEF FieldOf

\* A lock gets its controller in migration 4.
LEMMA ControllerCalled ==
    ASSUME Structure, SetController
    PROVE  /\ Running("setController") /\ step = 4 /\ pc \in {2, 3}
           /\ Is(AttachedLock, "icbmEuroLock") \/ Is(AttachedLock, "icbmEtherLock")
           /\ Call(AttachedLock, [contracts[AttachedLock] EXCEPT !.controller = mem["commitment"]])
<1>1. Running("setController")
  BY DEF SetController
<1>2. step = 4 /\ pc \in {2, 3}
  BY <1>1, RunningIs, CallsAt DEF Structure
<1>3. /\ Commitment = mem["commitment"] /\ Is(IcbmState.euroLock, "icbmEuroLock")
      /\ Is(IcbmState.etherLock, "icbmEtherLock")
  BY <1>2, IcbmInUse DEF FieldKind
<1>4. Ref(Icbm("euroLock")) = IcbmState.euroLock /\ Ref(Icbm("etherLock")) = IcbmState.etherLock
  BY <1>3, References DEF IcbmState
<1>5. Ref(Current.lock) = AttachedLock
  BY <1>2, <1>4, Program4 DEF Current, Attach, AttachedLock
<1> QED
  BY <1>1, <1>2, <1>3, <1>5 DEF SetController, AttachedLock

\* This keeps the structure.
LEMMA ControllerKeeps ==
    ASSUME Structure, SetController
    PROVE  Structure'
<1> DEFINE c == AttachedLock
           s == [contracts[c] EXCEPT !.controller = mem["commitment"]]
<1>1. /\ Running("setController") /\ Call(c, s) /\ step = 4
      /\ Is(c, "icbmEuroLock") \/ Is(c, "icbmEtherLock")
  BY ControllerCalled
<1>2. mem["commitment"] \in OnChain \cup {Zero}
  BY Known, KindsAre
<1> HIDE DEF c
<1>3. contracts[c] \in LockShape(OnChain, Policies)
  BY <1>1, ContractShapes
<1>4. /\ s \in LockShape(OnChain, Policies) /\ s.policy = contracts[c].policy
      /\ s.target = contracts[c].target
  BY <1>2, <1>3 DEF LockShape
<1> HIDE DEF s
<1>5. Neutral(c, s)
  BY <1>1, <1>4 DEF Neutral, Is, Shape
<1> QED
  BY <1>1, <1>5, CallKeeps

\* A lock pays its penalties to the new fee disbursal in migration 12.
LEMMA PenaltyCalled ==
    ASSUME Structure, SetPenaltyDisbursal
    PROVE  /\ Running("setPenaltyDisbursal") /\ step = 12 /\ pc \in {6, 7}
           /\ Is(PenaltyLock, "icbmEuroLock") \/ Is(PenaltyLock, "icbmEtherLock")
           /\ Call(PenaltyLock, [contracts[PenaltyLock] EXCEPT !.penaltyDisbursal = mem["feeDisbursal"]])
<1>1. Running("setPenaltyDisbursal")
  BY DEF SetPenaltyDisbursal
<1>2. step = 12 /\ pc \in {6, 7}
  BY <1>1, RunningIs, CallsAt DEF Structure
<1>3. /\ SingletonOf("icbmEuroLock") = IcbmState.euroLock
      /\ SingletonOf("icbmEtherLock") = IcbmState.etherLock
      /\ Is(IcbmState.euroLock, "icbmEuroLock") /\ Is(IcbmState.etherLock, "icbmEtherLock")
  BY <1>2, IcbmRegistered
<1>4. /\ Ref(Singleton("icbmEuroLock")) = IcbmState.euroLock
      /\ Ref(Singleton("icbmEtherLock")) = IcbmState.etherLock
  BY <1>3, References
<1>5. /\ Migration(12)[6] = Penalty(Singleton("icbmEuroLock"))
      /\ Migration(12)[7] = Penalty(Singleton("icbmEtherLock"))
  BY Program12Live, Program12Dev
<1>6. Ref(Current.lock) = PenaltyLock
  BY <1>2, <1>4, <1>5 DEF Current, Penalty, PenaltyLock
<1> QED
  BY <1>1, <1>2, <1>3, <1>6 DEF SetPenaltyDisbursal, PenaltyLock

\* This keeps the structure.
LEMMA PenaltyKeeps ==
    ASSUME Structure, SetPenaltyDisbursal
    PROVE  Structure'
<1> DEFINE c == PenaltyLock
           s == [contracts[c] EXCEPT !.penaltyDisbursal = mem["feeDisbursal"]]
<1>1. /\ Running("setPenaltyDisbursal") /\ Call(c, s)
      /\ Is(c, "icbmEuroLock") \/ Is(c, "icbmEtherLock")
  BY PenaltyCalled
<1>2. mem["feeDisbursal"] \in OnChain \cup {Zero}
  BY Known, KindsAre
<1> HIDE DEF c
<1>3. contracts[c] \in LockShape(OnChain, Policies)
  BY <1>1, ContractShapes
<1>4. /\ s \in LockShape(OnChain, Policies) /\ s.policy = contracts[c].policy
      /\ s.target = contracts[c].target
  BY <1>2, <1>3 DEF LockShape
<1> HIDE DEF s
<1>5. Neutral(c, s)
  BY <1>1, <1>4 DEF Neutral, Is, Shape
<1> QED
  BY <1>1, <1>5, CallKeeps

\* The fee disbursal is deployed where migration 12 refers to it.
LEMMA DisbursalDeployed ==
    ASSUME Structure, step = 12, pc > 2
    PROVE  Is(mem["feeDisbursal"], "feeDisbursal")
<1>1. Place("feeDisbursal") = 2 /\ ~Skipped /\ pc \in Nat
  BY DEF Place, Skipped, ShouldSkipStep, Structure, ControlOK, LengthOf
<1>2. mem["feeDisbursal"] # Zero
  BY <1>1, KindsAre DEF Structure, MemOK, DeployedBefore
<1> QED
  BY <1>2, Known, KindsAre

\* The old euro token is opened in migrations 3 and 12, for sending
LEMMA AllowFromCalled ==
    ASSUME Structure, SetAllowedTransferFrom
    PROVE  /\ Running("allowTransferFrom")
           /\ (step = 3 /\ pc \in {9, 12}) \/ (step = 12 /\ pc = 9)
           /\ Is(IcbmState.euroToken, "icbmEuroToken") /\ AllowedFrom \in OnChain
           /\ Call(IcbmState.euroToken, [contracts[IcbmState.euroToken] EXCEPT !.from = @ \cup {AllowedFrom}])
<1>1. Running("allowTransferFrom")
  BY DEF SetAllowedTransferFrom
<1>2. (step = 3 /\ pc \in {9, 12}) \/ (step = 12 /\ pc = 9)
  BY <1>1, RunningIs, CallsAt DEF Structure
<1>3. CASE step = 3
  <2>1. /\ Is(mem["commitment"], "commitment") /\ mem["icbmEuroToken"] = IcbmState.euroToken
        /\ Is(mem["icbmEuroLock"], "icbmEuroLock") /\ Is(IcbmState.euroToken, "icbmEuroToken")
    BY <1>1, <1>3, IcbmRunning
  <2>2. Ref(Current.token) = IcbmState.euroToken /\ Ref(Current.who) = AllowedFrom
    BY <1>2, <1>3, <2>1, Program3, References DEF Current, AllowFrom, AllowedFrom
  <2> QED
    BY <1>1, <1>2, <1>3, <2>1, <2>2 DEF SetAllowedTransferFrom, AllowedFrom, Is
<1>4. CASE step = 12
  <2>1. /\ SingletonOf("icbmEuroToken") = IcbmState.euroToken /\ Is(IcbmState.euroToken, "icbmEuroToken")
        /\ Is(mem["feeDisbursal"], "feeDisbursal")
    BY <1>2, <1>4, IcbmRegistered, DisbursalDeployed
  <2>2. Migration(12)[9] = AllowFrom(Singleton("icbmEuroToken"), Deployed("feeDisbursal"))
    BY Program12Live, Program12Dev
  <2>3. Ref(Current.token) = IcbmState.euroToken /\ Ref(Current.who) = AllowedFrom
    BY <1>2, <1>4, <2>1, <2>2, References DEF Current, AllowFrom, AllowedFrom
  <2> QED
    BY <1>1, <1>2, <1>4, <2>1, <2>3 DEF SetAllowedTransferFrom, AllowedFrom, Is
<1> QED
  BY <1>2, <1>3, <1>4

\* and for receiving.
LEMMA AllowToCalled ==
    ASSUME Structure, SetAllowedTransferTo
    PROVE  /\ Running("allowTransferTo")
           /\ (step = 3 /\ pc \in {10, 11}) \/ (step = 12 /\ pc = 8)
           /\ Is(IcbmState.euroToken, "icbmEuroToken") /\ AllowedTo \in OnChain
           /\ Call(IcbmState.euroToken, [contracts[IcbmState.euroToken] EXCEPT !.to = @ \cup {AllowedTo}])
<1>1. Running("allowTransferTo")
  BY DEF SetAllowedTransferTo
<1>2. (step = 3 /\ pc \in {10, 11}) \/ (step = 12 /\ pc = 8)
  BY <1>1, RunningIs, CallsAt DEF Structure
<1>3. CASE step = 3
  <2>1. /\ Is(mem["commitment"], "commitment") /\ mem["icbmEuroToken"] = IcbmState.euroToken
        /\ Is(mem["icbmEuroLock"], "icbmEuroLock") /\ Is(IcbmState.euroToken, "icbmEuroToken")
    BY <1>1, <1>3, IcbmRunning
  <2>2. Ref(Current.token) = IcbmState.euroToken /\ Ref(Current.who) = AllowedTo
    BY <1>2, <1>3, <2>1, Program3, References DEF Current, AllowTo, AllowedTo
  <2> QED
    BY <1>1, <1>2, <1>3, <2>1, <2>2 DEF SetAllowedTransferTo, AllowedTo, Is
<1>4. CASE step = 12
  <2>1. /\ SingletonOf("icbmEuroToken") = IcbmState.euroToken /\ Is(IcbmState.euroToken, "icbmEuroToken")
        /\ Is(mem["feeDisbursal"], "feeDisbursal")
    BY <1>2, <1>4, IcbmRegistered, DisbursalDeployed
  <2>2. Migration(12)[8] = AllowTo(Singleton("icbmEuroToken"), Deployed("feeDisbursal"))
    BY Program12Live, Program12Dev
  <2>3. Ref(Current.token) = IcbmState.euroToken /\ Ref(Current.who) = AllowedTo
    BY <1>2, <1>4, <2>1, <2>2, References DEF Current, AllowTo, AllowedTo
  <2> QED
    BY <1>1, <1>2, <1>4, <2>1, <2>3 DEF SetAllowedTransferTo, AllowedTo, Is
<1> QED
  BY <1>2, <1>3, <1>4

\* Both keep the structure.
LEMMA AllowFromKeeps ==
    ASSUME Structure, SetAllowedTransferFrom
    PROVE  Structure'
<1> DEFINE c == IcbmState.euroToken
           w == AllowedFrom
           s == [contracts[c] EXCEPT !.from = @ \cup {w}]
<1>1. Running("allowTransferFrom") /\ Call(c, s) /\ Is(c, "icbmEuroToken") /\ w \in OnChain
  BY AllowFromCalled
<1> HIDE DEF c, w
<1>2. contracts[c] \in TokenShape(OnChain, Policies)
  BY <1>1, ContractShapes
<1>3. s \in TokenShape(OnChain, Policies) /\ s.policy = contracts[c].policy
  BY <1>1, <1>2 DEF TokenShape
<1> HIDE DEF s
<1>4. Neutral(c, s)
  BY <1>1, <1>3 DEF Neutral, Is, Shape, Locks
<1> QED
  BY <1>1, <1>4, CallKeeps

\* So does the other.
LEMMA AllowToKeeps ==
    ASSUME Structure, SetAllowedTransferTo
    PROVE  Structure'
<1> DEFINE c == IcbmState.euroToken
           w == AllowedTo
           s == [contracts[c] EXCEPT !.to = @ \cup {w}]
<1>1. Running("allowTransferTo") /\ Call(c, s) /\ Is(c, "icbmEuroToken") /\ w \in OnChain
  BY AllowToCalled
<1> HIDE DEF c, w
<1>2. contracts[c] \in TokenShape(OnChain, Policies)
  BY <1>1, ContractShapes
<1>3. s \in TokenShape(OnChain, Policies) /\ s.policy = contracts[c].policy
  BY <1>1, <1>2 DEF TokenShape
<1> HIDE DEF s
<1>4. Neutral(c, s)
  BY <1>1, <1>3 DEF Neutral, Is, Shape, Locks
<1> QED
  BY <1>1, <1>4, CallKeeps

-----------------------------------------------------------------------------
(* The calls on the contracts of the platform *)

\* The contracts of the universe that may move the euro token.
KnownMovers == {SingletonOf(name) : name \in {"euroLock", "feeDisbursal", "gasExchange"}}

\* The settings let contracts of the universe move the euro token.
LEMMA SettingsCalled ==
    ASSUME Structure, ApplySettings
    PROVE  /\ Running("applySettings")
           /\ (step = 11 /\ pc = 2) \/ (step = 12 /\ pc = 5)
           /\ Is(TokenController, "euroTokenController")
           /\ KnownMovers \subseteq OnChain \cup {Zero} \cup Wallets
           /\ Call(TokenController, [contracts[TokenController] EXCEPT
                     !.from = @ \cup KnownMovers, !.to = @ \cup KnownMovers])
<1>1. Running("applySettings")
  BY DEF ApplySettings
<1>2. (step = 11 /\ pc = 2) \/ (step = 12 /\ pc = 5)
  BY <1>1, RunningIs, CallsAt DEF Structure
<1>3. Is(TokenController, "euroTokenController")
  BY <1>2, UniverseIsReady
<1>4. KnownMovers \subseteq OnChain \cup {Zero} \cup Wallets
  BY <1>2, Known, NamesKnown DEF KnownMovers
<1> QED
  BY <1>1, <1>2, <1>3, <1>4 DEF ApplySettings, KnownMovers

\* They keep the structure.
LEMMA SettingsKeep ==
    ASSUME Structure, ApplySettings
    PROVE  Structure'
<1> DEFINE c == TokenController
           S == KnownMovers
           s == [contracts[c] EXCEPT !.from = @ \cup S, !.to = @ \cup S]
<1>1. /\ Running("applySettings") /\ Call(c, s) /\ Is(c, "euroTokenController")
      /\ S \subseteq OnChain \cup {Zero} \cup Wallets
  BY SettingsCalled
<1> HIDE DEF c, S
<1>2. contracts[c] \in ControllerShape(OnChain, Policies)
  BY <1>1, ContractShapes
<1>3. s \in ControllerShape(OnChain, Policies) /\ s.policy = contracts[c].policy
  BY <1>1, <1>2 DEF ControllerShape
<1> HIDE DEF s
<1>4. Neutral(c, s)
  BY <1>1, <1>3 DEF Neutral, Is, Shape, Locks
<1> QED
  BY <1>1, <1>4, CallKeeps

\* So do the fee settings.
LEMMA FeeSettingsKeep ==
    ASSUME Structure, ApplyFeeSettings
    PROVE  Structure'
<1>1. Running("applyFeeSettings") /\ Call(TokenController, contracts[TokenController])
  BY DEF ApplyFeeSettings
<1>2. step = 11
  BY <1>1, RunningIs, CallsAt DEF Structure
<1>3. Is(TokenController, "euroTokenController")
  BY <1>2, UniverseIsReady
<1>4. Neutral(TokenController, contracts[TokenController])
  BY <1>3 DEF Neutral, Is, Locks, Structure, ContractsOK
<1> QED
  BY <1>1, <1>4, CallKeeps

\* The deposit manager is the deployer while he sets the fees, then the configured one.
ManagerSet == IF pc = 3 THEN DEPLOYER ELSE Addresses("EURT_DEPOSIT_MANAGER")

\* The deposit manager is never the deployer, the wallet may be.
LEMMA ManagerIs ==
    /\ Addresses("EURT_DEPOSIT_MANAGER") = Account("EURT_DEPOSIT_MANAGER")
    /\ Addresses("PLATFORM_OPERATOR_WALLET") \in {Account("PLATFORM_OPERATOR_WALLET"), DEPLOYER}
BY DEF Addresses, OverriddenOnDev, DeployerWhenIsolated

\* The deposit manager is changed twice in migration 11.
LEMMA ManagerCalled ==
    ASSUME Structure, ChangeDepositManager
    PROVE  /\ Running("changeDepositManager") /\ step = 11 /\ pc \in {3, 5}
           /\ Is(TokenController, "euroTokenController")
           /\ Call(TokenController, [contracts[TokenController] EXCEPT !.depositManager = ManagerSet])
<1>1. Running("changeDepositManager")
  BY DEF ChangeDepositManager
<1>2. step = 11 /\ pc \in {3, 5}
  BY <1>1, RunningIs, CallsAt DEF Structure
<1>3. Is(TokenController, "euroTokenController")
  BY <1>2, UniverseIsReady
<1>4. Ref(Current.who) = ManagerSet
  BY <1>2, Program11, References DEF Current, DepositManager, ManagerSet
<1> QED
  BY <1>1, <1>2, <1>3, <1>4 DEF ChangeDepositManager

\* This keeps the structure.
LEMMA ManagerKeeps ==
    ASSUME Structure, ChangeDepositManager
    PROVE  Structure'
<1> DEFINE c == TokenController
           w == ManagerSet
           s == [contracts[c] EXCEPT !.depositManager = w]
<1>1. Running("changeDepositManager") /\ Call(c, s) /\ Is(c, "euroTokenController")
  BY ManagerCalled
<1>2. w \in {DEPLOYER, Account("EURT_DEPOSIT_MANAGER")}
  BY ManagerIs DEF ManagerSet
<1> HIDE DEF c, w
<1>3. contracts[c] \in ControllerShape(OnChain, Policies)
  BY <1>1, ContractShapes
<1>4. s \in ControllerShape(OnChain, Policies) /\ s.policy = contracts[c].policy
  BY <1>2, <1>3 DEF ControllerShape
<1> HIDE DEF s
<1>5. Neutral(c, s)
  BY <1>1, <1>4 DEF Neutral, Is, Shape, Locks
<1> QED
  BY <1>1, <1>5, CallKeeps

\* From the first transactions of migration 12 on the universe has a fee disbursal.
LEMMA DisbursalInUse ==
    ASSUME Structure, step > 12 \/ (step = 12 /\ pc > 4)
    PROVE  /\ Is(SingletonOf("feeDisbursal"), "feeDisbursal")
           /\ contracts[SingletonOf("feeDisbursal")].policy = UniverseState.policy
<1>1. step > 9 /\ step >= 9
  BY DEF Structure, ControlOK, StepSet
<1>2. /\ SingletonOf("feeDisbursal") = UniverseState.singletons["feeDisbursal"]
      /\ LinkedUniverse(UniverseState)
  BY <1>1, UniverseIsReady, UniverseIsKnown
<1>3. SingletonOf("feeDisbursal") \in OnChain /\ UniverseState.singletons["feeDisbursal"] \in OnChain
  BY <1>2 DEF Structure, ReadyStage
<1>4. SingletonOK("feeDisbursal", SingletonOf("feeDisbursal")) /\ KindOf("feeDisbursal") = "feeDisbursal"
  BY <1>1, Known, NamesKnown DEF UnderPolicy
<1>5. SingletonOf("feeDisbursal") # Zero /\ SingletonOf("feeDisbursal") \notin Wallets
  BY <1>3, NotContracts DEF Structure, AddressesOK
<1> QED
  BY <1>2, <1>3, <1>4, <1>5 DEF SingletonOK, LinkedUniverse, UnderPolicy

\* The fee disbursal gets a new controller in migration 14.
LEMMA DisbursalCalled ==
    ASSUME Structure, ChangeFeeDisbursalController
    PROVE  /\ Running("changeFeeDisbursalController") /\ step = 14
           /\ Is(SingletonOf("feeDisbursal"), "feeDisbursal")
           /\ Call(SingletonOf("feeDisbursal"), [contracts[SingletonOf("feeDisbursal")] EXCEPT
                     !.controller = mem["feeDisbursalController"]])
<1>1. Running("changeFeeDisbursalController")
  BY DEF ChangeFeeDisbursalController
<1>2. step = 14
  BY <1>1, RunningIs, CallsAt DEF Structure
<1>3. Is(SingletonOf("feeDisbursal"), "feeDisbursal")
  BY <1>2, DisbursalInUse
<1> QED
  BY <1>1, <1>2, <1>3 DEF ChangeFeeDisbursalController

\* This keeps the structure.
LEMMA DisbursalKeeps ==
    ASSUME Structure, ChangeFeeDisbursalController
    PROVE  Structure'
<1> DEFINE c == SingletonOf("feeDisbursal")
           s == [contracts[c] EXCEPT !.controller = mem["feeDisbursalController"]]
<1>1. Running("changeFeeDisbursalController") /\ Call(c, s) /\ Is(c, "feeDisbursal")
  BY DisbursalCalled
<1>2. mem["feeDisbursalController"] \in OnChain \cup {Zero}
  BY Known, KindsAre
<1> HIDE DEF c
<1>3. contracts[c] \in DisbursalShape(OnChain, Policies)
  BY <1>1, ContractShapes
<1>4. s \in DisbursalShape(OnChain, Policies) /\ s.policy = contracts[c].policy
  BY <1>2, <1>3 DEF DisbursalShape
<1> HIDE DEF s
<1>5. Neutral(c, s)
  BY <1>1, <1>4 DEF Neutral, Is, Shape, Locks
<1> QED
  BY <1>1, <1>5, CallKeeps

\* So does attaching an agreement.
LEMMA AmendKeeps ==
    ASSUME Structure, AmendAgreement
    PROVE  Structure'
<1>1. /\ Running("amendAgreement") /\ Advance /\ UNCHANGED <<contracts, access, mem>>
      /\ amended' = amended \cup {Ref(Current.contract)}
  BY DEF AmendAgreement
<1>2. step = 5 /\ ~isLiveDeployment /\ pc \in {1, 2}
  BY <1>1, RunningIs, CallsAt DEF Structure
<1>3. Ref(Current.contract) \in {mem["neumark"], mem["commitment"]}
  BY <1>2, Program5Dev, References DEF Current, Amend
<1>4. mem["neumark"] \in OnChain /\ mem["commitment"] \in OnChain
  BY <1>1, <1>2, IcbmRunning DEF Is
<1>5. amended' \subseteq OnChain
  BY <1>1, <1>3, <1>4 DEF Structure, AddressesOK
<1>6. /\ OnChain' = OnChain /\ Policies' = Policies /\ Keeps /\ ContractsOK' /\ AccessOK'
      /\ \A a \in OnChain : KeepsLinks(a)
  BY <1>1 DEF OnChain, Policies, Keeps, KeepsLinks, Structure, ContractsOK, AccessOK
<1> QED
  BY <1>1, <1>5, <1>6, TransactionKeeps

-----------------------------------------------------------------------------
(* What is registered as singletons of the universe *)

RegisteredNames ==
    CASE step = 9 -> SingletonNames \ {"votingCenter"}
      [] step = 12 /\ pc = 4 -> {"feeDisbursal"}
      [] step = 16 -> {"votingCenter"}
      [] OTHER -> {"platformTerms"}
RegisteredAs(name) ==
    CASE name \in DOMAIN FieldOf -> IcbmState[FieldOf[name]]
      [] name = "icbmCommitment" -> mem["commitment"]
      [] name = "tokenExchangeRateOracle" -> mem["gasExchange"]
      [] step = 9 /\ name \in {"feeDisbursal", "platformPortfolio"} ->
           Addresses("PLATFORM_OPERATOR_WALLET")
      [] OTHER -> mem[name]
NewSingletons ==
    [name \in SingletonNames |-> IF name \in RegisteredNames THEN RegisteredAs(name)
                                 ELSE UniverseState.singletons[name]]

\* The entries of each of the operations, resolved.
LEMMA EntriesAt ==
    ASSUME config.isolated \in BOOLEAN, step \in StepSet, pc \in 1 .. LengthOf(step),
           OpAt(step, pc) = "singletons", Commitment = mem["commitment"]
    PROVE  /\ DOMAIN Current.entries = RegisteredNames
           /\ \A name \in RegisteredNames : Ref(Current.entries[name]) = RegisteredAs(name)
<1> USE References
<1>2. CASE step = 9
  <2>1. Current = SetSingletons(PlatformSingletons)
    <3>1. pc = 11 + Offset
      BY <1>2, CallsAt
    <3> QED
      BY <1>2, <3>1, Program9Shared, Program9Isolated DEF Current, Offset
  <2>2. Current.entries = PlatformSingletons
    BY <2>1, OperationNames
  <2>3. DOMAIN PlatformSingletons = RegisteredNames
    BY <1>2 DEF RegisteredNames, SingletonNames, PlatformSingletons
  <2>4. \A name \in DOMAIN PlatformSingletons : Ref(PlatformSingletons[name]) = RegisteredAs(name)
    BY <1>2 DEF PlatformSingletons, RegisteredAs, FieldOf, IcbmState
  <2> QED
    BY <2>2, <2>3, <2>4
<1>3. CASE step = 12 /\ pc = 4
  <2>1. Current = SetSingletons([feeDisbursal |-> Deployed("feeDisbursal")])
    BY <1>3, Program12Live, Program12Dev DEF Current
  <2> QED
    BY <1>3, <2>1, OperationNames DEF RegisteredNames, RegisteredAs, FieldOf
<1>4. CASE (step = 12 /\ pc = 12) \/ (step = 13 /\ pc = 7)
  <2>1. Current = SetSingletons([platformTerms |-> Deployed("platformTerms")])
    <3>1. isLiveDeployment
      BY <1>4 DEF LengthOf
    <3> QED
      BY <1>4, <3>1, Program12Live, Program13Live DEF Current
  <2> QED
    BY <1>4, <2>1, OperationNames DEF RegisteredNames, RegisteredAs, FieldOf
<1>5. CASE step = 16 /\ pc = 4
  <2>1. Current = SetSingletons([votingCenter |-> Deployed("votingCenter")])
    BY <1>5, Program16 DEF Current
  <2> QED
    BY <1>5, <2>1, OperationNames DEF RegisteredNames, RegisteredAs, FieldOf
<1> QED
  BY <1>2, <1>3, <1>4, <1>5, CallsAt

\* Where the universe gets new singletons, and which.
LEMMA SingletonsCalled ==
    ASSUME Structure, SetManySingletons
    PROVE  /\ Running("singletons") /\ Is(mem["universe"], "universe")
           /\ \/ step = 9 /\ pc = 11 + Offset
              \/ step = 12 /\ pc \in {4, 12}
              \/ step = 13 /\ pc = 7
              \/ step = 16 /\ pc = 4
           /\ UniverseState \in UniverseShape(OnChain, Policies)
           /\ Call(mem["universe"], [UniverseState EXCEPT !.singletons = NewSingletons])
<1>1. Running("singletons")
  BY DEF SetManySingletons
<1>2. /\ step \in StepSet /\ pc \in 1 .. LengthOf(step) /\ OpAt(step, pc) = "singletons"
      /\ config.isolated \in BOOLEAN /\ ~Skipped
  BY <1>1, RunningIs DEF Structure
<1>3. \/ step = 9 /\ pc = 11 + Offset
      \/ step = 12 /\ pc \in {4, 12}
      \/ step = 13 /\ pc = 7
      \/ step = 16 /\ pc = 4
  BY <1>2, CallsAt
<1>4. mem["universe"] # Zero
  <2>1. CASE step = 9
    BY <1>2, <1>3, <2>1, KindsAre DEF Structure, MemOK, DeployedBefore, Place, Offset
  <2>2. CASE step # 9
    BY <1>3, <2>2, UniverseIsReady
  <2> QED
    BY <2>1, <2>2
<1>5. /\ UniverseInUse = mem["universe"] /\ Is(mem["universe"], "universe")
      /\ UniverseState \in UniverseShape(OnChain, Policies)
  BY <1>3, <1>4, UniverseIsKnown
<1>6. Commitment = mem["commitment"]
  BY <1>3, IcbmInUse
<1> DEFINE entries == Current.entries
           old == UniverseState.singletons
<1>7. /\ DOMAIN entries = RegisteredNames
      /\ \A name \in RegisteredNames : Ref(entries[name]) = RegisteredAs(name)
  BY <1>2, <1>6, EntriesAt
<1>8. [name \in SingletonNames |-> IF name \in DOMAIN entries THEN Ref(entries[name]) ELSE old[name]]
        = NewSingletons
  <2> HIDE DEF entries
  <2> QED
    BY <1>7 DEF NewSingletons
<1>9. Call(UniverseInUse,
           [contracts[UniverseInUse] EXCEPT !.singletons =
              [name \in SingletonNames |-> IF name \in DOMAIN entries THEN Ref(entries[name]) ELSE @[name]]])
  BY DEF SetManySingletons
<1>10. [UniverseState EXCEPT !.singletons =
          [name \in SingletonNames |-> IF name \in DOMAIN entries THEN Ref(entries[name]) ELSE @[name]]]
        = [UniverseState EXCEPT !.singletons = NewSingletons]
  BY <1>8
<1> QED
  BY <1>1, <1>3, <1>5, <1>9, <1>10 DEF UniverseState

\* What the universe registers then is of the right kind, under its policy, and complete.
LEMMA NewSingletonsOK ==
    ASSUME Structure, SetManySingletons
    PROVE  /\ \A name \in SingletonNames : SingletonOK(name, NewSingletons[name])
           /\ \A name \in UnderPolicy : NewSingletons[name] \in OnChain =>
                 contracts[NewSingletons[name]].policy = UniverseState.policy
           /\ NewSingletons["euroToken"] # Zero =>
                 contracts[NewSingletons["euroToken"]].controller = NewSingletons["euroTokenController"]
           /\ \A name \in SingletonNames \ {"votingCenter"} : NewSingletons[name] # Zero
           /\ \A name \in DOMAIN FieldOf : NewSingletons[name] = IcbmState[FieldOf[name]]
           /\ UniverseState.policy = IcbmState.policy <=> ~config.isolated
           /\ step >= 12 => NewSingletons["feeDisbursal"] \in OnChain
<1>1. /\ Running("singletons")
      /\ \/ step = 9 /\ pc = 11 + Offset
         \/ step = 12 /\ pc \in {4, 12}
         \/ step = 13 /\ pc = 7
         \/ step = 16 /\ pc = 4
      /\ Is(mem["universe"], "universe")
  BY SingletonsCalled
<1>2. /\ step \in StepSet /\ pc \in 1 .. LengthOf(step) /\ OpAt(step, pc) = "singletons"
      /\ config.isolated \in BOOLEAN /\ ~Skipped /\ LengthOf(step) \in Nat
  BY <1>1, RunningIs, Lengths DEF Structure
<1>3. /\ Is(mem["commitment"], "commitment")
      /\ \A f \in DOMAIN FieldKind :
           Is(IcbmState[f], FieldKind[f]) /\ contracts[IcbmState[f]].policy = IcbmState.policy
  BY <1>1, IcbmInUse
<1>4. Zero \notin OnChain /\ OnChain \cap Wallets = {}
  BY NotContracts DEF Structure, AddressesOK
<1>5. mem["universe"] # Zero
  BY <1>1, <1>4 DEF Is
<1>6. /\ LinkedUniverse(UniverseState)
      /\ \A name : SingletonOf(name) = UniverseState.singletons[name]
  BY <1>1, <1>5, UniverseIsKnown
<1>7. \A k \in Kinds : DeployedBefore(k) => Is(mem[k], k)
  BY Known DEF Structure, MemOK
<1>8. \A name \in DOMAIN FieldOf : Is(IcbmState[FieldOf[name]], KindOf(name))
  <2>1. \A name \in DOMAIN FieldOf : KindOf(name) = name
    BY DEF FieldOf, KindOf
  <2>2. \A name \in DOMAIN FieldOf : FieldOf[name] \in DOMAIN FieldKind /\ FieldKind[FieldOf[name]] = name
    BY NamesKnown
  <2> QED
    BY <1>3, <2>1, <2>2
<1>9. CASE step = 9
  <2>1. /\ Is(mem["etherToken"], "etherToken") /\ Is(mem["euroToken"], "euroToken")
        /\ Is(mem["euroTokenController"], "euroTokenController")
        /\ Is(mem["euroLock"], "euroLock") /\ Is(mem["etherLock"], "etherLock")
        /\ Is(mem["gasExchange"], "gasExchange") /\ Is(mem["identityRegistry"], "identityRegistry")
        /\ Is(mem["platformTerms"], "platformTerms")
    BY <1>1, <1>2, <1>7, <1>9, KindsAre DEF DeployedBefore, Place, Offset
  <2>2. Addresses("PLATFORM_OPERATOR_WALLET") \in Wallets
    BY ManagerIs DEF Wallets
  <2>3. RegisteredNames = SingletonNames \ {"votingCenter"}
    BY <1>9 DEF RegisteredNames
  <2>4. \A name \in RegisteredNames : SingletonOK(name, RegisteredAs(name)) /\ RegisteredAs(name) # Zero
    <3> SUFFICES ASSUME NEW name \in RegisteredNames
                 PROVE  SingletonOK(name, RegisteredAs(name)) /\ RegisteredAs(name) # Zero
      OBVIOUS
    <3>1. CASE name \in DOMAIN FieldOf
      <4>1. RegisteredAs(name) = IcbmState[FieldOf[name]]
        BY <3>1, NamesKnown DEF RegisteredAs
      <4>2. Is(RegisteredAs(name), KindOf(name))
        BY <1>8, <3>1, <4>1
      <4> QED
        BY <1>4, <4>2 DEF SingletonOK, Is
    <3>2. CASE name \in {"feeDisbursal", "platformPortfolio"}
      <4>1. RegisteredAs(name) = Addresses("PLATFORM_OPERATOR_WALLET")
        BY <1>9, <3>2, NamesKnown DEF RegisteredAs
      <4>2. Zero \notin Wallets
        BY DEF Zero, Wallets, Account, DEPLOYER
      <4> QED
        BY <2>2, <3>2, <4>1, <4>2 DEF SingletonOK
    <3>3. CASE name \notin DOMAIN FieldOf \cup {"feeDisbursal", "platformPortfolio"}
      <4>1. name \in {"icbmCommitment", "tokenExchangeRateOracle", "etherToken", "euroToken",
                      "euroTokenController", "euroLock", "etherLock", "gasExchange",
                      "identityRegistry", "platformTerms"}
        BY <2>3, <3>3 DEF SingletonNames, PlatformSingletons, FieldOf
      <4> HIDE DEF RegisteredNames
      <4>2. Is(RegisteredAs(name), KindOf(name))
        BY <1>3, <2>1, <4>1, NamesKnown DEF RegisteredAs, KindOf
      <4> QED
        BY <1>4, <4>2 DEF SingletonOK, Is
    <3> QED
      BY <3>1, <3>2, <3>3
  <2>5. \A name \in SingletonNames \ {"votingCenter"} : NewSingletons[name] = RegisteredAs(name)
    BY <2>3 DEF NewSingletons
  <2>6. NewSingletons["votingCenter"] = UniverseState.singletons["votingCenter"]
    BY <2>3, NamesKnown DEF NewSingletons
  <2>7. \A name \in SingletonNames : SingletonOK(name, NewSingletons[name])
    BY <1>6, <2>3, <2>4, <2>5, <2>6 DEF LinkedUniverse
  <2>8. \A name \in DOMAIN FieldOf : NewSingletons[name] = IcbmState[FieldOf[name]]
    BY <2>5, NamesKnown DEF RegisteredAs
  <2>9. /\ NewSingletons["euroToken"] = mem["euroToken"]
        /\ NewSingletons["euroTokenController"] = mem["euroTokenController"]
        /\ NewSingletons["euroLock"] = mem["euroLock"] /\ NewSingletons["etherLock"] = mem["etherLock"]
        /\ NewSingletons["feeDisbursal"] = Addresses("PLATFORM_OPERATOR_WALLET")
    BY <1>9, <2>5, NamesKnown DEF RegisteredAs
  <2>10. /\ NewSingletons["identityRegistry"] = mem["identityRegistry"]
         /\ NewSingletons["etherToken"] = mem["etherToken"]
         /\ NewSingletons["gasExchange"] = mem["gasExchange"]
    BY <1>9, <2>5, NamesKnown DEF RegisteredAs
  <2>11. /\ \A k \in UnderPolicy \ {"feeDisbursal"} : contracts[mem[k]].policy = UniverseState.policy
         /\ contracts[mem["euroToken"]].controller = mem["euroTokenController"]
         /\ UniverseState.policy = IcbmState.policy <=> ~config.isolated
    <3>1. \A k \in (UnderPolicy \ {"feeDisbursal"}) \cup {"universe"} : DeployedBefore(k)
      BY <1>1, <1>2, <1>9 DEF DeployedBefore, Place, Offset, UnderPolicy
    <3>2. config.isolated => DeployedBefore("policy")
      BY <1>1, <1>2, <1>9 DEF DeployedBefore, Place, Offset
    <3> QED
      BY <1>9, <3>1, <3>2 DEF Structure, PlatformStage, UnderPolicy
  <2>12. \A name \in UnderPolicy : NewSingletons[name] \in OnChain =>
            contracts[NewSingletons[name]].policy = UniverseState.policy
    <3> SUFFICES ASSUME NEW name \in UnderPolicy, NewSingletons[name] \in OnChain
                 PROVE  contracts[NewSingletons[name]].policy = UniverseState.policy
      OBVIOUS
    <3>1. name # "feeDisbursal" => NewSingletons[name] = mem[name]
      BY <2>9, <2>10 DEF UnderPolicy
    <3>2. name # "feeDisbursal"
      BY <1>4, <2>2, <2>9
    <3> QED
      BY <2>11, <3>1, <3>2
  <2> QED
    BY <1>9, <2>3, <2>4, <2>5, <2>7, <2>8, <2>9, <2>11, <2>12
<1>10. CASE step # 9
  <2>1. /\ Ready(UniverseState) /\ step > 9
        /\ UniverseState.policy = IcbmState.policy <=> ~config.isolated
    BY <1>1, <1>10 DEF Structure, ReadyStage
  <2>2. /\ Is(mem["feeDisbursal"], "feeDisbursal") \/ step # 12
        /\ step = 12 => contracts[mem["feeDisbursal"]].policy = UniverseState.policy
    <3>1. step = 12 => DeployedBefore("feeDisbursal")
      BY <1>1, <1>2 DEF DeployedBefore, Place
    <3> QED
      BY <1>7, <3>1, KindsAre DEF Structure, PlatformStage
  <2>3. ASSUME NEW name \in RegisteredNames
        PROVE  /\ name \in {"feeDisbursal", "platformTerms", "votingCenter"}
               /\ name = "feeDisbursal" <=> step = 12 /\ pc = 4
               /\ RegisteredAs(name) = mem[name] /\ Is(mem[name], name) /\ KindOf(name) = name
    <3>1. /\ name \in {"feeDisbursal", "platformTerms", "votingCenter"}
          /\ name = "feeDisbursal" <=> step = 12 /\ pc = 4
      BY <1>1, <1>10 DEF RegisteredNames
    <3>2. RegisteredAs(name) = mem[name] /\ KindOf(name) = name
      BY <1>10, <3>1, NamesKnown DEF RegisteredAs, KindOf
    <3>3. DeployedBefore(name)
      BY <1>1, <1>2, <1>10 DEF RegisteredNames, DeployedBefore, Place
    <3> QED
      BY <1>7, <3>1, <3>2, <3>3, KindsAre
  <2>4. ASSUME NEW name \in SingletonNames
        PROVE  NewSingletons[name] = IF name \in RegisteredNames THEN mem[name]
                                     ELSE UniverseState.singletons[name]
    BY <2>3 DEF NewSingletons
  <2>5. \A name \in SingletonNames : SingletonOK(name, NewSingletons[name])
    <3> SUFFICES ASSUME NEW name \in SingletonNames PROVE SingletonOK(name, NewSingletons[name])
      OBVIOUS
    <3>1. CASE name \in RegisteredNames
      BY <2>3, <2>4, <3>1 DEF SingletonOK
    <3>2. CASE name \notin RegisteredNames
      BY <1>6, <2>4, <3>2 DEF LinkedUniverse
    <3> QED
      BY <3>1, <3>2
  <2>6. \A name \in UnderPolicy : NewSingletons[name] \in OnChain =>
          contracts[NewSingletons[name]].policy = UniverseState.policy
    <3> SUFFICES ASSUME NEW name \in UnderPolicy, NewSingletons[name] \in OnChain
                 PROVE  contracts[NewSingletons[name]].policy = UniverseState.policy
      OBVIOUS
    <3>1. name \in SingletonNames
      BY NamesKnown
    <3>2. CASE name \in RegisteredNames
      BY <2>2, <2>3, <2>4, <3>1, <3>2 DEF UnderPolicy
    <3>3. CASE name \notin RegisteredNames
      BY <1>6, <2>4, <3>1, <3>3 DEF LinkedUniverse
    <3> QED
      BY <3>2, <3>3
  <2>7. "euroToken" \notin RegisteredNames /\ "euroTokenController" \notin RegisteredNames
    BY <2>3
  <2>8. NewSingletons["euroToken"] # Zero =>
          contracts[NewSingletons["euroToken"]].controller = NewSingletons["euroTokenController"]
    BY <1>6, <2>4, <2>7, NamesKnown DEF LinkedUniverse
  <2>9. \A name \in SingletonNames \ {"votingCenter"} : NewSingletons[name] # Zero
    <3> SUFFICES ASSUME NEW name \in SingletonNames \ {"votingCenter"} PROVE NewSingletons[name] # Zero
      OBVIOUS
    <3>1. CASE name \in RegisteredNames
      BY <1>4, <2>3, <2>4, <3>1 DEF Is
    <3>2. CASE name \notin RegisteredNames
      BY <2>1, <2>4, <3>2 DEF Ready
    <3> QED
      BY <3>1, <3>2
  <2>10. \A name \in DOMAIN FieldOf : NewSingletons[name] = IcbmState[FieldOf[name]]
    <3>1. \A name \in DOMAIN FieldOf : name \notin RegisteredNames
      BY <2>3, NamesKnown
    <3> QED
      BY <2>1, <2>4, <3>1, NamesKnown DEF Ready
  <2>11. NewSingletons["feeDisbursal"] \in OnChain
    <3>1. CASE step = 12 /\ pc = 4
      <4>1. "feeDisbursal" \in RegisteredNames
        BY <3>1 DEF RegisteredNames
      <4> QED
        BY <2>2, <2>4, <3>1, <4>1, NamesKnown DEF Is
    <3>2. CASE ~(step = 12 /\ pc = 4)
      <4>1. "feeDisbursal" \notin RegisteredNames
        BY <2>3, <3>2
      <4>2. UniverseState.singletons["feeDisbursal"] \in OnChain
        BY <1>1, <1>10, <3>2 DEF Structure, ReadyStage
      <4> QED
        BY <2>4, <4>1, <4>2, NamesKnown
    <3> QED
      BY <3>1, <3>2
  <2> QED
    BY <2>1, <2>5, <2>6, <2>8, <2>9, <2>10, <2>11
<1> QED
  BY <1>9, <1>10

\* A universe r with the new singletons.
Registers(r) ==
    /\ r \in UniverseShape(OnChain, Policies) /\ r.policy = UniverseState.policy
    /\ LinkedUniverse(r) /\ Ready(r)
    /\ UniverseState.policy = IcbmState.policy <=> ~config.isolated
    /\ step >= 12 => r.singletons["feeDisbursal"] \in OnChain

\* A universe that registers them keeps the structure.
LEMMA RegisteringKeeps ==
    ASSUME Structure, Running("singletons"), step >= 9, NEW c, NEW s, c = mem["universe"],
           Is(c, "universe"), Registers(s), Call(c, s)
    PROVE  Structure'
<1>1. contracts' = [contracts EXCEPT ![c] = s] /\ UNCHANGED <<access, amended, mem>> /\ Advance
  BY DEF Call
<1>2. OnChain' = OnChain /\ Policies' = Policies
  BY <1>1 DEF OnChain, Policies
<1>3. contracts'[c] = s /\ \A a \in OnChain : a # c => contracts'[a] = contracts[a]
  BY <1>1 DEF OnChain, Is
<1>4. Keeps
  BY <1>2, <1>3 DEF Keeps, Is, UniverseState, Registers
<1>5. AddressesOK'
  BY <1>1, <1>2, AddressesKept DEF Structure, AddressesOK
<1>6. AccessOK'
  BY <1>1, <1>2 DEF Structure, AccessOK
<1>7. ArtifactsOK'
  BY <1>1, <1>2, ArtifactsKept DEF Structure, Advance
<1>8. ContractsOK'
  <2>1. s \in Shape("universe", OnChain, Policies)
    BY DEF Shape, Registers
  <2> QED
    BY <1>2, <1>3, <2>1 DEF Structure, ContractsOK, Is
<1>9. LinksOK'
  <2> SUFFICES ASSUME NEW a \in OnChain PROVE Linked(a)'
    BY <1>2 DEF LinksOK
  <2>1. CASE a # c
    <3>1. KeepsLinks(a)
      BY <1>3, <2>1 DEF KeepsLinks
    <3> QED
      BY <1>1, <1>4, <1>5, <3>1, LinkedKept DEF Structure, Advance
  <2>2. CASE a = c
    <3> DEFINE t(name) == s.singletons[name]
    <3>1. \A name \in UnderPolicy : t(name) \in OnChain => t(name) # c
      <4> SUFFICES ASSUME NEW name \in UnderPolicy, t(name) \in OnChain PROVE t(name) # c
        OBVIOUS
      <4>1. SingletonOK(name, t(name)) /\ KindOf(name) = name /\ name # "universe"
        BY NamesKnown DEF UnderPolicy, Registers, LinkedUniverse
      <4>2. t(name) # Zero /\ t(name) \notin Wallets
        BY NotContracts DEF Structure, AddressesOK
      <4> QED
        BY <4>1, <4>2 DEF SingletonOK, Is
    <3>2. \A name \in SingletonNames : SingletonOK(name, t(name))'
      BY <1>2 DEF SingletonOK, Is, Registers, LinkedUniverse
    <3>3. \A name \in UnderPolicy : t(name) \in OnChain' =>
             contracts'[t(name)].policy = s.policy
      BY <1>2, <1>3, <3>1 DEF Registers, LinkedUniverse
    <3>4. t("euroToken") # Zero =>
             contracts'[t("euroToken")].controller = t("euroTokenController")
      <4>1. t("euroToken") # Zero => t("euroToken") \in OnChain
        BY NamesKnown DEF SingletonOK, Is, Registers, LinkedUniverse, UnderPolicy
      <4> QED
        BY <1>3, <3>1, <4>1 DEF UnderPolicy, Registers, LinkedUniverse
    <3>5. LinkedUniverse(s)'
      BY <3>2, <3>3, <3>4 DEF LinkedUniverse
    <3> QED
      BY <1>3, <2>2, <3>5 DEF Linked, Is, Locks
  <2> QED
    BY <2>1, <2>2
<1>10. ReadyStage'
  <2>1. pc' = pc + 1 /\ UNCHANGED <<network, config, saved, step, status, mem>> /\ Offset' = Offset
    BY <1>1 DEF Advance, Offset
  <2>2. IcbmState' = IcbmState
    <3>1. Is(mem["commitment"], "commitment")
      BY IcbmInUse
    <3> QED
      BY <2>1, <3>1, <1>4 DEF IcbmState, Keeps, Is
  <2>3. UniverseState' = s
    BY <1>3, <2>1 DEF UniverseState
  <2>4. Ready(s)'
    BY <2>2 DEF Ready, Registers
  <2>5. mem'["universe"] # Zero
    BY <2>1, NotContracts DEF Is, Structure, AddressesOK
  <2>6. Ready(UniverseState)'
    BY <2>3, <2>4 DEF Ready
  <2>7. (UniverseState.policy = IcbmState.policy <=> ~config.isolated)'
    BY <2>1, <2>2, <2>3 DEF Registers
  <2>8. step \in Int /\ (step >= 12 => (UniverseState.singletons["feeDisbursal"] \in OnChain)')
    BY <1>2, <2>3 DEF Registers, Structure, ControlOK, StepSet
  <2> HIDE DEF Ready, UniverseState, IcbmState, OnChain
  <2> QED
    BY <2>1, <2>5, <2>6, <2>7, <2>8 DEF ReadyStage
<1> QED
  BY <1>1, <1>4, <1>5, <1>6, <1>7, <1>8, <1>9, <1>10, StagesMove, ControlMoves DEF Structure

\* So every transaction on singletons does.
LEMMA SingletonsKeep ==
    ASSUME Structure, SetManySingletons
    PROVE  Structure'
<1> DEFINE t == NewSingletons
           s == [UniverseState EXCEPT !.singletons = t]
<1>1. /\ Running("singletons") /\ Is(mem["universe"], "universe") /\ Call(mem["universe"], s)
      /\ step >= 9 /\ UniverseState \in UniverseShape(OnChain, Policies)
  BY SingletonsCalled
<1>2. /\ \A name \in SingletonNames : SingletonOK(name, t[name])
      /\ \A name \in UnderPolicy : t[name] \in OnChain =>
            contracts[t[name]].policy = UniverseState.policy
      /\ t["euroToken"] # Zero => contracts[t["euroToken"]].controller = t["euroTokenController"]
      /\ \A name \in SingletonNames \ {"votingCenter"} : t[name] # Zero
      /\ \A name \in DOMAIN FieldOf : t[name] = IcbmState[FieldOf[name]]
      /\ UniverseState.policy = IcbmState.policy <=> ~config.isolated
      /\ step >= 12 => t["feeDisbursal"] \in OnChain
  BY NewSingletonsOK
<1>3. t \in [SingletonNames -> OnChain \cup {Zero} \cup Wallets]
  <2>1. \A name \in SingletonNames : t[name] \in OnChain \cup {Zero} \cup Wallets
    BY <1>2 DEF SingletonOK, Is
  <2> QED
    BY <2>1 DEF NewSingletons
<1> HIDE DEF t
<1>4. /\ s \in UniverseShape(OnChain, Policies) /\ s.policy = UniverseState.policy
      /\ s.singletons = t
  BY <1>1, <1>3 DEF UniverseShape
<1> HIDE DEF s
<1>5. Registers(s)
  BY <1>2, <1>4 DEF Registers, LinkedUniverse, Ready
<1> QED
  BY <1>1, <1>5, RegisteringKeeps

-----------------------------------------------------------------------------
(* Deployments *)

\* Where what is deployed.
LEMMA DeployedWhere ==
    ASSUME config.isolated \in BOOLEAN, step \in StepSet, pc \in 1 .. LengthOf(step),
           OpAt(step, pc) = "deploy", NEW kind, kind = DeployedAt(step, pc)
    PROVE  /\ step \notin {3, 4, 5, 6, 10, 11, 201}
           /\ kind \in IcbmKinds => step = 2
           /\ kind = "policy" => pc = 1 /\ (step = 2 \/ (step = 9 /\ config.isolated))
           /\ kind \in PlatformKinds => step = 9
           /\ kind = "feeDisbursal" => step = 12
           /\ step = 2 => kind \in IcbmKinds \cup {"policy"}
           /\ step = 9 => pc <= 9 + Offset
           /\ step = 12 => pc \in {1, 2, 11}
<1>1. CASE step = 2
  BY <1>1 DEF OpAt, DeployedAt, LengthOf, IcbmKinds, PlatformKinds
<1>2. CASE step = 9
  BY <1>2 DEF OpAt, DeployedAt, LengthOf, Offset, IcbmKinds, PlatformKinds
<1>3. CASE step = 12
  BY <1>3 DEF OpAt, DeployedAt, LengthOf, IcbmKinds, PlatformKinds
<1>4. CASE step = 13
  BY <1>4 DEF OpAt, DeployedAt, LengthOf, IcbmKinds, PlatformKinds
<1>5. CASE step \in {14, 15, 16}
  BY <1>5 DEF OpAt, DeployedAt, LengthOf, IcbmKinds, PlatformKinds
<1>6. CASE step \in {3, 4, 5, 6, 10, 11, 201}
  BY <1>6 DEF OpAt, LengthOf, Offset
<1> QED
  BY <1>1, <1>2, <1>3, <1>4, <1>5, <1>6 DEF StepSet

\* The contract r of this kind is deployed at this address.
Deploys(kind, this, r) ==
    /\ Running("deploy") /\ kind = DeployedAt(step, pc) /\ kind \in Kinds
    /\ this = <<kind, 1 + Cardinality(OfKind(kind))>> /\ r = Created(kind, this)
    /\ contracts' = Added(contracts, this, r) /\ mem' = [mem EXCEPT ![kind] = this]
    /\ access' = IF kind = "policy" THEN Added(access, this, NewPolicy(DEPLOYER, this)) ELSE access
    /\ amended' = amended /\ Advance

\* A deployment deploys one contract.
LEMMA DeployCalled ==
    ASSUME Structure, DeployContract
    PROVE  \E kind, this, r : Deploys(kind, this, r)
<1> DEFINE kind == DeployedAt(step, pc)
<1>1. Running("deploy")
  BY DEF DeployContract
<1>2. /\ step \in StepSet /\ pc \in 1 .. LengthOf(step) /\ OpAt(step, pc) = "deploy"
      /\ config.isolated \in BOOLEAN
  BY <1>1, RunningIs DEF Structure
<1>3. Current = Deploy(kind) /\ kind \in Kinds
  BY <1>2, DeploysAt DEF Current
<1>4. Current.kind = kind
  BY <1>3, OperationNames
<1> HIDE DEF kind
<1> DEFINE this == <<kind, 1 + Cardinality(OfKind(kind))>>
<1>5. Deploys(kind, this, Created(kind, this))
  BY <1>1, <1>3, <1>4 DEF DeployContract, Deploys, OfKind, OnChain, kind
<1> QED
  BY <1>5

\* The new contract is the only change on the chain.
Appears(kind, this, r) ==
    /\ this \notin OnChain /\ this[1] = kind /\ this # Zero
    /\ OnChain' = OnChain \cup {this} /\ contracts'[this] = r
    /\ \A a \in OnChain : contracts'[a] = contracts[a]
    /\ Policies' = IF kind = "policy" THEN Policies \cup {this} ELSE Policies
    /\ mem'[kind] = this /\ \A k \in Kinds \ {kind} : mem'[k] = mem[k]
    /\ AddressesOK' /\ AccessOK' /\ ArtifactsOK'

\* Its address is new.
LEMMA DeployedAnew ==
    ASSUME Structure, NEW kind, NEW this, NEW r, Deploys(kind, this, r)
    PROVE  Appears(kind, this, r)
<1>1. /\ kind \in Kinds /\ this = <<kind, 1 + Cardinality(OfKind(kind))>>
      /\ contracts' = Added(contracts, this, r) /\ mem' = [mem EXCEPT ![kind] = this]
      /\ access' = IF kind = "policy" THEN Added(access, this, NewPolicy(DEPLOYER, this)) ELSE access
      /\ amended' = amended /\ saved' = saved
  BY DEF Deploys, Advance
<1>2. IsFiniteSet(OnChain) /\ \A k : IsFiniteSet(OfKind(k)) /\ Cardinality(OfKind(k)) \in Nat
  <2>1. IsFiniteSet(OnChain) /\ \A k : OfKind(k) \subseteq OnChain
    BY DEF Structure, AddressesOK, OfKind
  <2> QED
    BY <2>1, FS_Subset, FS_CardinalityType
<1>3. this \notin OnChain /\ this[1] = kind
  <2>1. this[1] = kind /\ this[2] = 1 + Cardinality(OfKind(kind)) /\ Cardinality(OfKind(kind)) \in Nat
    BY <1>1, <1>2
  <2>2. \A a \in OnChain : a[2] \in 1 .. Cardinality(OfKind(a[1]))
    BY DEF Structure, AddressesOK
  <2>3. this \in OnChain => this[2] \in 1 .. Cardinality(OfKind(kind))
    BY <2>1, <2>2
  <2> QED
    BY <2>1, <2>3
<1>4. OnChain' = OnChain \cup {this} /\ contracts'[this] = r
      /\ \A a \in OnChain : contracts'[a] = contracts[a]
  BY <1>1, <1>3 DEF Added, OnChain
<1>5. this # Zero
  BY <1>1, KindsAre DEF Zero
<1>6. /\ Policies' = IF kind = "policy" THEN Policies \cup {this} ELSE Policies
      /\ \A p \in Policies : p # this => access'[p] = access[p]
  BY <1>1 DEF Added, Policies
<1>7. mem'[kind] = this /\ \A k \in Kinds \ {kind} : mem'[k] = mem[k]
  BY <1>1 DEF Structure, ArtifactsOK, Artifacts
<1>8. AddressesOK'
  <2>1. IsFiniteSet(OnChain')
    BY <1>2, <1>4, FS_AddElement
  <2>2. \A k : k # kind => OfKind(k)' = OfKind(k)
    BY <1>3, <1>4 DEF OfKind
  <2>3. OfKind(kind)' = OfKind(kind) \cup {this} /\ this \notin OfKind(kind)
    BY <1>3, <1>4 DEF OfKind
  <2>4. Cardinality(OfKind(kind)') = Cardinality(OfKind(kind)) + 1
    BY <1>2, <2>3, FS_AddElement
  <2>5. \A a \in OnChain : /\ a = <<a[1], a[2]>> /\ a[1] \in Kinds
                           /\ a[2] \in 1 .. Cardinality(OfKind(a[1])')
    BY <1>2, <2>2, <2>4 DEF Structure, AddressesOK
  <2>6. this = <<this[1], this[2]>> /\ this[2] \in 1 .. Cardinality(OfKind(kind)')
    BY <1>1, <1>2, <2>4
  <2>7. Policies' = OfKind("policy")'
    <3>1. CASE kind = "policy"
      BY <1>6, <2>3, <3>1 DEF Structure, AddressesOK
    <3>2. CASE kind # "policy"
      BY <1>6, <2>2, <3>2 DEF Structure, AddressesOK
    <3> QED
      BY <3>1, <3>2
  <2>8. amended' \subseteq OnChain'
    BY <1>1, <1>4 DEF Structure, AddressesOK
  <2>9. \A a \in OnChain' : /\ a = <<a[1], a[2]>> /\ a[1] \in Kinds
                            /\ a[2] \in 1 .. Cardinality(OfKind(a[1])')
    BY <1>1, <1>3, <1>4, <2>5, <2>6
  <2> QED
    BY <2>1, <2>7, <2>8, <2>9 DEF AddressesOK
<1>9. AccessOK'
  <2>1. AllowsOnly(NewPolicy(DEPLOYER, this))
    BY DEF AllowsOnly, NewPolicy
  <2>2. kind = "policy" => access'[this] = NewPolicy(DEPLOYER, this)
    BY <1>1 DEF Added
  <2>3. \A p \in Policies : p # this => AllowsOnly(access'[p])
    BY <1>6 DEF Structure, AccessOK
  <2>4. this \notin Policies
    BY <1>3 DEF Structure, AddressesOK, OfKind
  <2>5. \A p \in Policies' : AllowsOnly(access'[p])
    BY <1>6, <2>1, <2>2, <2>3, <2>4
  <2> QED
    BY <2>5 DEF AccessOK
<1>10. ArtifactsOK'
  <2>1. Artifacts(saved)'
    BY <1>1, <1>4 DEF Structure, ArtifactsOK, Artifacts, Addr, Is
  <2>2. mem' \in [Kinds -> Addr']
    BY <1>1, <1>4 DEF Structure, ArtifactsOK, Artifacts, Addr
  <2>3. \A k \in Kinds : mem'[k] # Zero => mem'[k] \in OnChain' /\ mem'[k][1] = k
    BY <1>3, <1>4, <1>7 DEF Structure, ArtifactsOK, Artifacts, Is
  <2> QED
    BY <2>1, <2>2, <2>3 DEF ArtifactsOK, Artifacts, Is
<1> QED
  BY <1>3, <1>4, <1>5, <1>6, <1>7, <1>8, <1>9, <1>10 DEF Appears

\* What a migration deployed earlier is on the chain.
LEMMA DeployedEarlier ==
    ASSUME Structure, NEW k \in Kinds, DeployedBefore(k)
    PROVE  Is(mem[k], k) /\ (k = "policy" => mem[k] \in Policies)
<1>1. Is(mem[k], k)
  BY Known DEF Structure, MemOK
<1> QED
  BY <1>1 DEF Is, Structure, AddressesOK, OfKind

\* A new contract of the ICBM has the policy of migration 2 and refers to what it deployed.
LEMMA IcbmCreated ==
    ASSUME Structure, NEW kind, NEW this, NEW r, Deploys(kind, this, r), kind \in IcbmKinds
    PROVE  /\ step = 2 /\ mem["policy"] \in Policies /\ r.policy = mem["policy"]
           /\ r \in Shape(kind, OnChain, Policies)
           /\ kind \in Locks => r.target = Zero
           /\ kind = "commitment" => LinkedCommitment(r)
<1>1. Running("deploy") /\ kind = DeployedAt(step, pc) /\ r = Created(kind, this)
  BY DEF Deploys
<1>2. /\ step \in StepSet /\ pc \in 1 .. LengthOf(step) /\ OpAt(step, pc) = "deploy"
      /\ config.isolated \in BOOLEAN /\ ~Skipped
  BY <1>1, RunningIs DEF Structure
<1>3. step = 2 /\ Place(kind) = pc /\ pc \in 2 .. 8
  <2>1. step = 2
    BY <1>1, <1>2, DeployedWhere
  <2>2. LengthOf(2) = 8
    BY DEF LengthOf
  <2>3. kind # "policy"
    BY DEF IcbmKinds
  <2> QED
    BY <1>1, <1>2, <2>1, <2>2, <2>3, Places DEF DeployedAt, SimpleKinds, IcbmKinds
<1>4. mem["policy"] \in Policies
  <2>1. DeployedBefore("policy")
    BY <1>2, <1>3 DEF DeployedBefore, Place
  <2> QED
    BY <2>1, DeployedEarlier, KindsAre
<1>5. Addresses("PLATFORM_OPERATOR_WALLET") \in Wallets
  BY ManagerIs DEF Wallets
<1>6. CASE kind \in {"forkArbiter", "neumark"}
  BY <1>1, <1>3, <1>4, <1>6 DEF Created, Shape, Locks
<1>7. CASE kind \in {"icbmEtherToken", "icbmEuroToken"}
  BY <1>1, <1>3, <1>4, <1>7 DEF Created, Shape, TokenShape, Locks
<1>8. CASE kind \in Locks
  <2>1. mem["icbmEtherToken"] \in OnChain /\ mem["icbmEuroToken"] \in OnChain
    <3>1. Place("icbmEtherToken") = 4 /\ Place("icbmEuroToken") = 5
      BY <1>3 DEF Place
    <3>2. Place(kind) >= 6
      BY <1>3, <1>8 DEF Place, Locks
    <3>3. DeployedBefore("icbmEtherToken") /\ DeployedBefore("icbmEuroToken")
      BY <1>2, <1>3, <3>1, <3>2 DEF DeployedBefore
    <3> QED
      BY <3>3, DeployedEarlier, KindsAre DEF Is
  <2> DEFINE w == Addresses("PLATFORM_OPERATOR_WALLET")
             token == IF kind = "icbmEtherLock" THEN mem["icbmEtherToken"] ELSE mem["icbmEuroToken"]
  <2>2. r = [policy |-> mem["policy"], token |-> token, controller |-> Zero, target |-> Zero,
             penaltyDisbursal |-> w]
    BY <1>1, <1>8 DEF Created, Locks
  <2>3. token \in OnChain /\ w \in Wallets
    BY <1>5, <2>1
  <2> HIDE DEF token, w
  <2>4. r \in LockShape(OnChain, Policies) /\ r.policy = mem["policy"] /\ r.target = Zero
    BY <1>4, <2>2, <2>3 DEF LockShape
  <2> QED
    BY <1>3, <1>4, <1>8, <2>4 DEF Shape, Locks
<1>9. CASE kind = "commitment"
  <2>1. \A k \in {"neumark", "icbmEtherToken", "icbmEuroToken", "icbmEtherLock", "icbmEuroLock"} :
          Is(mem[k], k) /\ contracts[mem[k]].policy = mem["policy"]
    <3> SUFFICES ASSUME NEW k \in {"neumark", "icbmEtherToken", "icbmEuroToken", "icbmEtherLock",
                                   "icbmEuroLock"}
                 PROVE  Is(mem[k], k) /\ contracts[mem[k]].policy = mem["policy"]
      OBVIOUS
    <3>1. Place(k) \in 3 .. 7 /\ Place(kind) = 8
      BY <1>3, <1>9 DEF Place
    <3>2. DeployedBefore(k)
      BY <1>2, <1>3, <3>1 DEF DeployedBefore
    <3>3. k \in IcbmKinds /\ k \in Kinds
      BY KindsAre DEF IcbmKinds
    <3> QED
      BY <1>3, <3>2, <3>3, DeployedEarlier DEF Structure, IcbmStage
  <2>2. r = [policy |-> mem["policy"], neumark |-> mem["neumark"],
             etherToken |-> mem["icbmEtherToken"], euroToken |-> mem["icbmEuroToken"],
             etherLock |-> mem["icbmEtherLock"], euroLock |-> mem["icbmEuroLock"]]
    BY <1>1, <1>9 DEF Created
  <2>3. r \in Shape(kind, OnChain, Policies)
    BY <1>4, <1>9, <2>1, <2>2 DEF Shape, Is
  <2>4. LinkedCommitment(r)
    BY <2>1, <2>2 DEF LinkedCommitment, FieldKind
  <2> QED
    BY <1>3, <1>4, <1>9, <2>2, <2>3, <2>4 DEF Locks
<1> QED
  BY <1>6, <1>7, <1>8, <1>9 DEF IcbmKinds, Locks

\* A new universe is empty, under the policy of the ICBM or that of its own.
LEMMA UniverseCreated ==
    ASSUME Structure, NEW this, NEW r, Deploys("universe", this, r)
    PROVE  /\ step = 9 /\ r \in UniverseShape(OnChain, Policies)
           /\ r.policy = IF config.isolated THEN mem["policy"] ELSE IcbmState.policy
           /\ \A name \in SingletonNames : r.singletons[name] = Zero
<1>1. Running("deploy") /\ "universe" = DeployedAt(step, pc) /\ r = Created("universe", this)
  BY DEF Deploys
<1>2. /\ step \in StepSet /\ pc \in 1 .. LengthOf(step) /\ OpAt(step, pc) = "deploy"
      /\ config.isolated \in BOOLEAN /\ ~Skipped
  BY <1>1, RunningIs DEF Structure
<1>3. step = 9
  BY <1>1, <1>2, DeployedWhere DEF PlatformKinds
<1>4. pc = 1 + Offset
  BY <1>1, <1>2, <1>3, Places DEF Place, SimpleKinds
<1>5. Commitment = mem["commitment"] /\ IcbmState.policy \in Policies
  BY <1>3, IcbmInUse
<1>6. config.isolated => mem["policy"] \in Policies
  <2>1. config.isolated => DeployedBefore("policy")
    BY <1>2, <1>3, <1>4 DEF DeployedBefore, Place, Offset
  <2> QED
    BY <2>1, DeployedEarlier, KindsAre
<1> DEFINE p == IF config.isolated THEN mem["policy"] ELSE IcbmState.policy
<1>7. r = [policy |-> p, singletons |-> [name \in SingletonNames |-> Zero], collections |-> {}]
  BY <1>1, <1>5 DEF Created, IcbmState
<1>8. p \in Policies
  BY <1>5, <1>6
<1> HIDE DEF p
<1>9. /\ r \in UniverseShape(OnChain, Policies) /\ r.policy = p
      /\ \A name \in SingletonNames : r.singletons[name] = Zero
  BY <1>7, <1>8 DEF UniverseShape
<1> QED
  BY <1>3, <1>9 DEF p

\* The contracts of the platform are under the policy of their universe.
LEMMA PlatformCreated ==
    ASSUME Structure, NEW kind, NEW this, NEW r, Deploys(kind, this, r), kind \in UnderPolicy
    PROVE  /\ step = IF kind = "feeDisbursal" THEN 12 ELSE 9
           /\ mem["universe"] # Zero /\ r.policy = UniverseState.policy
           /\ UniverseState.policy \in Policies /\ r \in Shape(kind, OnChain, Policies)
           /\ kind = "euroToken" => /\ r.controller = mem["euroTokenController"]
                                    /\ Is(r.controller, "euroTokenController")
                                    /\ contracts[r.controller].policy = r.policy
<1>1. Running("deploy") /\ kind = DeployedAt(step, pc) /\ r = Created(kind, this)
  BY DEF Deploys
<1>2. /\ step \in StepSet /\ pc \in 1 .. LengthOf(step) /\ OpAt(step, pc) = "deploy"
      /\ config.isolated \in BOOLEAN /\ ~Skipped
  BY <1>1, RunningIs DEF Structure
<1>3. step = IF kind = "feeDisbursal" THEN 12 ELSE 9
  BY <1>1, <1>2, DeployedWhere DEF PlatformKinds, UnderPolicy
<1>4. Place(kind) = pc
  BY <1>1, <1>2, Places DEF UnderPolicy, SimpleKinds
<1>5. mem["universe"] # Zero
  <2>1. CASE step = 9
    <3>1. DeployedBefore("universe")
      BY <1>2, <1>3, <1>4, <2>1 DEF DeployedBefore, Place, Offset, UnderPolicy
    <3> QED
      BY <3>1, KindsAre DEF Structure, MemOK
  <2>2. CASE step = 12
    BY <2>2, UniverseIsReady
  <2> QED
    BY <1>3, <2>1, <2>2
<1>6. /\ UniverseInUse = mem["universe"] /\ UniverseState.policy \in Policies
  BY <1>3, <1>5, UniverseIsKnown
<1>7. /\ Commitment = mem["commitment"] /\ Is(IcbmState.etherLock, "icbmEtherLock")
      /\ Is(IcbmState.euroLock, "icbmEuroLock")
  BY <1>3, IcbmInUse DEF FieldKind
<1> DEFINE p == UniverseState.policy
<1> HIDE DEF p
<1>8. p = UniverseState.policy /\ p \in Policies
  BY <1>6 DEF p
<1>9. CASE kind = "euroTokenController"
  <2>1. r = [policy |-> p, from |-> {}, to |-> {}, depositManager |-> Account("EURT_DEPOSIT_MANAGER")]
    BY <1>1, <1>8, <1>9, ManagerIs DEF Created, UniverseState
  <2>2. r \in ControllerShape(OnChain, Policies) /\ r.policy = p
    BY <1>8, <2>1 DEF ControllerShape
  <2> QED
    BY <1>3, <1>5, <1>8, <1>9, <2>2 DEF Shape
<1>10. CASE kind = "euroToken"
  <2>1. DeployedBefore("euroTokenController")
    BY <1>2, <1>3, <1>4, <1>10 DEF DeployedBefore, Place, Offset
  <2>2. Is(mem["euroTokenController"], "euroTokenController")
        /\ contracts[mem["euroTokenController"]].policy = p
    BY <1>3, <1>8, <1>10, <2>1, DeployedEarlier, KindsAre DEF Structure, PlatformStage, UnderPolicy
  <2>3. r = [policy |-> p, controller |-> mem["euroTokenController"]]
    BY <1>1, <1>8, <1>10 DEF Created, UniverseState
  <2>4. r \in Shape(kind, OnChain, Policies)
    BY <1>8, <1>10, <2>2, <2>3 DEF Shape, Is
  <2> QED
    BY <1>3, <1>5, <1>8, <1>10, <2>2, <2>3, <2>4
<1>11. CASE kind \in {"etherLock", "euroLock"}
  <2> DEFINE lock == IF kind = "etherLock" THEN IcbmState.etherLock ELSE IcbmState.euroLock
  <2>1. r = [policy |-> p, source |-> lock]
    BY <1>1, <1>7, <1>8, <1>11 DEF Created, UniverseState, IcbmState
  <2>2. lock \in OnChain
    BY <1>7 DEF Is
  <2> HIDE DEF lock
  <2>3. r \in Shape(kind, OnChain, Policies)
    BY <1>8, <1>11, <2>1, <2>2 DEF Shape
  <2> QED
    BY <1>3, <1>5, <1>8, <1>11, <2>1, <2>3
<1>12. CASE kind = "feeDisbursal"
  <2>1. r = [policy |-> p, controller |-> mem["feeDisbursalController"]]
    BY <1>1, <1>6, <1>8, <1>12 DEF Created, UniverseState
  <2>2. mem["feeDisbursalController"] \in OnChain \cup {Zero}
    BY Known, KindsAre
  <2>3. r \in DisbursalShape(OnChain, Policies) /\ r.policy = p
    BY <1>8, <2>1, <2>2 DEF DisbursalShape
  <2> QED
    BY <1>3, <1>5, <1>8, <1>12, <2>3 DEF Shape
<1>13. CASE kind \in {"identityRegistry", "etherToken", "gasExchange"}
  <2>1. r = [policy |-> p]
    BY <1>1, <1>8, <1>13 DEF Created, UniverseState
  <2> QED
    BY <1>3, <1>5, <1>8, <1>13, <2>1 DEF Shape
<1> QED
  BY <1>9, <1>10, <1>11, <1>12, <1>13 DEF UnderPolicy

\* A new contract fits its kind and links to contracts that are there.
LEMMA CreatedOK ==
    ASSUME Structure, NEW kind, NEW this, NEW r, Deploys(kind, this, r), Appears(kind, this, r)
    PROVE  ContractsOK' /\ LinksOK' /\ Keeps
<1>1. /\ OnChain \subseteq OnChain' /\ OnChain' = OnChain \cup {this} /\ contracts'[this] = r
      /\ this \notin OnChain /\ this[1] = kind /\ this # Zero
      /\ \A a \in OnChain : contracts'[a] = contracts[a]
      /\ Policies \subseteq Policies' /\ (kind = "policy" => this \in Policies')
      /\ AddressesOK' /\ UNCHANGED config
  BY DEF Appears, Deploys, Advance
<1>2. kind \in Kinds /\ r = Created(kind, this)
  BY DEF Deploys
<1>3. Keeps
  BY <1>1 DEF Keeps
<1>4. Zero \notin OnChain' /\ OnChain' \cap Wallets = {}
  BY <1>1, NotContracts DEF AddressesOK
<1>5. r \in Shape(kind, OnChain', Policies')
  <2>1. CASE kind = "policy"
    BY <1>1, <1>2, <2>1 DEF Created, Shape
  <2>2. CASE kind \in IcbmKinds \cup UnderPolicy \cup {"universe"}
    <3>1. r \in Shape(kind, OnChain, Policies)
      BY <2>2, IcbmCreated, PlatformCreated, UniverseCreated DEF Shape
    <3> QED
      BY <1>1, <3>1, ShapeGrows
  <2>3. CASE kind \notin IcbmKinds \cup UnderPolicy \cup {"universe", "policy"}
    BY <1>2, <2>3 DEF Created, Shape, IcbmKinds, UnderPolicy
  <2> QED
    BY <2>1, <2>2, <2>3
<1>6. ContractsOK'
  <2> SUFFICES ASSUME NEW a \in OnChain' PROVE contracts'[a] \in Shape(a[1], OnChain', Policies')
    BY DEF ContractsOK
  <2>1. CASE a = this
    BY <1>1, <1>5, <2>1
  <2>2. CASE a \in OnChain
    <3>1. contracts[a] \in Shape(a[1], OnChain, Policies)
      BY <2>2 DEF Structure, ContractsOK
    <3> QED
      BY <1>1, <2>2, <3>1, ShapeGrows
  <2> QED
    BY <1>1, <2>1, <2>2
<1>7. \A a \in OnChain : Linked(a)'
  <2> SUFFICES ASSUME NEW a \in OnChain PROVE Linked(a)'
    OBVIOUS
  <2>1. KeepsLinks(a)
    BY <1>1 DEF KeepsLinks
  <2> QED
    BY <1>1, <1>3, <2>1, LinkedKept DEF Structure
<1>8. Linked(this)'
  <2>1. kind = "policy" => r.policy = this
    BY <1>2 DEF Created
  <2>2. kind = "commitment" => LinkedCommitment(r)'
    <3>1. kind = "commitment" => LinkedCommitment(r)
      BY IcbmCreated DEF IcbmKinds
    <3> QED
      BY <1>1, <3>1 DEF LinkedCommitment, Is
  <2>3. kind = "universe" => LinkedUniverse(r)'
    <3>1. kind = "universe" => \A name \in SingletonNames : r.singletons[name] = Zero
      BY UniverseCreated
    <3> QED
      BY <1>4, <3>1, NamesKnown DEF LinkedUniverse, SingletonOK
  <2>4. kind = "euroToken" => /\ Is(r.controller, "euroTokenController")'
                              /\ contracts'[r.controller].policy = r.policy
    BY <1>1, PlatformCreated DEF Is, UnderPolicy
  <2>5. kind \in Locks => r.target = Zero
    BY IcbmCreated DEF Locks, IcbmKinds
  <2> QED
    BY <1>1, <2>1, <2>2, <2>3, <2>4, <2>5 DEF Linked
<1>9. LinksOK'
  BY <1>1, <1>7, <1>8 DEF LinksOK
<1> QED
  BY <1>3, <1>6, <1>9

\* And the stage of the migration is what its place says.
LEMMA DeployMoves ==
    ASSUME Structure, NEW kind, NEW this, NEW r, Deploys(kind, this, r), Appears(kind, this, r)
    PROVE  /\ step \in StepSet /\ pc \in 1 .. LengthOf(step) /\ pc \in Nat /\ ~Skipped
           /\ config.isolated \in BOOLEAN /\ kind = DeployedAt(step, pc) /\ kind \in Kinds
           /\ pc' = pc + 1 /\ UNCHANGED <<network, config, saved, step, status>>
           /\ step \notin {3, 4, 5, 6, 10, 11, 201}
           /\ kind \in IcbmKinds => step = 2
           /\ kind = "policy" => pc = 1 /\ (step = 2 \/ (step = 9 /\ config.isolated))
           /\ kind \in PlatformKinds => step = 9
           /\ kind = "feeDisbursal" => step = 12
           /\ step = 2 => kind \in IcbmKinds \cup {"policy"}
           /\ step = 9 => pc <= 9 + Offset
           /\ step = 12 => pc \in {1, 2, 11}
           /\ \A k : Place(k) = pc => k = kind
           /\ \A k : DeployedBefore(k)' <=> DeployedBefore(k) \/ Place(k) = pc
           /\ Offset' = Offset
<1>1. Running("deploy") /\ kind = DeployedAt(step, pc) /\ kind \in Kinds /\ Advance
  BY DEF Deploys
<1>2. /\ step \in StepSet /\ pc \in 1 .. LengthOf(step) /\ OpAt(step, pc) = "deploy"
      /\ config.isolated \in BOOLEAN /\ ~Skipped /\ LengthOf(step) \in Nat
  BY <1>1, RunningIs, Lengths DEF Structure
<1>3. /\ step \notin {3, 4, 5, 6, 10, 11, 201}
      /\ kind \in IcbmKinds => step = 2
      /\ kind = "policy" => pc = 1 /\ (step = 2 \/ (step = 9 /\ config.isolated))
      /\ kind \in PlatformKinds => step = 9
      /\ kind = "feeDisbursal" => step = 12
      /\ step = 2 => kind \in IcbmKinds \cup {"policy"}
      /\ step = 9 => pc <= 9 + Offset
      /\ step = 12 => pc \in {1, 2, 11}
  BY <1>1, <1>2, DeployedWhere
<1>4. \A k : Place(k) = pc => k = kind
  BY <1>1, <1>2, Places
<1>5. pc' = pc + 1 /\ UNCHANGED <<network, config, saved, step, status>>
  BY <1>1 DEF Advance
<1>6. \A k : Place(k)' = Place(k) /\ Place(k) \in Int
  BY <1>2, <1>5 DEF Place, Offset
<1>7. Skipped' = Skipped /\ Offset' = Offset
  BY <1>5 DEF Skipped, ShouldSkipStep, Offset
<1>8. \A k : DeployedBefore(k)' <=> DeployedBefore(k) \/ Place(k) = pc
  BY <1>2, <1>5, <1>6, <1>7 DEF DeployedBefore
<1> QED
  BY <1>1, <1>2, <1>3, <1>4, <1>5, <1>7, <1>8

\* The migration that deploys keeps its stage.
LEMMA DeployStages ==
    ASSUME Structure, NEW kind, NEW this, NEW r, Deploys(kind, this, r), Appears(kind, this, r)
    PROVE  ConfigOK' /\ MemOK' /\ IcbmStage' /\ PlatformStage' /\ ReadyStage'
<1>1. /\ step \in StepSet /\ pc \in 1 .. LengthOf(step) /\ pc \in Nat /\ ~Skipped
      /\ config.isolated \in BOOLEAN /\ kind \in Kinds
      /\ pc' = pc + 1 /\ UNCHANGED <<network, config, saved, step, status>>
      /\ step \notin {3, 4, 5, 6, 10, 11, 201}
      /\ kind \in IcbmKinds => step = 2
      /\ kind = "policy" => pc = 1 /\ (step = 2 \/ (step = 9 /\ config.isolated))
      /\ kind \in PlatformKinds => step = 9
      /\ kind = "feeDisbursal" => step = 12
      /\ step = 2 => kind \in IcbmKinds \cup {"policy"}
      /\ step = 9 => pc <= 9 + Offset
      /\ step = 12 => pc \in {1, 2, 11}
      /\ \A k : Place(k) = pc => k = kind
      /\ \A k : DeployedBefore(k)' <=> DeployedBefore(k) \/ Place(k) = pc
      /\ Offset' = Offset
  BY DeployMoves
<1>2. /\ OnChain' = OnChain \cup {this} /\ contracts'[this] = r
      /\ this \notin OnChain /\ this # Zero
      /\ \A a \in OnChain : contracts'[a] = contracts[a]
      /\ mem'[kind] = this /\ \A k \in Kinds \ {kind} : mem'[k] = mem[k]
  BY DEF Appears
<1>3. IcbmKinds \subseteq Kinds /\ PlatformKinds \subseteq Kinds /\ UnderPolicy \subseteq Kinds
      /\ {"policy", "universe", "commitment", "euroToken", "euroTokenController"} \subseteq Kinds
  BY KindsAre DEF IcbmKinds, PlatformKinds, UnderPolicy
<1>4. ConfigOK'
  <2>1. config.commitment # Zero => kind # "commitment"
    BY <1>1 DEF Skipped, ShouldSkipStep, IcbmKinds
  <2>2. config.commitment # Zero => mem'["commitment"] = mem["commitment"]
    BY <1>2, <1>3, <2>1
  <2>3. config \in [commitment : Addr', universe : Addr', isolated : BOOLEAN]
    BY <1>2 DEF Structure, ConfigOK, Addr
  <2>4. isLiveDeployment' = isLiveDeployment
    BY <1>1 DEF isLiveDeployment
  <2> QED
    BY <1>1, <2>2, <2>3, <2>4 DEF Structure, ConfigOK
<1>5. MemOK'
  <2>1. step # 2 => \A k \in IcbmKinds : mem'[k] = saved[k]
    BY <1>1, <1>2, <1>3 DEF Structure, MemOK
  <2>2. step \notin {2, 9} => mem'["policy"] = saved["policy"]
    BY <1>1, <1>2, <1>3 DEF Structure, MemOK
  <2>3. step # 9 => \A k \in PlatformKinds : mem'[k] = saved[k]
    BY <1>1, <1>2, <1>3 DEF Structure, MemOK
  <2>4. \A k \in Kinds : DeployedBefore(k)' => mem'[k] # Zero
    BY <1>1, <1>2 DEF Structure, MemOK
  <2> QED
    BY <1>1, <2>1, <2>2, <2>3, <2>4 DEF MemOK
<1>6. \A k \in Kinds : k # kind /\ DeployedBefore(k) =>
        mem'[k] = mem[k] /\ contracts'[mem[k]] = contracts[mem[k]]
  BY <1>2, DeployedEarlier DEF Is
<1>7. IcbmStage'
  <2>1. ASSUME step = 2, NEW k \in IcbmKinds, DeployedBefore(k)'
        PROVE  contracts'[mem'[k]].policy = mem'["policy"]
    <3>1. kind # "policy"
      BY <1>1, <2>1 DEF DeployedBefore, Place, IcbmKinds
    <3>2. mem'["policy"] = mem["policy"]
      BY <1>2, <1>3, <3>1
    <3>3. CASE k = kind
      BY <1>2, <2>1, <3>2, <3>3, IcbmCreated
    <3>4. CASE k # kind
      BY <1>1, <1>3, <1>6, <2>1, <3>2, <3>4 DEF Structure, IcbmStage
    <3> QED
      BY <3>3, <3>4
  <2>2. step # 2 \/ config.commitment # Zero => mem'["commitment"] # Zero
    BY <1>1, <1>2, <1>3 DEF Structure, IcbmStage
  <2>3. step \notin 3 .. 6
    BY <1>1 DEF StepSet
  <2>4. ASSUME step = 2, DeployedBefore("commitment")'
        PROVE  /\ mem'["policy"] = IcbmState'.policy /\ mem'["neumark"] = IcbmState'.neumark
               /\ mem'["icbmEuroToken"] = IcbmState'.euroToken
               /\ mem'["icbmEuroLock"] = IcbmState'.euroLock
    <3>1. Place("commitment") = 8 /\ pc = 8
      BY <1>1, <2>4 DEF DeployedBefore, Place, LengthOf
    <3>2. kind = "commitment" /\ r = Created(kind, this)
      BY <1>1, <3>1 DEF Deploys
    <3>3. IcbmState' = r
      BY <1>2, <3>2 DEF IcbmState
    <3>4. mem'["policy"] = mem["policy"] /\ mem'["neumark"] = mem["neumark"]
          /\ mem'["icbmEuroToken"] = mem["icbmEuroToken"] /\ mem'["icbmEuroLock"] = mem["icbmEuroLock"]
      BY <1>2, <3>2, KindsAre
    <3> QED
      BY <3>2, <3>3, <3>4 DEF Created
  <2> HIDE DEF IcbmState
  <2> QED
    BY <1>1, <2>1, <2>2, <2>3, <2>4 DEF IcbmStage
<1>8. step # 2 => IcbmState' = IcbmState /\ Is(IcbmState.policy, "policy")
  <2>1. step # 2 => mem'["commitment"] = mem["commitment"]
    BY <1>1, <1>2, <1>3 DEF IcbmKinds
  <2> QED
    BY <1>2, <2>1, IcbmInUse DEF IcbmState, Is
<1>9. CASE step = 9
  <2>1. config.isolated /\ DeployedBefore("policy")' => mem'["policy"] # IcbmState'.policy
    <3>1. CASE kind = "policy"
      BY <1>2, <1>8, <1>9, <3>1 DEF Is
    <3>2. CASE kind # "policy"
      BY <1>1, <1>2, <1>3, <1>8, <1>9, <3>2 DEF Structure, PlatformStage
    <3> QED
      BY <3>1, <3>2
  <2>2. DeployedBefore("universe")' =>
          UniverseState'.policy = IF config.isolated THEN mem'["policy"] ELSE IcbmState'.policy
    <3>1. CASE kind = "universe"
      <4>1. mem'["policy"] = mem["policy"]
        BY <1>2, <1>3, <3>1
      <4>2. UniverseState' = r
        BY <1>2, <3>1 DEF UniverseState
      <4> QED
        BY <1>8, <1>9, <3>1, <4>1, <4>2, UniverseCreated
    <3>2. CASE kind # "universe"
      <4> SUFFICES ASSUME DeployedBefore("universe")'
                   PROVE UniverseState'.policy = IF config.isolated THEN mem'["policy"] ELSE IcbmState'.policy
        OBVIOUS
      <4>1. DeployedBefore("universe")
        BY <1>1, <3>2
      <4>2. UniverseState' = UniverseState
        BY <1>3, <1>6, <3>2, <4>1 DEF UniverseState
      <4>3. kind # "policy"
        BY <1>1, <1>9, <4>1 DEF DeployedBefore, Place, Offset
      <4>4. mem'["policy"] = mem["policy"]
        BY <1>2, <1>3, <4>3
      <4> QED
        BY <1>8, <1>9, <4>1, <4>2, <4>4 DEF Structure, PlatformStage
    <3> QED
      BY <3>1, <3>2
  <2>3. ASSUME NEW k \in UnderPolicy, DeployedBefore(k)'
        PROVE  /\ contracts'[mem'[k]].policy = UniverseState'.policy
               /\ kind # "universe"
    <3>1. Place(k) > 1 + Offset /\ Place("universe") = 1 + Offset
      BY <1>1, <1>9, <2>3 DEF DeployedBefore, Place, Offset, UnderPolicy
    <3>2. DeployedBefore("universe")
      BY <1>1, <2>3, <3>1 DEF DeployedBefore, Offset
    <3>3. kind # "universe"
      <4>1. kind = "universe" => pc = 1 + Offset
        BY <1>1, <1>9, <3>1, DeployMoves, Places, RunningIs DEF Deploys, Structure, SimpleKinds, Offset
      <4> QED
        BY <1>1, <3>1, <3>2, <4>1 DEF DeployedBefore, Offset
    <3>4. UniverseState' = UniverseState
      BY <1>3, <1>6, <3>2, <3>3 DEF UniverseState
    <3>5. CASE k = kind
      BY <1>2, <3>3, <3>4, <3>5, PlatformCreated
    <3>6. CASE k # kind
      BY <1>1, <1>3, <1>6, <1>9, <2>3, <3>3, <3>4, <3>6 DEF Structure, PlatformStage
    <3> QED
      BY <3>3, <3>5, <3>6
  <2>4. DeployedBefore("euroToken")' =>
          contracts'[mem'["euroToken"]].controller = mem'["euroTokenController"]
    <3> SUFFICES ASSUME DeployedBefore("euroToken")'
                 PROVE  contracts'[mem'["euroToken"]].controller = mem'["euroTokenController"]
      OBVIOUS
    <3>1. Place("euroToken") = 6 + Offset /\ Place("euroTokenController") = 5 + Offset
      BY <1>9 DEF Place
    <3>2. pc >= 6 + Offset /\ kind # "euroTokenController"
      <4>1. pc >= 6 + Offset
        BY <1>1, <3>1 DEF DeployedBefore, Offset
      <4>2. kind = "euroTokenController" => pc = 5 + Offset
        BY <1>1, <1>9, <3>1, DeployMoves, Places, RunningIs DEF Deploys, Structure, SimpleKinds, Offset
      <4> QED
        BY <1>1, <4>1, <4>2 DEF Offset
    <3>3. mem'["euroTokenController"] = mem["euroTokenController"]
      BY <1>2, <1>3, <3>2
    <3>4. CASE kind = "euroToken"
      BY <1>2, <3>3, <3>4, PlatformCreated DEF UnderPolicy
    <3>5. CASE kind # "euroToken"
      BY <1>1, <1>3, <1>6, <1>9, <3>3, <3>5 DEF Structure, PlatformStage
    <3> QED
      BY <3>4, <3>5
  <2>5. PlatformStage'
    BY <1>1, <1>9, <2>1, <2>2, <2>3, <2>4 DEF PlatformStage
  <2>6. ReadyStage'
    BY <1>1, <1>9 DEF ReadyStage, Offset
  <2> QED
    BY <1>4, <1>5, <1>7, <2>5, <2>6
<1>10. CASE step # 9
  <2>1. step > 9 => /\ mem["universe"] # Zero /\ mem'["universe"] = mem["universe"]
                    /\ UniverseState' = UniverseState /\ Ready(UniverseState)
                    /\ (UniverseState.policy = IcbmState.policy <=> ~config.isolated)
                    /\ IcbmState' = IcbmState /\ step \in Int
    <3> SUFFICES ASSUME step > 9
                 PROVE /\ mem["universe"] # Zero /\ mem'["universe"] = mem["universe"]
                       /\ UniverseState' = UniverseState /\ Ready(UniverseState)
                       /\ (UniverseState.policy = IcbmState.policy <=> ~config.isolated)
                       /\ IcbmState' = IcbmState /\ step \in Int
      OBVIOUS
    <3>1. /\ mem["universe"] # Zero /\ Ready(UniverseState)
          /\ UniverseState.policy = IcbmState.policy <=> ~config.isolated
      BY DEF Structure, ReadyStage
    <3>2. mem'["universe"] = mem["universe"]
      BY <1>1, <1>2, <1>3, <1>10 DEF PlatformKinds
    <3>3. UniverseState' = UniverseState
      BY <1>1, <1>2, <3>1, <3>2, UniverseIsKnown DEF UniverseState, Is, StepSet
    <3> QED
      BY <1>1, <1>8, <3>1, <3>2, <3>3 DEF StepSet
  <2>2. PlatformStage'
    <3>1. step = 12 /\ DeployedBefore("feeDisbursal")' =>
            contracts'[mem'["feeDisbursal"]].policy = UniverseState'.policy
      <4>1. CASE kind = "feeDisbursal"
        BY <1>2, <2>1, <4>1, PlatformCreated DEF UnderPolicy
      <4>2. CASE kind # "feeDisbursal"
        BY <1>1, <1>3, <1>6, <2>1, <4>2, KindsAre DEF Structure, PlatformStage
      <4> QED
        BY <4>1, <4>2
    <3> QED
      BY <1>1, <1>10, <3>1 DEF PlatformStage
  <2>3. ReadyStage'
    <3>1. step > 9 => Ready(UniverseState)'
      BY <2>1 DEF Ready
    <3>2. step > 12 \/ (step = 12 /\ pc' > 4) => UniverseState'.singletons["feeDisbursal"] \in OnChain'
      <4>1. step = 12 /\ pc' > 4 => pc > 4
        BY <1>1
      <4> QED
        BY <1>1, <1>2, <2>1, <4>1 DEF Structure, ReadyStage, StepSet
    <3> HIDE DEF Ready, UniverseState, IcbmState
    <3> QED
      BY <1>1, <1>10, <2>1, <3>1, <3>2 DEF ReadyStage
  <2> QED
    BY <1>4, <1>5, <1>7, <2>2, <2>3
<1> QED
  BY <1>9, <1>10

\* A deployment keeps the structure.
LEMMA DeployKeeps ==
    ASSUME Structure, DeployContract
    PROVE  Structure'
<1>1. PICK kind, this, r : Deploys(kind, this, r)
  BY DeployCalled
<1>2. Appears(kind, this, r)
  BY <1>1, DeployedAnew
<1>3. ContractsOK' /\ LinksOK'
  BY <1>1, <1>2, CreatedOK
<1>4. ConfigOK' /\ MemOK' /\ IcbmStage' /\ PlatformStage' /\ ReadyStage'
  BY <1>1, <1>2, DeployStages
<1>5. ControlOK'
  BY <1>1, ControlMoves DEF Deploys, Structure
<1> QED
  BY <1>2, <1>3, <1>4, <1>5 DEF Structure, Appears

-----------------------------------------------------------------------------
(* The course of the migrations *)

\* The chain does not change, nor what the locks may be linked to.
LEMMA ChainKept ==
    ASSUME Structure, UNCHANGED <<contracts, amended>>, Policies' = Policies, AccessOK',
           config.universe # Zero => config'.universe # Zero
    PROVE  /\ AddressesOK' /\ ContractsOK' /\ LinksOK' /\ OnChain' = OnChain
           /\ (UNCHANGED mem => IcbmState' = IcbmState /\ UniverseState' = UniverseState)
<1>1. OnChain' = OnChain /\ amended' \subseteq OnChain
  BY DEF OnChain, Structure, AddressesOK
<1>2. AddressesOK'
  BY <1>1, AddressesKept DEF Structure
<1>3. ContractsOK'
  BY <1>1 DEF Structure, ContractsOK
<1>4. Keeps /\ \A a \in OnChain : KeepsLinks(a)
  BY <1>1 DEF Keeps, KeepsLinks
<1>5. LinksOK'
  BY <1>1, <1>2, <1>4, LinkedKept DEF Structure, LinksOK
<1> QED
  BY <1>1, <1>2, <1>3, <1>5 DEF IcbmState, UniverseState

\* A migration that has not begun.
Outset ==
    /\ pc = 0 /\ mem = saved /\ step \in StepSet /\ Artifacts(saved)
    /\ step # 2 \/ config.commitment # Zero => mem["commitment"] # Zero
    /\ step \in 3 .. 6 /\ config.commitment = Zero =>
          /\ mem["policy"] = IcbmState.policy /\ mem["neumark"] = IcbmState.neumark
          /\ mem["icbmEuroToken"] = IcbmState.euroToken
          /\ mem["icbmEuroLock"] = IcbmState.euroLock
    /\ step > 9 =>
          /\ mem["universe"] # Zero /\ Ready(UniverseState)
          /\ UniverseState.policy = IcbmState.policy <=> ~config.isolated
    /\ step > 12 => UniverseState.singletons["feeDisbursal"] \in OnChain

\* At its outset a migration needs no more.
LEMMA OutsetOK ==
    ASSUME Outset
    PROVE  ArtifactsOK /\ MemOK /\ IcbmStage /\ PlatformStage /\ ReadyStage
<1>1. \A k : ~DeployedBefore(k)
  BY DEF DeployedBefore, Outset
<1>2. ArtifactsOK
  BY DEF Outset, ArtifactsOK
<1>3. MemOK
  BY <1>1 DEF Outset, MemOK
<1>4. IcbmStage
  <2> HIDE DEF IcbmState
  <2> QED
    BY <1>1 DEF Outset, IcbmStage
<1>5. PlatformStage
  BY <1>1 DEF Outset, PlatformStage
<1>6. ReadyStage
  <2>1. pc = 0 /\ step \in Int /\ ~(pc > 11 + Offset) /\ ~(pc > 4)
    BY DEF Outset, StepSet, Offset
  <2> HIDE DEF Ready, UniverseState, IcbmState
  <2> QED
    BY <2>1 DEF Outset, ReadyStage
<1> QED
  BY <1>2, <1>3, <1>4, <1>5, <1>6

\* The artifacts on disk are enough to run the migration again.
LEMMA OutsetOnDisk ==
    ASSUME Structure
    PROVE  /\ step # 2 \/ config.commitment # Zero => saved["commitment"] # Zero
           /\ step # 2 => saved["commitment"] = mem["commitment"]
           /\ step \in 3 .. 6 => /\ saved["policy"] = mem["policy"]
                                 /\ saved["neumark"] = mem["neumark"]
                                 /\ saved["icbmEuroToken"] = mem["icbmEuroToken"]
                                 /\ saved["icbmEuroLock"] = mem["icbmEuroLock"]
           /\ step > 9 => saved["universe"] = mem["universe"]
<1>1. "universe" \in PlatformKinds
      /\ {"commitment", "neumark", "icbmEuroToken", "icbmEuroLock"} \subseteq IcbmKinds
  BY DEF PlatformKinds, IcbmKinds
<1>2. step # 2 => saved["commitment"] = mem["commitment"]
  BY <1>1 DEF Structure, MemOK
<1>3. step # 2 \/ config.commitment # Zero => saved["commitment"] # Zero
  BY <1>2 DEF Structure, IcbmStage, ConfigOK
<1>4. step \in 3 .. 6 => /\ saved["policy"] = mem["policy"]
                         /\ saved["neumark"] = mem["neumark"]
                         /\ saved["icbmEuroToken"] = mem["icbmEuroToken"]
                         /\ saved["icbmEuroLock"] = mem["icbmEuroLock"]
  BY <1>1 DEF Structure, MemOK
<1>5. step > 9 => saved["universe"] = mem["universe"]
  BY <1>1 DEF Structure, MemOK
<1> QED
  BY <1>2, <1>3, <1>4, <1>5

\* A migration that begins keeps the structure.
LEMMA BeginKeeps ==
    ASSUME Structure, Begin
    PROVE  Structure'
<1>1. /\ status = "running" /\ pc = 0 /\ MayBegin(step)
      /\ UNCHANGED <<network, config, contracts, access, amended, saved, mem, step, status,
                     interrupted, budget>>
  BY DEF Begin, chain
<1>2. config.isolated \in BOOLEAN /\ step \in StepSet /\ mem = saved
  BY <1>1 DEF Structure, ControlOK, ConfigOK
<1>3. Len(Migration(step)) = LengthOf(step) /\ LengthOf(step) \in Nat
  BY <1>2, Lengths
<1>4. pc' = IF Skipped THEN LengthOf(step) + 1 ELSE 1
  BY <1>3 DEF Begin, Skipped
<1>5. LengthOf(step)' = LengthOf(step) /\ Skipped' = Skipped /\ Offset' = Offset
      /\ isLiveDeployment' = isLiveDeployment
  BY <1>1 DEF LengthOf, Offset, isLiveDeployment, Skipped, ShouldSkipStep
<1>6. \A k : ~DeployedBefore(k)'
  <2>1. \A k : Place(k)' \in Nat
    BY <1>1, <1>2 DEF Place, Offset
  <2> QED
    BY <1>4, <1>5, <2>1 DEF DeployedBefore
<1>7. /\ AddressesOK' /\ ContractsOK' /\ LinksOK' /\ OnChain' = OnChain /\ AccessOK'
      /\ IcbmState' = IcbmState /\ UniverseState' = UniverseState
  <2>1. Policies' = Policies /\ AccessOK'
    BY <1>1 DEF Policies, Structure, AccessOK
  <2> QED
    BY <1>1, <2>1, ChainKept
<1>8. ArtifactsOK'
  BY <1>1, <1>7, ArtifactsKept DEF Structure
<1>9. ControlOK'
  BY <1>1, <1>2, <1>3, <1>4, <1>5 DEF Structure, ControlOK
<1>10. ConfigOK'
  <2>1. step = 9 /\ isLiveDeployment => config.commitment # Zero
    BY <1>1 DEF MayBegin
  <2>2. step = 12 /\ isLiveDeployment => config.universe # Zero
    BY <1>1 DEF MayBegin
  <2>3. Addr' = Addr
    BY <1>7 DEF Addr
  <2> QED
    BY <1>1, <1>5, <2>1, <2>2, <2>3 DEF Structure, ConfigOK
<1>11. MemOK'
  BY <1>1, <1>2, <1>6 DEF MemOK
<1>12. IcbmStage'
  <2> HIDE DEF IcbmState
  <2> QED
    BY <1>1, <1>6, <1>7 DEF Structure, IcbmStage
<1>13. PlatformStage'
  BY <1>1, <1>6 DEF PlatformStage
<1>14. ReadyStage'
  <2>1. step >= 9 => pc' = 1 /\ step \in Int
    BY <1>2, <1>4 DEF Skipped, ShouldSkipStep, StepSet
  <2>2. Ready(UniverseState)' <=> Ready(UniverseState)
    BY <1>7 DEF Ready
  <2>3. ~(1 > 4) /\ ~(1 > 11 + Offset)
    BY DEF Offset
  <2> HIDE DEF Ready, UniverseState, IcbmState
  <2> QED
    BY <1>1, <1>2, <1>5, <1>7, <2>1, <2>2, <2>3 DEF Structure, ReadyStage, StepSet
<1> QED
  BY <1>7, <1>8, <1>9, <1>10, <1>11, <1>12, <1>13, <1>14 DEF Structure

\* Truffle saves the artifacts when the migration ends, and goes on to the next.
LEMMA FinishIs ==
    ASSUME Structure, Finish
    PROVE  /\ status = "running" /\ pc = LengthOf(step) + 1 /\ saved' = mem
           /\ step \in StepSet /\ LengthOf(step) \in Nat /\ config.isolated \in BOOLEAN
           /\ \/ step = 201 /\ status' = "done" /\ UNCHANGED <<step, pc>>
              \/ step # 201 /\ step' = NextStep(step) /\ pc' = 0 /\ status' = status
           /\ UNCHANGED <<network, config, contracts, access, amended, mem, interrupted, budget>>
<1>1. config.isolated \in BOOLEAN /\ step \in StepSet
  BY DEF Structure, ControlOK, ConfigOK
<1>2. Len(Migration(step)) = LengthOf(step) /\ LengthOf(step) \in Nat
  BY <1>1, Lengths
<1>3. step # 201 => Steps[Position(step) + 1] = NextStep(step)
  BY <1>1, StepsInOrder
<1> QED
  BY <1>1, <1>2, <1>3 DEF Finish, chain

\* A migration that ends keeps the structure.
LEMMA FinishKeeps ==
    ASSUME Structure, Finish
    PROVE  Structure'
<1>1. /\ status = "running" /\ pc = LengthOf(step) + 1 /\ saved' = mem
      /\ step \in StepSet /\ LengthOf(step) \in Nat /\ config.isolated \in BOOLEAN
      /\ \/ step = 201 /\ status' = "done" /\ UNCHANGED <<step, pc>>
         \/ step # 201 /\ step' = NextStep(step) /\ pc' = 0 /\ status' = status
      /\ UNCHANGED <<network, config, contracts, access, amended, mem, interrupted, budget>>
  BY FinishIs
<1>2. /\ AddressesOK' /\ ContractsOK' /\ LinksOK' /\ OnChain' = OnChain /\ AccessOK'
      /\ IcbmState' = IcbmState /\ UniverseState' = UniverseState
  <2>1. Policies' = Policies /\ AccessOK'
    BY <1>1 DEF Policies, Structure, AccessOK
  <2> QED
    BY <1>1, <2>1, ChainKept
<1>3. ArtifactsOK'
  BY <1>1, <1>2 DEF Structure, ArtifactsOK, Artifacts, Addr, Is
<1>4. isLiveDeployment' = isLiveDeployment /\ Offset' = Offset /\ Addr' = Addr
  BY <1>1, <1>2 DEF isLiveDeployment, Offset, Addr
<1>5. step >= 12 => saved["universe"] = mem["universe"]
  BY <1>1, OutsetOnDisk DEF StepSet
<1>6. step = 9 => pc > 11 + Offset
  BY <1>1 DEF LengthOf, Offset
<1>7. step = 12 => pc > 4
  BY <1>1 DEF LengthOf
<1>8. pc > 0
  BY <1>1
<1>9. CASE step = 201
  <2>1. LengthOf(step)' = LengthOf(step) /\ Skipped' = Skipped
    BY <1>1, <1>4, <1>9 DEF LengthOf, Skipped, ShouldSkipStep
  <2>2. ControlOK'
    BY <1>1, <1>9, <2>1 DEF Structure, ControlOK
  <2>3. ConfigOK'
    BY <1>1, <1>4, <1>5, <1>9 DEF Structure, ConfigOK
  <2>4. MemOK'
    <3>1. \A k : DeployedBefore(k)' <=> DeployedBefore(k)
      <4>1. \A k : Place(k)' = Place(k)
        BY <1>1, <1>9 DEF Place, Offset
      <4> QED
        BY <1>1, <1>9, <2>1, <4>1 DEF DeployedBefore
    <3> QED
      BY <1>1, <1>9, <3>1 DEF Structure, MemOK
  <2>5. IcbmStage'
    <3> HIDE DEF IcbmState
    <3> QED
      BY <1>1, <1>2, <1>9 DEF Structure, IcbmStage
  <2>6. PlatformStage'
    BY <1>1, <1>9 DEF PlatformStage
  <2>7. ReadyStage'
    <3>1. Ready(UniverseState)' <=> Ready(UniverseState)
      BY <1>2 DEF Ready
    <3> HIDE DEF Ready, UniverseState, IcbmState
    <3> QED
      BY <1>1, <1>2, <1>9, <3>1 DEF Structure, ReadyStage
  <2> QED
    BY <1>2, <1>3, <2>2, <2>3, <2>4, <2>5, <2>6, <2>7 DEF Structure
<1>10. CASE step # 201
  <2>1. step' \in StepSet /\ step' = NextStep(step) /\ pc' = 0 /\ status' = status
    BY <1>1, <1>10, StepsInOrder
  <2>2. /\ step' # 2 /\ (step' > 9 => step >= 9) /\ (step' > 12 => step >= 12)
        /\ (step >= 12 => step' >= 12) /\ (step' \in 3 .. 6 => step \in 2 .. 5)
        /\ (step >= 9 => step' > 9)
    <3>1. /\ step' # 2 /\ step' > step /\ (step' > 9 <=> step >= 9) /\ (step' > 12 <=> step >= 12)
          /\ step' \in 3 .. 6 => step \in 2 .. 5
      BY <1>1, <1>10, <2>1, NextStepGrows
    <3> QED
      BY <1>1, <2>1, <3>1 DEF StepSet
  <2>3. ControlOK'
    <3>1. LengthOf(step)' \in Nat
      <4>1. Offset' \in {0, 1}
        BY <1>1, <1>4 DEF Offset
      <4> QED
        BY <2>1, <4>1 DEF LengthOf, StepSet
    <3> QED
      BY <1>1, <2>1, <3>1 DEF Structure, ControlOK
  <2>4. ConfigOK'
    <3>1. config.universe # Zero => step' >= 12 /\ config.universe = mem["universe"]
      BY <1>1, <1>5, <2>2 DEF Structure, ConfigOK
    <3>2. isLiveDeployment /\ (step' > 9 \/ (step' = 9 /\ pc' > 0)) => config.commitment # Zero
      BY <1>1, <1>8, <2>1, <2>2 DEF Structure, ConfigOK, StepSet
    <3>3. isLiveDeployment /\ (step' > 12 \/ (step' = 12 /\ pc' > 0)) => config.universe # Zero
      BY <1>1, <1>8, <2>1, <2>2 DEF Structure, ConfigOK, StepSet
    <3> QED
      BY <1>1, <1>4, <3>1, <3>2, <3>3 DEF Structure, ConfigOK
  <2>5. Outset'
    <3>1. mem["commitment"] # Zero
      <4>1. CASE step = 2 /\ ~Skipped
        <5>1. DeployedBefore("commitment")
          BY <1>1, <4>1 DEF DeployedBefore, Place, LengthOf
        <5> QED
          BY <5>1, KindsAre DEF Structure, MemOK
      <4>2. CASE step # 2 \/ Skipped
        BY <4>2 DEF Structure, IcbmStage, Skipped, ShouldSkipStep
      <4> QED
        BY <4>1, <4>2
    <3>2. step' \in 3 .. 6 /\ config.commitment = Zero =>
            /\ mem["policy"] = IcbmState.policy /\ mem["neumark"] = IcbmState.neumark
            /\ mem["icbmEuroToken"] = IcbmState.euroToken
            /\ mem["icbmEuroLock"] = IcbmState.euroLock
      <4>1. CASE step = 2 /\ config.commitment = Zero
        <5>1. DeployedBefore("commitment")
          BY <1>1, <4>1 DEF DeployedBefore, Place, LengthOf, Skipped, ShouldSkipStep
        <5> QED
          BY <4>1, <5>1 DEF Structure, IcbmStage
      <4>2. CASE step # 2
        BY <1>1, <2>2, <4>2 DEF Structure, IcbmStage, StepSet
      <4> QED
        BY <4>1, <4>2
    <3>3. step' > 9 => /\ mem["universe"] # Zero /\ Ready(UniverseState)
                       /\ UniverseState.policy = IcbmState.policy <=> ~config.isolated
      <4> HIDE DEF Ready, UniverseState, IcbmState
      <4> QED
        BY <1>1, <1>6, <2>2 DEF Structure, ReadyStage, StepSet
    <3>4. step' > 12 => UniverseState.singletons["feeDisbursal"] \in OnChain
      BY <1>1, <1>7, <2>2 DEF Structure, ReadyStage, StepSet
    <3>5. Ready(UniverseState)' <=> Ready(UniverseState)
      BY <1>2 DEF Ready
    <3>6. Artifacts(saved)'
      BY <1>3 DEF ArtifactsOK
    <3> HIDE DEF Ready, UniverseState, IcbmState
    <3> QED
      BY <1>1, <1>2, <2>1, <3>1, <3>2, <3>3, <3>4, <3>5, <3>6 DEF Outset
  <2>6. ArtifactsOK' /\ MemOK' /\ IcbmStage' /\ PlatformStage' /\ ReadyStage'
    BY <2>5, OutsetOK, PTL
  <2> QED
    BY <1>2, <2>3, <2>4, <2>6 DEF Structure
<1> QED
  BY <1>9, <1>10

\* A run that stopped lost the addresses of what its migration deployed.
LEMMA FailKeeps ==
    ASSUME Structure, Fail, budget' \in [crashes : 0 .. MaxCrashes, restarts : 0 .. MaxRestarts,
                                         revokes : 0 .. MaxRevokes]
    PROVE  Structure'
<1>1. /\ status' = "failed" /\ pc' = 0 /\ mem' = saved /\ interrupted' = interrupted \cup {step}
      /\ UNCHANGED <<network, config, contracts, access, amended, saved, step>>
  BY DEF Fail, chain
<1>2. step \in StepSet /\ config.isolated \in BOOLEAN
  BY DEF Structure, ControlOK, ConfigOK
<1>3. /\ AddressesOK' /\ ContractsOK' /\ LinksOK' /\ OnChain' = OnChain /\ AccessOK'
  <2>1. Policies' = Policies /\ AccessOK'
    BY <1>1 DEF Policies, Structure, AccessOK
  <2> QED
    BY <1>1, <2>1, ChainKept
<1>4. isLiveDeployment' = isLiveDeployment /\ Addr' = Addr
  BY <1>1, <1>3 DEF isLiveDeployment, Addr
<1>5. ControlOK'
  <2>1. Offset' \in {0, 1}
    BY <1>1, <1>2 DEF Offset
  <2>2. LengthOf(step)' \in Nat
    BY <1>1, <1>2, <2>1 DEF LengthOf, StepSet
  <2> QED
    BY <1>1, <1>2, <2>2 DEF Structure, ControlOK
<1>6. ConfigOK'
  BY <1>1, <1>4 DEF Structure, ConfigOK
<1>7. /\ step # 2 \/ config.commitment # Zero => saved["commitment"] # Zero
      /\ step # 2 => saved["commitment"] = mem["commitment"]
      /\ step \in 3 .. 6 => /\ saved["policy"] = mem["policy"]
                            /\ saved["neumark"] = mem["neumark"]
                            /\ saved["icbmEuroToken"] = mem["icbmEuroToken"]
                            /\ saved["icbmEuroLock"] = mem["icbmEuroLock"]
      /\ step > 9 => saved["universe"] = mem["universe"]
  BY OutsetOnDisk
<1>8. /\ step # 2 => IcbmState' = IcbmState
      /\ step > 9 => UniverseState' = UniverseState
  BY <1>1, <1>7 DEF IcbmState, UniverseState
<1>9. Outset'
  <2>1. step > 9 => /\ mem'["universe"] # Zero /\ Ready(UniverseState)'
                    /\ (UniverseState.policy = IcbmState.policy <=> ~config.isolated)'
    <3>1. step > 9 => /\ mem["universe"] # Zero /\ Ready(UniverseState)
                      /\ UniverseState.policy = IcbmState.policy <=> ~config.isolated
      BY DEF Structure, ReadyStage
    <3>2. step > 9 => (Ready(UniverseState)' <=> Ready(UniverseState))
      BY <1>2, <1>8 DEF Ready, StepSet
    <3> HIDE DEF Ready, UniverseState, IcbmState
    <3> QED
      BY <1>1, <1>2, <1>7, <1>8, <3>1, <3>2 DEF StepSet
  <2>2. step > 12 => UniverseState'.singletons["feeDisbursal"] \in OnChain'
    BY <1>2, <1>3, <1>8 DEF Structure, ReadyStage, StepSet
  <2>3. step \in 3 .. 6 /\ config.commitment = Zero =>
          /\ saved["policy"] = IcbmState'.policy /\ saved["neumark"] = IcbmState'.neumark
          /\ saved["icbmEuroToken"] = IcbmState'.euroToken
          /\ saved["icbmEuroLock"] = IcbmState'.euroLock
    <3>1. step \in 3 .. 6 => step # 2
      OBVIOUS
    <3> HIDE DEF IcbmState
    <3> QED
      BY <1>7, <1>8, <3>1 DEF Structure, IcbmStage
  <2>4. Artifacts(saved)'
    BY <1>1, <1>3, ArtifactsKept DEF Structure, ArtifactsOK, Artifacts, Addr, Is
  <2> HIDE DEF Ready, UniverseState, IcbmState
  <2> QED
    BY <1>1, <1>2, <1>7, <2>1, <2>2, <2>3, <2>4 DEF Outset
<1>10. ArtifactsOK' /\ MemOK' /\ IcbmStage' /\ PlatformStage' /\ ReadyStage'
  BY <1>9, OutsetOK, PTL
<1> QED
  BY <1>3, <1>5, <1>6, <1>10 DEF Structure

\* A transaction that reverts keeps the structure,
LEMMA RevertKeeps ==
    ASSUME Structure, Revert
    PROVE  Structure'
<1>1. Fail /\ budget' = budget
  BY DEF Revert
<1>2. budget' \in [crashes : 0 .. MaxCrashes, restarts : 0 .. MaxRestarts, revokes : 0 .. MaxRevokes]
  BY <1>1 DEF Structure, ControlOK
<1> QED
  BY <1>1, <1>2, FailKeeps

\* so does a crash,
LEMMA CrashKeeps ==
    ASSUME Structure, Crash
    PROVE  Structure'
<1>1. Fail /\ budget.crashes > 0 /\ budget' = [budget EXCEPT !.crashes = @ - 1]
  BY DEF Crash
<1>2. budget' \in [crashes : 0 .. MaxCrashes, restarts : 0 .. MaxRestarts, revokes : 0 .. MaxRevokes]
  BY <1>1, BoundsAssumption DEF Structure, ControlOK
<1> QED
  BY <1>1, <1>2, FailKeeps

\* Truffle goes on where it stopped, or starts anew before anything is configured.
LEMMA RestartIs ==
    ASSUME Structure, Restart
    PROVE  /\ status = "failed" /\ budget.restarts > 0 /\ status' = "running" /\ mem = saved
           /\ mem' = saved' /\ budget' = [budget EXCEPT !.restarts = @ - 1] /\ pc = 0
           /\ UNCHANGED <<network, config, contracts, access, amended, pc, interrupted>>
           /\ ~StartsAnew => isLiveDeployment /\ saved' = saved
           /\ ~StartsAnew => step' = IF step # 9 THEN step ELSE 2
           /\ StartsAnew => /\ saved' = [k \in Kinds |-> Zero] /\ step' = 2
                            /\ config.commitment = Zero /\ config.universe = Zero
                            /\ ~config.isolated /\ (isLiveDeployment => step = 4)
<1>1. /\ status = "failed" /\ budget.restarts > 0 /\ status' = "running"
      /\ step' = IF StartsAnew \/ step = 9 THEN 2 ELSE step
      /\ saved' = IF StartsAnew THEN [k \in Kinds |-> Zero] ELSE saved
      /\ mem' = saved' /\ budget' = [budget EXCEPT !.restarts = @ - 1]
      /\ UNCHANGED <<network, config, contracts, access, amended, pc, interrupted>>
  BY StepsInOrder DEF Restart, chain
<1>2. pc = 0 /\ mem = saved
  BY <1>1 DEF Structure, ControlOK
<1>3. ~StartsAnew => isLiveDeployment
  BY DEF StartsAnew
<1>4. StartsAnew => ~isLiveDeployment \/ (step = 4 /\ config.commitment = Zero)
  BY DEF StartsAnew, ShouldSkipStep
<1>5. StartsAnew => /\ config.commitment = Zero /\ config.universe = Zero
                    /\ ~config.isolated /\ (isLiveDeployment => step = 4)
  BY <1>4 DEF Structure, ConfigOK
<1> QED
  BY <1>1, <1>2, <1>3, <1>5

\* and so does the run after it.
LEMMA RestartKeeps ==
    ASSUME Structure, Restart
    PROVE  Structure'
<1>1. /\ status = "failed" /\ budget.restarts > 0 /\ status' = "running"
      /\ step' = IF ~StartsAnew /\ step # 9 THEN step ELSE 2
      /\ saved' = IF ~StartsAnew THEN saved ELSE [k \in Kinds |-> Zero]
      /\ mem' = saved' /\ budget' = [budget EXCEPT !.restarts = @ - 1]
      /\ UNCHANGED <<network, config, contracts, access, amended, pc, interrupted>>
  BY RestartIs
<1>2. /\ step \in StepSet /\ config.isolated \in BOOLEAN /\ pc = 0 /\ mem = saved
  BY <1>1 DEF Structure, ControlOK, ConfigOK
<1>3. /\ AddressesOK' /\ ContractsOK' /\ LinksOK' /\ OnChain' = OnChain /\ AccessOK'
      /\ (UNCHANGED mem => IcbmState' = IcbmState /\ UniverseState' = UniverseState)
  <2>1. Policies' = Policies /\ AccessOK'
    BY <1>1 DEF Policies, Structure, AccessOK
  <2> QED
    BY <1>1, <2>1, ChainKept
<1>4. isLiveDeployment' = isLiveDeployment /\ Addr' = Addr
  BY <1>1, <1>3 DEF isLiveDeployment, Addr
<1>5. step' \in StepSet /\ (step' # step => step' = 2)
  BY <1>1, <1>2 DEF StepSet
<1>6. ControlOK'
  <2>1. Offset' \in {0, 1}
    BY <1>1, <1>2 DEF Offset
  <2>2. LengthOf(step)' \in Nat
    BY <1>5, <2>1 DEF LengthOf, StepSet
  <2>3. budget' \in [crashes : 0 .. MaxCrashes, restarts : 0 .. MaxRestarts, revokes : 0 .. MaxRevokes]
    BY <1>1, BoundsAssumption DEF Structure, ControlOK
  <2> QED
    BY <1>1, <1>2, <1>5, <2>2, <2>3 DEF Structure, ControlOK
<1>7. CASE ~StartsAnew
  <2>1. saved' = saved /\ mem' = mem /\ (step = 9 => step' = 2) /\ (step # 9 => step' = step)
    BY <1>1, <1>2, <1>7
  <2>2. ConfigOK'
    BY <1>1, <1>2, <1>4, <2>1 DEF Structure, ConfigOK, StepSet
  <2>3. IcbmState' = IcbmState /\ UniverseState' = UniverseState
    BY <1>3, <2>1
  <2>4. Outset'
    <3>1. Artifacts(saved)'
      BY <1>3, <2>1 DEF Structure, ArtifactsOK, Artifacts, Addr, Is
    <3>2. Ready(UniverseState)' <=> Ready(UniverseState)
      BY <2>3 DEF Ready
    <3>3. step' # 2 \/ config.commitment # Zero => mem["commitment"] # Zero
      BY <2>1 DEF Structure, IcbmStage
    <3>4. step' \in 3 .. 6 /\ config.commitment = Zero =>
            /\ mem["policy"] = IcbmState.policy /\ mem["neumark"] = IcbmState.neumark
            /\ mem["icbmEuroToken"] = IcbmState.euroToken
            /\ mem["icbmEuroLock"] = IcbmState.euroLock
      BY <2>1 DEF Structure, IcbmStage
    <3>5. step' > 9 => step > 9
      BY <1>2, <2>1 DEF StepSet
    <3>6. step' > 12 => step > 12
      BY <1>2, <2>1 DEF StepSet
    <3>7. step' > 9 => /\ mem["universe"] # Zero /\ Ready(UniverseState)
                       /\ UniverseState.policy = IcbmState.policy <=> ~config.isolated
      BY <3>5 DEF Structure, ReadyStage
    <3>8. step' > 12 => UniverseState.singletons["feeDisbursal"] \in OnChain
      BY <3>6 DEF Structure, ReadyStage
    <3> HIDE DEF Ready, UniverseState, IcbmState
    <3> QED
      BY <1>1, <1>2, <1>3, <1>5, <2>1, <2>3, <3>1, <3>2, <3>3, <3>4, <3>7, <3>8 DEF Outset
  <2>5. ArtifactsOK' /\ MemOK' /\ IcbmStage' /\ PlatformStage' /\ ReadyStage'
    BY <2>4, OutsetOK, PTL
  <2> QED
    BY <1>3, <1>6, <2>2, <2>5 DEF Structure
<1>8. CASE StartsAnew
  <2>1. saved' = [k \in Kinds |-> Zero] /\ mem' = saved' /\ step' = 2
    BY <1>1, <1>8
  <2>2. config.commitment = Zero /\ config.universe = Zero /\ ~config.isolated
    BY <1>8, RestartIs
  <2>3. ConfigOK'
    BY <1>1, <1>4, <1>8, <2>1, <2>2 DEF Structure, ConfigOK
  <2>4. Outset'
    <3>1. Artifacts(saved)'
      BY <2>1 DEF Artifacts, Addr
    <3> QED
      BY <1>1, <1>2, <2>1, <2>2, <3>1 DEF Outset, StepSet
  <2>5. ArtifactsOK' /\ MemOK' /\ IcbmStage' /\ PlatformStage' /\ ReadyStage'
    BY <2>4, OutsetOK, PTL
  <2> QED
    BY <1>3, <1>6, <2>3, <2>5 DEF Structure
<1> QED
  BY <1>7, <1>8

-----------------------------------------------------------------------------
(* The operator and the holders of the keys *)

\* What does not concern the process leaves the stage where it is.
LEMMA StandsStill ==
    ASSUME Structure, UNCHANGED <<network, config, saved, mem, step, pc, status, interrupted>>,
           OnChain' = OnChain, Keeps,
           \A a \in OnChain : a[1] = "universe" => contracts'[a].singletons = contracts[a].singletons,
           budget' \in [crashes : 0 .. MaxCrashes, restarts : 0 .. MaxRestarts,
                        revokes : 0 .. MaxRevokes]
    PROVE  /\ ArtifactsOK' /\ ControlOK' /\ ConfigOK' /\ MemOK' /\ IcbmStage' /\ PlatformStage'
           /\ ReadyStage'
<1>1. /\ isLiveDeployment' = isLiveDeployment /\ Skipped' = Skipped /\ Addr' = Addr
      /\ Offset' = Offset /\ LengthOf(step)' = LengthOf(step)
  BY DEF isLiveDeployment, Skipped, ShouldSkipStep, Addr, Offset, LengthOf
<1>2. \A k : DeployedBefore(k)' <=> DeployedBefore(k)
  <2>1. \A k : Place(k)' = Place(k)
    BY DEF Place, Offset
  <2> QED
    BY <1>1, <2>1 DEF DeployedBefore
<1>3. ArtifactsOK'
  BY ArtifactsKept DEF Structure
<1>4. ControlOK'
  BY <1>1 DEF Structure, ControlOK
<1>5. ConfigOK'
  BY <1>1 DEF Structure, ConfigOK
<1>6. MemOK'
  BY <1>2 DEF Structure, MemOK
<1>7. \A k \in Kinds : mem[k] # Zero =>
        /\ mem[k] \in OnChain /\ contracts'[mem[k]].policy = contracts[mem[k]].policy
  BY DEF Structure, ArtifactsOK, Artifacts, Is, Keeps
<1>8. step # 2 \/ config.commitment # Zero \/ DeployedBefore("commitment") => IcbmState' = IcbmState
  <2>1. DeployedBefore("commitment") => mem["commitment"] # Zero
    BY KindsAre DEF Structure, MemOK
  <2>2. step # 2 \/ config.commitment # Zero => mem["commitment"] # Zero
    BY DEF Structure, IcbmStage
  <2>3. mem["commitment"] # Zero => Is(mem["commitment"], "commitment")
    BY KindsAre DEF Structure, ArtifactsOK, Artifacts
  <2> QED
    BY <2>1, <2>2, <2>3 DEF IcbmState, Keeps, Is
<1>9. mem["universe"] # Zero => /\ UniverseState'.policy = UniverseState.policy
                               /\ UniverseState'.singletons = UniverseState.singletons
  <2>1. mem["universe"] # Zero => Is(mem["universe"], "universe")
    BY KindsAre DEF Structure, ArtifactsOK, Artifacts
  <2> QED
    BY <2>1 DEF UniverseState, Keeps, Is
<1>10. IcbmStage'
  <2>1. step = 2 => \A k \in IcbmKinds : DeployedBefore(k) => contracts'[mem[k]].policy = mem["policy"]
    <3>1. IcbmKinds \subseteq Kinds
      BY KindsAre DEF IcbmKinds
    <3> QED
      BY <1>7, <3>1 DEF Structure, IcbmStage, MemOK
  <2>2. step # 2 \/ config.commitment # Zero => mem["commitment"] # Zero
    BY DEF Structure, IcbmStage
  <2>3. (step = 2 /\ DeployedBefore("commitment")) \/ (step \in 3 .. 6 /\ config.commitment = Zero) =>
          /\ mem["policy"] = IcbmState'.policy /\ mem["neumark"] = IcbmState'.neumark
          /\ mem["icbmEuroToken"] = IcbmState'.euroToken
          /\ mem["icbmEuroLock"] = IcbmState'.euroLock
    <3>1. step \in 3 .. 6 => step # 2
      OBVIOUS
    <3> HIDE DEF IcbmState
    <3> QED
      BY <1>8, <3>1 DEF Structure, IcbmStage
  <2> HIDE DEF IcbmState
  <2> QED
    BY <1>2, <2>1, <2>2, <2>3 DEF IcbmStage
<1>11. PlatformStage'
  <2>1. ASSUME step \in {9, 12}, NEW k \in UnderPolicy, DeployedBefore(k)
        PROVE  /\ contracts'[mem[k]].policy = contracts[mem[k]].policy
               /\ mem["universe"] # Zero
    <3>1. k \in Kinds /\ UnderPolicy \subseteq Kinds
      BY KindsAre DEF UnderPolicy
    <3>2. mem[k] # Zero
      BY <2>1, <3>1 DEF Structure, MemOK
    <3>3. step = 9 => DeployedBefore("universe")
      BY <2>1 DEF UnderPolicy, DeployedBefore, Place, Offset, Structure, ControlOK
    <3>4. step = 12 => mem["universe"] # Zero
      BY DEF Structure, ReadyStage
    <3> QED
      BY <1>7, <2>1, <3>1, <3>2, <3>3, <3>4, KindsAre DEF Structure, MemOK
  <2>2. step = 9 /\ DeployedBefore("universe") => mem["universe"] # Zero
    BY KindsAre DEF Structure, MemOK
  <2>3. step = 9 /\ DeployedBefore("euroToken") =>
          contracts'[mem["euroToken"]] = contracts[mem["euroToken"]]
    <3>1. DeployedBefore("euroToken") => Is(mem["euroToken"], "euroToken")
      BY KindsAre DEF Structure, MemOK, ArtifactsOK, Artifacts
    <3> QED
      BY <3>1 DEF Keeps, Is
  <2>4. step = 9 => IcbmState' = IcbmState
    BY <1>8
  <2>5. "feeDisbursal" \in UnderPolicy
    BY DEF UnderPolicy
  <2>6. CASE step = 9
    <3>1. config.isolated /\ DeployedBefore("policy") => mem["policy"] # IcbmState'.policy
      BY <2>4, <2>6 DEF Structure, PlatformStage
    <3>2. DeployedBefore("universe") =>
            UniverseState'.policy = IF config.isolated THEN mem["policy"] ELSE IcbmState'.policy
      BY <1>9, <2>2, <2>4, <2>6 DEF Structure, PlatformStage
    <3>3. \A k \in UnderPolicy : DeployedBefore(k) => contracts'[mem[k]].policy = UniverseState'.policy
      BY <1>9, <2>1, <2>6 DEF Structure, PlatformStage
    <3>4. DeployedBefore("euroToken") =>
            contracts'[mem["euroToken"]].controller = mem["euroTokenController"]
      BY <2>3, <2>6 DEF Structure, PlatformStage
    <3> QED
      BY <1>2, <2>6, <3>1, <3>2, <3>3, <3>4 DEF PlatformStage
  <2>7. CASE step = 12
    BY <1>2, <1>9, <2>1, <2>5, <2>7 DEF Structure, PlatformStage
  <2>8. CASE step \notin {9, 12}
    BY <2>8 DEF PlatformStage
  <2> QED
    BY <2>6, <2>7, <2>8
<1>12. ReadyStage'
  <2>1. ASSUME step > 9 \/ (step = 9 /\ pc > 11 + Offset)
        PROVE  /\ mem["universe"] # Zero /\ Ready(UniverseState)'
               /\ UniverseState'.policy = IcbmState'.policy <=> ~config.isolated
    <3>1. /\ mem["universe"] # Zero /\ Ready(UniverseState)
          /\ UniverseState.policy = IcbmState.policy <=> ~config.isolated
      BY <2>1 DEF Structure, ReadyStage
    <3>2. IcbmState' = IcbmState
      BY <1>8, <2>1
    <3>3. Ready(UniverseState)'
      BY <1>9, <3>1, <3>2 DEF Ready
    <3> QED
      BY <1>9, <3>1, <3>2, <3>3
  <2>2. step > 12 \/ (step = 12 /\ pc > 4) => UniverseState'.singletons["feeDisbursal"] \in OnChain
    <3>1. step > 12 \/ (step = 12 /\ pc > 4) => mem["universe"] # Zero
      BY DEF Structure, ReadyStage, ControlOK, StepSet
    <3> QED
      BY <1>9, <3>1 DEF Structure, ReadyStage
  <2> QED
    BY <1>1, <2>1, <2>2 DEF ReadyStage
<1> QED
  BY <1>3, <1>4, <1>5, <1>6, <1>10, <1>11, <1>12

\* truffle.js names the commitment for the platform's first migration.
LEMMA ConfigureCommitmentKeeps ==
    ASSUME Structure, ConfigureCommitment
    PROVE  Structure'
<1>1. PICK isolated \in BOOLEAN :
        config' = [config EXCEPT !.commitment = saved["commitment"], !.isolated = isolated]
  BY DEF ConfigureCommitment
<1>2. /\ status = "failed" /\ isLiveDeployment /\ step = 9 /\ config.commitment = Zero
      /\ UNCHANGED <<network, contracts, access, amended, saved, step, pc, status, interrupted, mem,
                     budget>>
  BY DEF ConfigureCommitment, chain, control
<1>3. pc = 0 /\ mem = saved /\ config.universe = Zero
  BY <1>2 DEF Structure, ControlOK, ConfigOK
<1>4. /\ saved["commitment"] # Zero /\ saved["commitment"] = mem["commitment"]
      /\ saved["commitment"] \in Addr
  BY <1>2, OutsetOnDisk, KindsAre DEF Structure, ArtifactsOK, Artifacts
<1>5. config \in [commitment : Addr, universe : Addr, isolated : BOOLEAN]
  BY DEF Structure, ConfigOK
<1>6. /\ config'.commitment = saved["commitment"] /\ config'.universe = Zero
      /\ config'.isolated \in BOOLEAN
      /\ config' \in [commitment : Addr, universe : Addr, isolated : BOOLEAN]
  BY <1>1, <1>3, <1>4, <1>5
<1>7. /\ AddressesOK' /\ ContractsOK' /\ LinksOK' /\ OnChain' = OnChain /\ AccessOK'
  <2>1. Policies' = Policies /\ AccessOK'
    BY <1>2 DEF Policies, Structure, AccessOK
  <2> QED
    BY <1>2, <1>3, <2>1, ChainKept
<1>8. isLiveDeployment' = isLiveDeployment /\ Addr' = Addr
  BY <1>2, <1>7 DEF isLiveDeployment, Addr
<1>9. ControlOK'
  <2>1. Offset' \in {0, 1}
    BY <1>6 DEF Offset
  <2>2. LengthOf(step)' \in Nat
    BY <1>2, <2>1 DEF LengthOf
  <2> QED
    BY <1>2, <1>3, <2>2 DEF Structure, ControlOK, Skipped, ShouldSkipStep
<1>10. ConfigOK'
  BY <1>2, <1>3, <1>4, <1>6, <1>8 DEF ConfigOK
<1>11. Outset'
  <2>1. Artifacts(saved)'
    BY <1>2, <1>7 DEF Structure, ArtifactsOK, Artifacts, Addr, Is
  <2> HIDE DEF Ready, UniverseState, IcbmState
  <2> QED
    BY <1>2, <1>3, <1>4, <2>1 DEF Outset, StepSet
<1>12. ArtifactsOK' /\ MemOK' /\ IcbmStage' /\ PlatformStage' /\ ReadyStage'
  BY <1>11, OutsetOK, PTL
<1> QED
  BY <1>7, <1>9, <1>10, <1>12 DEF Structure

\* truffle.js names the universe for the migration of the fee disbursal.
LEMMA ConfigureUniverseKeeps ==
    ASSUME Structure, ConfigureUniverse
    PROVE  Structure'
<1>1. /\ status = "failed" /\ isLiveDeployment /\ step = 12 /\ config.universe = Zero
      /\ config' = [config EXCEPT !.universe = saved["universe"]]
      /\ UNCHANGED <<network, contracts, access, amended, saved, step, pc, status, interrupted, mem,
                     budget>>
  BY DEF ConfigureUniverse, chain, control
<1>2. pc = 0 /\ mem = saved
  BY <1>1 DEF Structure, ControlOK
<1>3. saved["universe"] = mem["universe"] /\ mem["universe"] # Zero /\ saved["universe"] \in Addr
  BY <1>1, OutsetOnDisk, KindsAre DEF Structure, ReadyStage, ArtifactsOK, Artifacts
<1>4. config \in [commitment : Addr, universe : Addr, isolated : BOOLEAN]
  BY DEF Structure, ConfigOK
<1>5. /\ config'.universe = saved["universe"] /\ config'.commitment = config.commitment
      /\ config'.isolated = config.isolated
      /\ config' \in [commitment : Addr, universe : Addr, isolated : BOOLEAN]
  BY <1>1, <1>3, <1>4
<1>6. /\ AddressesOK' /\ ContractsOK' /\ LinksOK' /\ OnChain' = OnChain /\ AccessOK'
      /\ IcbmState' = IcbmState /\ UniverseState' = UniverseState
  <2>1. Policies' = Policies /\ AccessOK'
    BY <1>1 DEF Policies, Structure, AccessOK
  <2> QED
    BY <1>1, <2>1, ChainKept
<1>7. isLiveDeployment' = isLiveDeployment /\ Addr' = Addr
  BY <1>1, <1>6 DEF isLiveDeployment, Addr
<1>8. ControlOK'
  <2>1. Offset' \in {0, 1}
    BY <1>5 DEF Offset
  <2>2. LengthOf(step)' \in Nat
    BY <1>1, <2>1 DEF LengthOf
  <2> QED
    BY <1>1, <1>2, <2>2 DEF Structure, ControlOK, Skipped, ShouldSkipStep
<1>9. ConfigOK'
  BY <1>1, <1>2, <1>5, <1>7 DEF Structure, ConfigOK
<1>10. Outset'
  <2>1. Artifacts(saved)'
    BY <1>1, <1>6 DEF Structure, ArtifactsOK, Artifacts, Addr, Is
  <2>2. Ready(UniverseState)' <=> Ready(UniverseState)
    BY <1>6 DEF Ready
  <2>3. /\ mem["universe"] # Zero /\ Ready(UniverseState)
        /\ UniverseState.policy = IcbmState.policy <=> ~config.isolated
    BY <1>1 DEF Structure, ReadyStage
  <2>4. mem["commitment"] # Zero
    BY <1>1 DEF Structure, IcbmStage
  <2> HIDE DEF Ready, UniverseState, IcbmState
  <2> QED
    BY <1>1, <1>2, <1>5, <1>6, <2>1, <2>2, <2>3, <2>4 DEF Outset, StepSet
<1>11. ArtifactsOK' /\ MemOK' /\ IcbmStage' /\ PlatformStage' /\ ReadyStage'
  BY <1>10, OutsetOK, PTL
<1> QED
  BY <1>6, <1>8, <1>9, <1>11 DEF Structure

\* What is behind: the migrations of a lower number.
LEMMA PastIs ==
    ASSUME Structure, NEW n \in StepSet, n # 201
    PROVE  Past(n) <=> step > n
<1>1. step \in StepSet /\ (status = "done" => step = 201)
  BY DEF Structure, ControlOK
<1>2. Position(step) > Position(n) <=> step > n
  BY <1>1, StepsInOrder
<1>3. 201 > n
  BY DEF StepSet
<1> QED
  BY <1>1, <1>2, <1>3 DEF Past

\* The access controller changes one right of the deployer on the policy of the ICBM.
DeployerKey == <<DEPLOYER, "accessController", IcbmState.policy>>

\* What the access controller does.
LEMMA ControllerActs ==
    ASSUME Structure, NEW state \in {"Allow", "Unset"}, ByAccessController(state)
    PROVE  /\ isLiveDeployment /\ step > 6 /\ IcbmPolicy = IcbmState.policy
           /\ IcbmState.policy \in Policies
           /\ access' = [access EXCEPT ![IcbmState.policy] =
                           Allowing(IF state = "Allow" THEN DOMAIN @ \cup {DeployerKey}
                                    ELSE DOMAIN @ \ {DeployerKey})]
           /\ UNCHANGED <<network, config, contracts, amended, saved, step, pc, status, interrupted,
                          mem>>
<1>1. isLiveDeployment /\ step > 6
  BY PastIs DEF ByAccessController, StepSet
<1>2. step # 2
  BY <1>1
<1>3. IcbmPolicy = IcbmState.policy /\ IcbmState.policy \in Policies
  BY <1>2, IcbmInUse DEF IcbmPolicy, IcbmState
<1> DEFINE P == access[IcbmState.policy]
           rule == [subject |-> DEPLOYER, role |-> "accessController", object |-> IcbmPolicy,
                    state |-> state]
<1>4. P = Allowing(DOMAIN P)
  BY <1>3 DEF Structure, AccessOK, AllowsOnly, Allowing
<1>5. access' = [access EXCEPT ![IcbmState.policy] = SetUserRole(P, rule)]
  BY <1>3 DEF ByAccessController
<1>6. /\ state = "Allow" => SetUserRole(P, rule) = Allowing(DOMAIN P \cup {DeployerKey})
      /\ state = "Unset" => SetUserRole(P, rule) = Allowing(DOMAIN P \ {DeployerKey})
  <2>1. DeployerKey = <<rule.subject, rule.role, rule.object>>
    BY <1>3 DEF DeployerKey
  <2> HIDE DEF P
  <2>2. \A k \in DOMAIN P : P[k] = "Allow"
    BY <1>4 DEF Allowing
  <2> QED
    BY <2>1, <2>2 DEF SetUserRole, Allowing
<1>7. UNCHANGED <<network, config, contracts, amended, saved, step, pc, status, interrupted, mem>>
  BY DEF ByAccessController, control
<1> QED
  BY <1>1, <1>3, <1>5, <1>6, <1>7

\* It keeps the structure,
LEMMA ControllerActsKeeps ==
    ASSUME Structure, NEW state \in {"Allow", "Unset"}, ByAccessController(state),
           budget' \in [crashes : 0 .. MaxCrashes, restarts : 0 .. MaxRestarts,
                        revokes : 0 .. MaxRevokes]
    PROVE  Structure'
<1> DEFINE p == IcbmState.policy
           keys == IF state = "Allow" THEN DOMAIN access[p] \cup {DeployerKey}
                   ELSE DOMAIN access[p] \ {DeployerKey}
<1>1. /\ p \in Policies /\ access' = [access EXCEPT ![p] = Allowing(keys)]
      /\ UNCHANGED <<network, config, contracts, amended, saved, step, pc, status, interrupted, mem>>
  BY ControllerActs
<1> HIDE DEF p, keys
<1>2. Policies' = Policies
  BY <1>1 DEF Policies
<1>3. AccessOK'
  <2>1. AllowsOnly(Allowing(keys))
    BY DEF AllowsOnly, Allowing
  <2> QED
    BY <1>1, <1>2, <2>1 DEF Structure, AccessOK, Policies
<1>4. AddressesOK' /\ ContractsOK' /\ LinksOK' /\ OnChain' = OnChain
  BY <1>1, <1>2, <1>3, ChainKept
<1>5. Keeps /\ \A a \in OnChain : KeepsLinks(a)
  BY <1>1, <1>2, <1>4 DEF Keeps, KeepsLinks
<1> QED
  BY <1>1, <1>3, <1>4, <1>5, StandsStill DEF Structure, KeepsLinks

\* when the right is taken
LEMMA RevokeKeeps ==
    ASSUME Structure, RevokeDeployer
    PROVE  Structure'
<1>1. /\ budget.revokes > 0 /\ ByAccessController("Unset")
      /\ budget' = [budget EXCEPT !.revokes = @ - 1]
  BY DEF RevokeDeployer
<1>2. budget' \in [crashes : 0 .. MaxCrashes, restarts : 0 .. MaxRestarts, revokes : 0 .. MaxRevokes]
  BY <1>1, BoundsAssumption DEF Structure, ControlOK
<1> QED
  BY <1>1, <1>2, ControllerActsKeeps

\* and when it is given back.
LEMMA ReinstateKeeps ==
    ASSUME Structure, ReinstateDeployer
    PROVE  Structure'
<1>1. ByAccessController("Allow") /\ budget' = budget
  BY DEF ReinstateDeployer
<1>2. budget' \in [crashes : 0 .. MaxCrashes, restarts : 0 .. MaxRestarts, revokes : 0 .. MaxRevokes]
  BY <1>1 DEF Structure, ControlOK
<1> QED
  BY <1>1, <1>2, ControllerActsKeeps

\* What is done by hand concerns the two locks of the ICBM and its euro token.
LEMMA ByHand ==
    ASSUME Structure, FinishByHand
    PROVE  /\ isLiveDeployment /\ status # "running" /\ config.universe # Zero /\ step >= 12
           /\ Is(IcbmState.euroLock, "icbmEuroLock") /\ Is(IcbmState.etherLock, "icbmEtherLock")
           /\ Is(IcbmState.euroToken, "icbmEuroToken")
           /\ Is(SingletonOf("euroLock"), "euroLock") /\ Is(SingletonOf("etherLock"), "etherLock")
           /\ contracts' = [a \in OnChain |->
                CASE a = IcbmState.euroLock ->
                       [contracts[a] EXCEPT !.target = SingletonOf("euroLock")]
                  [] a = IcbmState.etherLock ->
                       [contracts[a] EXCEPT !.target = SingletonOf("etherLock")]
                  [] a = IcbmState.euroToken ->
                       [contracts[a] EXCEPT !.from = @ \cup {SingletonOf("euroLock")},
                                            !.to = @ \cup {SingletonOf("euroLock")}]
                  [] OTHER -> contracts[a]]
           /\ amended' \subseteq OnChain
           /\ UNCHANGED <<network, config, access, saved, step, pc, status, interrupted, mem, budget>>
<1>1. isLiveDeployment /\ status # "running" /\ config.universe # Zero
  BY DEF FinishByHand
<1>2. step >= 12 /\ step > 9 /\ step \in StepSet /\ step >= 9
  BY <1>1 DEF Structure, ConfigOK, ControlOK, StepSet
<1>3. \A name \in DOMAIN FieldOf : /\ SingletonOf(name) = IcbmState[FieldOf[name]]
                                   /\ Is(SingletonOf(name), name)
  BY <1>2, UniverseIsReady
<1>4. /\ SingletonOf("icbmEuroLock") = IcbmState.euroLock
      /\ SingletonOf("icbmEtherLock") = IcbmState.etherLock
      /\ SingletonOf("icbmEuroToken") = IcbmState.euroToken
      /\ Is(IcbmState.euroLock, "icbmEuroLock") /\ Is(IcbmState.etherLock, "icbmEtherLock")
      /\ Is(IcbmState.euroToken, "icbmEuroToken") /\ Is(SingletonOf("neumark"), "neumark")
  BY <1>3, NamesKnown DEF FieldOf
<1>5. /\ Is(SingletonOf("euroLock"), "euroLock") /\ Is(SingletonOf("etherLock"), "etherLock")
      /\ Is(SingletonOf("euroToken"), "euroToken") /\ Is(UniverseInUse, "universe")
  <2>1. mem["universe"] # Zero /\ Ready(UniverseState)
    BY <1>2 DEF Structure, ReadyStage
  <2>2. /\ LinkedUniverse(UniverseState) /\ UniverseInUse = mem["universe"]
        /\ Is(mem["universe"], "universe")
        /\ \A name : SingletonOf(name) = UniverseState.singletons[name]
    BY <1>2, <2>1, UniverseIsKnown
  <2>3. \A name \in {"euroLock", "etherLock", "euroToken"} :
          name \in SingletonNames \ {"votingCenter"} /\ KindOf(name) = name
    BY NamesKnown DEF UnderPolicy
  <2>4. \A name \in {"euroLock", "etherLock", "euroToken"} : Is(SingletonOf(name), name)
    BY <2>1, <2>2, <2>3 DEF Ready, LinkedUniverse, SingletonOK
  <2> QED
    BY <2>2, <2>4
<1>6. amended' \subseteq OnChain
  BY <1>4, <1>5 DEF FinishByHand, Structure, AddressesOK, Is
<1> DEFINE l == IcbmState.euroLock
           e == IcbmState.etherLock
           t == IcbmState.euroToken
           L == SingletonOf("euroLock")
           E == SingletonOf("etherLock")
<1>7. l # e /\ l # t /\ e # t /\ l \in OnChain /\ e \in OnChain /\ t \in OnChain
  BY <1>4 DEF Is
<1>8. contracts' = [contracts EXCEPT ![l].target = L, ![e].target = E,
                                     ![t].from = @ \cup {L}, ![t].to = @ \cup {L}]
  BY <1>4 DEF FinishByHand
<1>9. UNCHANGED <<network, config, access, saved, step, pc, status, interrupted, mem, budget>>
  BY DEF FinishByHand, control
<1> HIDE DEF l, e, t, L, E
<1>10. contracts' = [a \in OnChain |->
                CASE a = l -> [contracts[a] EXCEPT !.target = L]
                  [] a = e -> [contracts[a] EXCEPT !.target = E]
                  [] a = t -> [contracts[a] EXCEPT !.from = @ \cup {L}, !.to = @ \cup {L}]
                  [] OTHER -> contracts[a]]
  BY <1>7, <1>8 DEF OnChain
<1> QED
  BY <1>1, <1>2, <1>4, <1>5, <1>6, <1>9, <1>10 DEF l, e, t, L, E

\* This keeps the structure.
LEMMA ByHandKeeps ==
    ASSUME Structure, FinishByHand
    PROVE  Structure'
<1> DEFINE l == IcbmState.euroLock
           e == IcbmState.etherLock
           t == IcbmState.euroToken
           L == SingletonOf("euroLock")
           E == SingletonOf("etherLock")
<1>1. /\ config.universe # Zero /\ Is(l, "icbmEuroLock") /\ Is(e, "icbmEtherLock")
      /\ Is(t, "icbmEuroToken") /\ Is(L, "euroLock") /\ Is(E, "etherLock")
      /\ amended' \subseteq OnChain
      /\ UNCHANGED <<network, config, access, saved, step, pc, status, interrupted, mem, budget>>
  BY ByHand
<1>2. contracts' = [a \in OnChain |->
                CASE a = l -> [contracts[a] EXCEPT !.target = L]
                  [] a = e -> [contracts[a] EXCEPT !.target = E]
                  [] a = t -> [contracts[a] EXCEPT !.from = @ \cup {L}, !.to = @ \cup {L}]
                  [] OTHER -> contracts[a]]
  BY ByHand
<1> HIDE DEF l, e, t, L, E
<1>3. OnChain' = OnChain
  BY <1>2 DEF OnChain
<1>4. Policies' = Policies /\ AccessOK'
  BY <1>1 DEF Policies, Structure, AccessOK
<1>5. AddressesOK'
  BY <1>1, <1>3, <1>4, AddressesKept DEF Structure
<1>6. /\ contracts'[l] = [contracts[l] EXCEPT !.target = L]
      /\ contracts'[e] = [contracts[e] EXCEPT !.target = E]
      /\ contracts'[t] = [contracts[t] EXCEPT !.from = @ \cup {L}, !.to = @ \cup {L}]
      /\ \A a \in OnChain \ {l, e, t} : contracts'[a] = contracts[a]
  BY <1>1, <1>2 DEF Is
<1>7. /\ contracts[l] \in LockShape(OnChain, Policies) /\ contracts[e] \in LockShape(OnChain, Policies)
      /\ contracts[t] \in TokenShape(OnChain, Policies)
  BY <1>1 DEF Structure, ContractsOK, Shape, Is
<1>8. /\ contracts'[l] \in LockShape(OnChain, Policies) /\ contracts'[e] \in LockShape(OnChain, Policies)
      /\ contracts'[l].policy = contracts[l].policy /\ contracts'[e].policy = contracts[e].policy
  BY <1>1, <1>6, <1>7 DEF LockShape, Is
<1>9. /\ contracts'[t] \in TokenShape(OnChain, Policies)
      /\ contracts'[t].policy = contracts[t].policy
  <2> DEFINE q == [contracts[t] EXCEPT !.from = @ \cup {L}, !.to = @ \cup {L}]
  <2>1. q \in TokenShape(OnChain, Policies) /\ q.policy = contracts[t].policy
    <3>1. L \in OnChain
      BY <1>1 DEF Is
    <3> QED
      BY <1>7, <3>1 DEF TokenShape
  <2> QED
    BY <1>6, <2>1
<1>10. ContractsOK'
  <2> SUFFICES ASSUME NEW a \in OnChain PROVE contracts'[a] \in Shape(a[1], OnChain, Policies)
    BY <1>3, <1>4 DEF ContractsOK
  <2>1. CASE a = l
    BY <1>1, <1>8, <2>1 DEF Shape, Is
  <2>2. CASE a = e
    BY <1>1, <1>8, <2>2 DEF Shape, Is
  <2>3. CASE a = t
    BY <1>1, <1>9, <2>3 DEF Shape, Is
  <2>4. CASE a \notin {l, e, t}
    BY <1>6, <2>4 DEF Structure, ContractsOK
  <2> QED
    BY <2>1, <2>2, <2>3, <2>4
<1>11. Keeps
  BY <1>1, <1>3, <1>4, <1>6, <1>8, <1>9 DEF Keeps, Is
<1>12. \A a \in OnChain \ {l, e} : KeepsLinks(a)
  BY <1>1, <1>6 DEF KeepsLinks, Is, Locks
<1>13. LinksOK'
  <2> SUFFICES ASSUME NEW a \in OnChain PROVE Linked(a)'
    BY <1>3 DEF LinksOK
  <2>1. CASE a \in {l, e}
    BY <1>1, <2>1 DEF Linked, Is, Locks
  <2>2. CASE a \notin {l, e}
    BY <1>1, <1>5, <1>11, <1>12, <2>2, LinkedKept DEF Structure
  <2> QED
    BY <2>1, <2>2
<1>14. /\ ArtifactsOK' /\ ControlOK' /\ ConfigOK' /\ MemOK' /\ IcbmStage' /\ PlatformStage'
       /\ ReadyStage'
  <2>1. \A a \in OnChain : a[1] = "universe" => contracts'[a].singletons = contracts[a].singletons
    BY <1>1, <1>6 DEF Is
  <2>2. budget' \in [crashes : 0 .. MaxCrashes, restarts : 0 .. MaxRestarts,
                     revokes : 0 .. MaxRevokes]
    BY <1>1 DEF Structure, ControlOK
  <2> QED
    BY <1>1, <1>3, <1>11, <2>1, <2>2, StandsStill
<1> QED
  BY <1>4, <1>5, <1>10, <1>13, <1>14 DEF Structure

-----------------------------------------------------------------------------
(* The structure is invariant *)

\* The empty chain has the structure.
LEMMA InitHasStructure ==
    ASSUME Init
    PROVE  Structure
<1>1. /\ network \in Networks /\ contracts = << >> /\ access = << >> /\ amended = {}
      /\ config = [commitment |-> Zero, universe |-> Zero, isolated |-> FALSE]
      /\ saved = [k \in Kinds |-> Zero] /\ mem = saved /\ step = 2 /\ pc = 0
      /\ status = "running" /\ interrupted = {}
      /\ budget = [crashes |-> MaxCrashes, restarts |-> MaxRestarts, revokes |-> MaxRevokes]
  BY StepsInOrder DEF Init
<1>2. OnChain = {} /\ Policies = {}
  BY <1>1 DEF OnChain, Policies
<1>3. AddressesOK /\ AccessOK /\ ContractsOK /\ LinksOK
  BY <1>1, <1>2, FS_EmptySet DEF AddressesOK, AccessOK, ContractsOK, LinksOK, OfKind
<1>4. ControlOK
  <2>1. LengthOf(step) = 8 /\ ~Skipped
    BY <1>1 DEF LengthOf, Skipped, ShouldSkipStep
  <2>2. budget \in [crashes : 0 .. MaxCrashes, restarts : 0 .. MaxRestarts,
                    revokes : 0 .. MaxRevokes]
    BY <1>1, BoundsAssumption
  <2> QED
    BY <1>1, <2>1, <2>2 DEF ControlOK, StepSet
<1>5. ConfigOK
  BY <1>1 DEF ConfigOK, Addr
<1>6. Outset
  BY <1>1 DEF Outset, Artifacts, Addr, StepSet
<1> QED
  BY <1>3, <1>4, <1>5, <1>6, OutsetOK DEF Structure

\* Nothing happens.
LEMMA StutterKeeps ==
    ASSUME Structure, UNCHANGED vars
    PROVE  Structure'
<1>1. /\ Policies' = Policies /\ AccessOK'
  BY DEF vars, Policies, Structure, AccessOK
<1>2. AddressesOK' /\ ContractsOK' /\ LinksOK' /\ OnChain' = OnChain
  BY <1>1, ChainKept DEF vars
<1>3. Keeps /\ \A a \in OnChain : KeepsLinks(a)
  BY <1>1, <1>2 DEF vars, Keeps, KeepsLinks
<1>4. /\ ArtifactsOK' /\ ControlOK' /\ ConfigOK' /\ MemOK' /\ IcbmStage' /\ PlatformStage'
      /\ ReadyStage'
  <2>1. budget' \in [crashes : 0 .. MaxCrashes, restarts : 0 .. MaxRestarts,
                     revokes : 0 .. MaxRevokes]
    BY DEF vars, Structure, ControlOK
  <2> QED
    BY <1>2, <1>3, <2>1, StandsStill DEF vars, KeepsLinks
<1> QED
  BY <1>1, <1>2, <1>4 DEF Structure

\* Every step of the deployment keeps the structure.
LEMMA StructureIsInductive ==
    ASSUME Structure, [Next]_vars
    PROVE  Structure'
<1>1. CASE Runs
  <2>1. CASE Begin
    BY <2>1, BeginKeeps
  <2>2. CASE Transaction
    <3>1. CASE DeployContract
      BY <3>1, DeployKeeps
    <3>2. CASE SetRoles
      BY <3>2, SetRolesKeeps
    <3>3. CASE SetManySingletons
      BY <3>3, SingletonsKeep
    <3>4. CASE SetCollectionsInterfaces
      BY <3>4, CollectionsKeep
    <3>5. CASE SetController
      BY <3>5, ControllerKeeps
    <3>6. CASE SetPenaltyDisbursal
      BY <3>6, PenaltyKeeps
    <3>7. CASE SetAllowedTransferFrom
      BY <3>7, AllowFromKeeps
    <3>8. CASE SetAllowedTransferTo
      BY <3>8, AllowToKeeps
    <3>9. CASE ApplySettings
      BY <3>9, SettingsKeep
    <3>10. CASE ApplyFeeSettings
      BY <3>10, FeeSettingsKeep
    <3>11. CASE ChangeDepositManager
      BY <3>11, ManagerKeeps
    <3>12. CASE ChangeFeeDisbursalController
      BY <3>12, DisbursalKeeps
    <3>13. CASE AmendAgreement
      BY <3>13, AmendKeeps
    <3> QED
      BY <2>2, <3>1, <3>2, <3>3, <3>4, <3>5, <3>6, <3>7, <3>8, <3>9, <3>10, <3>11, <3>12, <3>13
         DEF Transaction
  <2>3. CASE Finish
    BY <2>3, FinishKeeps
  <2>4. CASE Revert
    BY <2>4, RevertKeeps
  <2> QED
    BY <1>1, <2>1, <2>2, <2>3, <2>4 DEF Runs
<1>2. CASE Crash
  BY <1>2, CrashKeeps
<1>3. CASE Restart
  BY <1>3, RestartKeeps
<1>4. CASE Configures
  BY <1>4, ConfigureCommitmentKeeps, ConfigureUniverseKeeps DEF Configures
<1>5. CASE KeyHolders
  BY <1>5, RevokeKeeps, ReinstateKeeps, ByHandKeeps DEF KeyHolders
<1>6. CASE UNCHANGED vars
  BY <1>6, StutterKeeps
<1> QED
  BY <1>1, <1>2, <1>3, <1>4, <1>5, <1>6 DEF Next

\* The structure always holds.
LEMMA StructureHolds == Spec => []Structure
<1>1. Init => Structure
  BY InitHasStructure
<1>2. Structure /\ [Next]_vars => Structure'
  BY StructureIsInductive
<1> QED
  BY <1>1, <1>2, PTL DEF Spec

\* The types of the deployment: artifacts and configuration refer to contracts of the chain,
\* every contract to a policy of it, and the migration that runs is at one of its places.
THEOREM TypesHold == Spec => []TypeOK
<1>1. Structure => TypeOK
  <2> SUFFICES ASSUME Structure PROVE TypeOK
    OBVIOUS
  <2>1. /\ network \in Networks /\ config.isolated \in BOOLEAN
        /\ {config.commitment, config.universe} \subseteq OnChain \cup {Zero}
    BY DEF Structure, ControlOK, ConfigOK, Addr
  <2>2. \A a \in OnChain : contracts[a].policy \in Policies \cup {Zero}
    BY PolicyOf DEF Structure, ContractsOK
  <2>3. \A p \in Policies : Range(access[p]) \subseteq {"Allow", "Deny"}
    <3> SUFFICES ASSUME NEW p \in Policies, NEW k \in DOMAIN access[p]
                 PROVE  access[p][k] \in {"Allow", "Deny"}
      BY DEF Range
    <3>1. AllowsOnly(access[p])
      BY DEF Structure, AccessOK
    <3> QED
      BY <3>1 DEF AllowsOnly
  <2>4. amended \subseteq OnChain /\ {saved, mem} \subseteq [Kinds -> OnChain \cup {Zero}]
    BY DEF Structure, AddressesOK, ArtifactsOK, Artifacts, Addr
  <2>5. step \in Range(Steps) /\ interrupted \subseteq Range(Steps)
    BY StepsInOrder DEF Structure, ControlOK
  <2>6. pc \in 0 .. Len(Migration(step)) + 1
    BY <2>1, Lengths DEF Structure, ControlOK
  <2>7. /\ status \in {"running", "failed", "done"}
        /\ budget \in [crashes : 0 .. MaxCrashes, restarts : 0 .. MaxRestarts,
                       revokes : 0 .. MaxRevokes]
    BY DEF Structure, ControlOK
  <2> QED
    BY <2>1, <2>2, <2>3, <2>4, <2>5, <2>6, <2>7 DEF TypeOK, OnChain, Policies
<1> QED
  BY <1>1, StructureHolds, PTL

-----------------------------------------------------------------------------
(* What happens between the transactions *)

Course ==
    \/ Begin \/ Finish \/ Revert \/ Crash \/ Restart \/ Configures \/ KeyHolders \/ UNCHANGED vars

\* The place does not move, or a migration fails, begins, ends, or is run again.
Stays == step' = step /\ Skipped' = Skipped /\ pc' \in {0, pc}
Begins == step' = step /\ Skipped' = Skipped /\ pc = 0 /\ (~Skipped => pc' = 1)
Ends == /\ step # 201 /\ step' = NextStep(step) /\ pc = LengthOf(step) + 1 /\ pc' = 0
        /\ mem' = mem
StartsOver == step' = 2 /\ pc' = 0 /\ pc = 0 /\ (isLiveDeployment => step \in {4, 9})
              /\ (step = 4 => config.commitment = Zero)
Moves == Stays \/ Begins \/ Ends \/ StartsOver

\* How the course of things moves the place.
LEMMA CourseMoves ==
    ASSUME Structure, Course
    PROVE  /\ Moves /\ network' = network /\ OnChain' = OnChain
           /\ Ends \/ StartsOver => config' = config
           /\ \/ config'.isolated = config.isolated
              \/ isLiveDeployment /\ step = 9 /\ step' = 9 /\ pc = 0 /\ pc' = 0
<1> USE DEF Moves
<1>1. step \in StepSet /\ config.isolated \in BOOLEAN
  BY DEF Structure, ControlOK, ConfigOK
<1>2. CASE Begin
  <2>1. /\ pc = 0 /\ UNCHANGED <<network, config, step, contracts>>
    BY <1>2 DEF Begin, chain
  <2>2. ~Skipped => pc' = 1
    BY <1>2 DEF Begin, Skipped
  <2>3. Skipped' = Skipped
    BY <2>1 DEF Skipped, ShouldSkipStep
  <2> QED
    BY <2>1, <2>2, <2>3 DEF Begins, OnChain
<1>3. CASE Finish
  <2>1. /\ pc = LengthOf(step) + 1 /\ UNCHANGED <<network, config, contracts, mem>>
        /\ \/ step = 201 /\ UNCHANGED <<step, pc>>
           \/ step # 201 /\ step' = NextStep(step) /\ pc' = 0
    BY <1>3, FinishIs
  <2>2. step' = step => Skipped' = Skipped
    BY <2>1 DEF Skipped, ShouldSkipStep
  <2>3. step = 201 \/ ~StartsOver
    <3>1. step # 201 => step' # 2
      BY <1>1, <2>1, NextStepGrows
    <3> QED
      BY <3>1 DEF StartsOver
  <2> QED
    BY <2>1, <2>2, <2>3 DEF Stays, Ends, OnChain
<1>4. CASE Revert \/ Crash
  <2>1. Fail
    BY <1>4 DEF Revert, Crash
  <2>2. pc' = 0 /\ UNCHANGED <<network, config, step, contracts>>
    BY <2>1 DEF Fail, chain
  <2> QED
    BY <2>2 DEF Stays, Skipped, ShouldSkipStep, OnChain
<1>5. CASE Restart
  <2>1. /\ step' = IF ~StartsAnew /\ step # 9 THEN step ELSE 2
        /\ UNCHANGED <<network, config, contracts, pc>>
    BY <1>5, RestartIs
  <2>2. pc = 0 /\ (StartsAnew => config.commitment = Zero /\ (isLiveDeployment => step = 4))
    BY <1>5, RestartIs
  <2>3. step' = step => Skipped' = Skipped
    BY <2>1 DEF Skipped, ShouldSkipStep
  <2> QED
    BY <2>1, <2>2, <2>3 DEF Stays, StartsOver, OnChain
<1>6. CASE Configures
  <2>1. /\ status = "failed" /\ isLiveDeployment /\ UNCHANGED <<network, step, contracts, pc>>
        /\ \/ step = 9
           \/ step = 12 /\ config'.isolated = config.isolated
    <3>1. config \in [commitment : Addr, universe : Addr, isolated : BOOLEAN]
      BY DEF Structure, ConfigOK
    <3> QED
      BY <1>6, <3>1 DEF Configures, ConfigureCommitment, ConfigureUniverse, chain, control
  <2>2. pc = 0
    BY <2>1 DEF Structure, ControlOK
  <2>3. ~Ends /\ ~StartsOver
    <3>1. LengthOf(step) \in Nat
      BY <1>1, Lengths
    <3> QED
      BY <2>1, <2>2, <3>1 DEF Ends, StartsOver
  <2> QED
    BY <2>1, <2>2, <2>3 DEF Stays, Skipped, ShouldSkipStep, OnChain
<1>7. CASE RevokeDeployer \/ ReinstateDeployer
  <2>1. UNCHANGED <<network, config, step, contracts, pc>>
    BY <1>7 DEF RevokeDeployer, ReinstateDeployer, ByAccessController, control
  <2> QED
    BY <2>1 DEF Stays, Skipped, ShouldSkipStep, OnChain
<1>8. CASE FinishByHand
  <2>1. UNCHANGED <<network, config, step, pc>>
    BY <1>8 DEF FinishByHand, control
  <2>2. OnChain' = OnChain
    BY <1>8, ByHand DEF OnChain
  <2> QED
    BY <2>1, <2>2 DEF Stays, Skipped, ShouldSkipStep
<1>9. CASE UNCHANGED vars
  BY <1>9 DEF Stays, vars, Skipped, ShouldSkipStep, OnChain
<1> QED
  BY <1>2, <1>3, <1>4, <1>5, <1>6, <1>7, <1>8, <1>9 DEF Course, KeyHolders

\* The contracts in use are the same after it.
LEMMA CourseStands ==
    ASSUME Structure, Course
    PROVE  /\ Stage' # 2 => mem'["commitment"] = mem["commitment"] /\ IcbmState' = IcbmState
           /\ step' > 9 => mem'["universe"] = mem["universe"] /\ UniverseState' = UniverseState
           /\ \A a \in OnChain : a[1] \notin {"icbmEuroLock", "icbmEtherLock", "icbmEuroToken"} =>
                contracts'[a] = contracts[a]
           /\ contracts' = contracts \/ FinishByHand
<1>1. step \in StepSet /\ config.isolated \in BOOLEAN
  BY DEF Structure, ControlOK, ConfigOK
<1>2. ~FinishByHand => contracts' = contracts
  BY DEF Course, Begin, Finish, Revert, Crash, Fail, Restart, Configures, ConfigureCommitment,
         ConfigureUniverse, KeyHolders, RevokeDeployer, ReinstateDeployer, ByAccessController, vars,
         chain
<1>3. \A a \in OnChain : a[1] \notin {"icbmEuroLock", "icbmEtherLock", "icbmEuroToken"} =>
        contracts'[a] = contracts[a]
  <2>1. CASE FinishByHand
    BY <2>1, ByHand DEF Is
  <2> QED
    BY <1>2, <2>1
<1>4. /\ Stage' # 2 => mem'["commitment"] = mem["commitment"]
      /\ step' > 9 => mem'["universe"] = mem["universe"]
  <2>1. CASE UNCHANGED mem
    BY <2>1
  <2>2. CASE Revert \/ Crash
    <3>1. Fail
      BY <2>2 DEF Revert, Crash
    <3>2. mem' = saved /\ step' = step /\ config' = config
      BY <3>1 DEF Fail
    <3>3. Stage' = Stage
      BY <3>2 DEF Stage, Skipped, ShouldSkipStep
    <3>4. Skipped => mem = saved
      BY DEF Structure, ControlOK
    <3>5. step # 2 => saved["commitment"] = mem["commitment"]
      BY OutsetOnDisk
    <3>6. step > 9 => saved["universe"] = mem["universe"]
      BY OutsetOnDisk
    <3>7. Stage # 2 => step # 2 \/ Skipped
      BY DEF Stage
    <3> QED
      BY <3>2, <3>3, <3>4, <3>5, <3>6, <3>7
  <2>3. CASE Restart
    <3>1. /\ config' = config /\ mem' = saved' /\ mem = saved
          /\ ~StartsAnew => saved' = saved
          /\ StartsAnew => step' = 2 /\ config.commitment = Zero
      BY <2>3, RestartIs
    <3>2. StartsAnew => Stage' = 2
      BY <3>1 DEF Stage, Skipped, ShouldSkipStep
    <3> QED
      BY <3>1, <3>2
  <2>4. Begin \/ Finish \/ Configures \/ KeyHolders \/ UNCHANGED vars => UNCHANGED mem
    BY DEF Begin, Finish, Configures, ConfigureCommitment, ConfigureUniverse, KeyHolders,
           RevokeDeployer, ReinstateDeployer, ByAccessController, FinishByHand, vars
  <2> QED
    BY <2>1, <2>2, <2>3, <2>4 DEF Course
<1>5. /\ Stage' # 2 => Is(mem["commitment"], "commitment")
      /\ step' > 9 => Is(mem["universe"], "universe")
  <2>1. Structure'
    <3>1. [Next]_vars
      BY DEF Course, Next, Runs
    <3> QED
      BY <3>1, StructureIsInductive
  <2>2. Stage' # 2 => (step # 2 \/ config.commitment # Zero)'
    BY DEF Stage, Skipped, ShouldSkipStep
  <2>3. Stage' # 2 => mem'["commitment"] # Zero
    BY <2>1, <2>2 DEF Structure, IcbmStage
  <2>4. step' > 9 => mem'["universe"] # Zero
    BY <2>1 DEF Structure, ReadyStage
  <2> QED
    BY <1>4, <2>3, <2>4, KindsAre DEF Structure, ArtifactsOK, Artifacts
<1> QED
  BY <1>2, <1>3, <1>4, <1>5 DEF IcbmState, UniverseState, Is

-----------------------------------------------------------------------------
(* The rights on the ICBM stay as they should between the transactions *)

\* Where the rights are enough for the place, they are enough for a place with less to hold.
LEMMA RightsEase ==
    ASSUME NEW R, NEW p, NEW t, NEW n \in StepSet, NEW i \in Nat, NEW isolated \in BOOLEAN,
           RightsAt(R, p, t, n, i, isolated)
    PROVE  /\ RightsAt(R, p, t, n, 0, isolated) /\ RightsAt(R, p, t, n, 1, isolated)
           /\ n = 9 => \A j, b : RightsAt(R, p, t, 9, j, b)
BY DEF RightsAt, StepSet

\* The next migration needs what the last one left.
LEMMA RightsEnd ==
    ASSUME NEW R, NEW p, NEW t, NEW n \in StepSet \ {2, 201}, NEW i \in Nat,
           NEW isolated \in BOOLEAN, RightsAt(R, p, t, n, i, isolated), n = 6 => i = 6
    PROVE  RightsAt(R, p, t, NextStep(n), 0, isolated)
<1>1. /\ NextStep(3) = 4 /\ NextStep(4) = 5 /\ NextStep(5) = 6
      /\ NextStep(6) = 9 /\ NextStep(9) = 10 /\ NextStep(10) = 11 /\ NextStep(11) = 12
      /\ NextStep(12) = 13 /\ NextStep(13) = 14 /\ NextStep(14) = 15 /\ NextStep(15) = 16
      /\ NextStep(16) = 201
  BY DEF NextStep
<1>2. CASE n \in {3, 4, 5}
  BY <1>1, <1>2 DEF RightsAt
<1>3. CASE n = 6
  BY <1>1, <1>3 DEF RightsAt, Handed
<1>4. CASE n \in {9, 10}
  BY <1>1, <1>4 DEF RightsAt
<1>5. CASE n \in {11, 12, 13, 14, 15, 16}
  BY <1>1, <1>5 DEF RightsAt
<1> QED
  BY <1>2, <1>3, <1>4, <1>5 DEF StepSet

\* A right of the deployer to set roles is not one of the temporary rights.
LEMMA ControllerRights ==
    ASSUME NEW R, NEW p, p # Zero, NEW t, NEW n, NEW i, NEW isolated, NEW Q,
           NEW key, key = <<DEPLOYER, "accessController", p>>,
           Q = R \cup {key} \/ Q = R \ {key}, RightsAt(R, p, t, n, i, isolated)
    PROVE  RightsAt(Q, p, t, n, i, isolated)
<1>1. HeldIn(Q) = HeldIn(R)
  BY DEF HeldIn, Temporary
<1>2. \A r, o : r # DEPLOYER \/ o # p => (<<r, "accessController", o>> \in Q <=> <<r, "accessController", o>> \in R)
  OBVIOUS
<1>3. CONTROLLER # DEPLOYER /\ GLOBAL # p
  BY DEF CONTROLLER, DEPLOYER, Account, GLOBAL
<1>4. /\ <<CONTROLLER, "accessController", GLOBAL>> \in Q <=> <<CONTROLLER, "accessController", GLOBAL>> \in R
      /\ <<CONTROLLER, "accessController", p>> \in Q <=> <<CONTROLLER, "accessController", p>> \in R
      /\ <<DEPLOYER, "accessController", GLOBAL>> \in Q <=> <<DEPLOYER, "accessController", GLOBAL>> \in R
  BY <1>2, <1>3
<1>5. Handed(Q, p) <=> Handed(R, p)
  BY <1>4 DEF Handed
<1> HIDE DEF Handed, HeldIn
<1> QED
  BY <1>1, <1>4, <1>5 DEF RightsAt

\* What the course of things makes of the rights: nothing, but for the deployer's right to
\* set roles.
LEMMA CourseRights ==
    ASSUME Structure, Course
    PROVE  \/ access' = access
           \/ /\ isLiveDeployment /\ step > 6 /\ IcbmState.policy \in Policies
              /\ UNCHANGED <<network, config, contracts, saved, step, pc, status, interrupted, mem>>
              /\ \/ access' = [access EXCEPT ![IcbmState.policy] = Allowing(DOMAIN @ \cup {DeployerKey})]
                 \/ access' = [access EXCEPT ![IcbmState.policy] = Allowing(DOMAIN @ \ {DeployerKey})]
<1>1. CASE RevokeDeployer
  BY <1>1, ControllerActs DEF RevokeDeployer
<1>2. CASE ReinstateDeployer
  BY <1>2, ControllerActs DEF ReinstateDeployer
<1>3. ~RevokeDeployer /\ ~ReinstateDeployer => access' = access
  BY DEF Course, Begin, Finish, Revert, Crash, Fail, Restart, Configures, ConfigureCommitment,
         ConfigureUniverse, KeyHolders, FinishByHand, vars, chain
<1> QED
  BY <1>1, <1>2, <1>3

\* The course of things keeps the rights on the ICBM as they should be.
LEMMA CourseKeepsRights ==
    ASSUME Structure, RightsOK, Course
    PROVE  RightsOK'
<1>1. /\ Moves /\ network' = network /\ OnChain' = OnChain
      /\ Ends \/ StartsOver => config' = config
      /\ \/ config'.isolated = config.isolated
         \/ isLiveDeployment /\ step = 9 /\ step' = 9 /\ pc = 0 /\ pc' = 0
  BY CourseMoves
<1>2. Stage' # 2 => mem'["commitment"] = mem["commitment"] /\ IcbmState' = IcbmState
  BY CourseStands
<1>3. /\ step \in StepSet /\ config.isolated \in BOOLEAN /\ pc \in Nat
      /\ LengthOf(step) \in Nat
  <2>1. step \in StepSet /\ config.isolated \in BOOLEAN
    BY DEF Structure, ControlOK, ConfigOK
  <2> QED
    BY <2>1, Lengths DEF Structure, ControlOK
<1>4. Structure'
  <2>1. [Next]_vars
    BY DEF Course, Next, Runs
  <2> QED
    BY <2>1, StructureIsInductive
<1>5. config'.isolated \in BOOLEAN /\ step' \in StepSet
  BY <1>4 DEF Structure, ConfigOK, ControlOK
<1> DEFINE p == IcbmState.policy
           t == IcbmState.euroToken
<1>6. CASE access' = access
  <2>1. \A q \in Policies : RightsSound(Rights(q))
    BY DEF RightsOK
  <2>2. \A q \in Policies' : RightsSound(Rights(q))'
    BY <1>6, <2>1 DEF Policies, RightsSound, Rights
  <2>3. ASSUME isLiveDeployment, Stage' = 2, pc' > 1
        PROVE  HeldIn(Rights(mem'["policy"])) = {}
    <3>1. step' = 2 /\ ~Skipped'
      BY <1>5, <2>3 DEF Stage
    <3>2. pc' = pc /\ step = 2 /\ ~Skipped
      BY <1>1, <1>3, <2>3, <3>1, NextStepGrows DEF Moves, Stays, Begins, Ends, StartsOver
    <3>3. mem' = mem
      BY <1>3, <2>3, <3>2 DEF Course, Begin, Finish, Revert, Crash, Fail, Restart, Configures, ConfigureCommitment,
         ConfigureUniverse, KeyHolders, RevokeDeployer, ReinstateDeployer, ByAccessController, FinishByHand, vars, Structure, ControlOK
    <3> QED
      BY <2>3, <3>2, <3>3 DEF RightsOK, Stage
  <2>4. ASSUME isLiveDeployment, Stage' # 2
        PROVE  RightsAt(Rights(p), p, t, Stage', pc', config'.isolated)
    <3>1. CASE Stage # 2
      <4>1. RightsAt(Rights(p), p, t, Stage, pc, config.isolated)
        BY <2>4, <3>1 DEF RightsOK
      <4>2. Stage \in StepSet
        BY <1>3 DEF Stage, StepSet
      <4> HIDE DEF p, t
      <4>3. /\ RightsAt(Rights(p), p, t, Stage, 0, config.isolated)
            /\ RightsAt(Rights(p), p, t, Stage, 1, config.isolated)
            /\ Stage = 9 => \A j, b : RightsAt(Rights(p), p, t, 9, j, b)
        BY <1>3, <4>1, <4>2, RightsEase
      <4>4. CASE Stays
        <5>1. Stage' = Stage
          BY <4>4 DEF Stays, Stage
        <5> QED
          BY <1>1, <4>1, <4>3, <4>4, <5>1 DEF Stays, Stage, Skipped, ShouldSkipStep
      <4>5. CASE Begins
        <5>1. Stage' = Stage /\ (Skipped => Stage = 9)
          BY <4>5 DEF Begins, Stage
        <5>2. Stage = 9 \/ config'.isolated = config.isolated
          BY <1>1, <5>1, <4>5 DEF Begins, Stage
        <5> QED
          BY <4>3, <4>5, <5>1, <5>2 DEF Begins
      <4>6. CASE Ends
        <5>1. config' = config /\ step' = NextStep(step) /\ pc' = 0 /\ pc = LengthOf(step) + 1
              /\ step # 201
          BY <1>1, <4>6 DEF Ends
        <5>2. CASE Skipped
          <6>1. Stage = 9 /\ step < 7 /\ step # 9
            BY <5>2 DEF Stage, Skipped, ShouldSkipStep
          <6>2. step' \in {3, 4, 5, 6, 9}
            BY <1>3, <5>1, <6>1 DEF StepSet, NextStep
          <6>3. Stage' = 9
            BY <5>1, <5>2, <6>2 DEF Stage, Skipped, ShouldSkipStep
          <6> QED
            BY <4>3, <6>1, <6>3
        <5>3. CASE ~Skipped
          <6>1. Stage = step /\ step \in StepSet \ {2, 201}
            BY <1>3, <3>1, <5>1, <5>3 DEF Stage
          <6>2. step = 6 => pc = 6
            BY <2>4, <5>1 DEF LengthOf
          <6>3. RightsAt(Rights(p), p, t, NextStep(step), 0, config.isolated)
            BY <1>3, <4>1, <6>1, <6>2, RightsEnd
          <6>4. Stage' = IF Skipped' THEN 9 ELSE step'
            BY DEF Stage
          <6>5. ~Skipped'
            <7>1. step' > step
              BY <5>1, <6>1, NextStepGrows
            <7> QED
              BY <1>3, <1>5, <5>1, <5>3, <7>1 DEF Skipped, ShouldSkipStep, StepSet
          <6> QED
            BY <5>1, <6>3, <6>4, <6>5
        <5> QED
          BY <5>2, <5>3
      <4>7. CASE StartsOver
        <5>1. step' = 2 /\ pc' = 0 /\ config' = config /\ step \in {4, 9}
              /\ (step = 4 => config.commitment = Zero)
          BY <1>1, <2>4, <4>7 DEF StartsOver
        <5>3. step = 9
          BY <2>4, <5>1 DEF Stage, Skipped, ShouldSkipStep
        <5>2. Stage = 9 /\ Stage' = 9
          BY <2>4, <5>1, <5>3 DEF Stage, Skipped, ShouldSkipStep
        <5> QED
          BY <4>3, <5>2
      <4> QED
        BY <1>1, <4>4, <4>5, <4>6, <4>7 DEF Moves
    <3>2. CASE Stage = 2
      <4>1. step = 2 /\ ~Skipped
        BY <1>3, <3>2 DEF Stage
      <4>2. Ends
        BY <1>1, <2>4, <4>1 DEF Moves, Stays, Begins, StartsOver, Stage, Skipped, ShouldSkipStep
      <4>3. step' = 3 /\ pc = 9 /\ pc' = 0 /\ config' = config
        <5>1. LengthOf(2) = 8 /\ NextStep(2) = 3
          BY DEF LengthOf, NextStep
        <5> QED
          BY <1>1, <4>1, <4>2, <5>1 DEF Ends
      <4>4. Stage' = 3 /\ ~config.isolated
        <5>1. config.commitment = Zero
          BY <4>1 DEF Skipped, ShouldSkipStep
        <5> QED
          BY <4>3, <5>1 DEF Stage, Skipped, ShouldSkipStep, Structure, ConfigOK
      <4>5. HeldIn(Rights(mem["policy"])) = {}
        BY <2>4, <3>2, <4>3 DEF RightsOK
      <4>6. mem["policy"] = p
        <5>1. DeployedBefore("commitment")
          BY <4>1, <4>3 DEF DeployedBefore, Place
        <5> QED
          BY <4>1, <5>1 DEF Structure, IcbmStage
      <4> QED
        BY <4>3, <4>4, <4>5, <4>6 DEF RightsAt
    <3> QED
      BY <3>1, <3>2
  <2>5. isLiveDeployment' = isLiveDeployment
    BY <1>1 DEF isLiveDeployment
  <2>6. \A q : Rights(q)' = Rights(q)
    BY <1>6 DEF Rights
  <2>7. Stage' # 2 => p' = p /\ t' = t
    BY <1>2
  <2> HIDE DEF p, t
  <2>8. isLiveDeployment /\ Stage' # 2 => RightsAt(Rights(p), p, t, Stage', pc', config'.isolated)
    BY <2>4
  <2> QED
    BY <2>2, <2>3, <2>5, <2>6, <2>7, <2>8 DEF RightsOK, p, t
<1>7. CASE access' # access
  <2>1. /\ isLiveDeployment /\ step > 6 /\ p \in Policies
        /\ UNCHANGED <<network, config, contracts, step, pc, mem>>
        /\ \/ access' = [access EXCEPT ![p] = Allowing(DOMAIN @ \cup {DeployerKey})]
           \/ access' = [access EXCEPT ![p] = Allowing(DOMAIN @ \ {DeployerKey})]
    BY <1>7, CourseRights
  <2>2. p # Zero
    BY <2>1, NotContracts DEF Structure, AddressesOK, OfKind
  <2> DEFINE Q == DOMAIN access'[p]
  <2>3. \/ Q = Rights(p) \cup {DeployerKey}
        \/ Q = Rights(p) \ {DeployerKey}
    BY <2>1 DEF Rights, Allowing, Policies
  <2>4. RightsAt(Rights(p), p, t, Stage, pc, config.isolated)
    BY <2>1 DEF RightsOK, Stage
  <2>5. RightsAt(Q, p, t, Stage, pc, config.isolated)
    BY <2>2, <2>3, <2>4, ControllerRights DEF DeployerKey
  <2>6. RightsSound(Q)
    <3>1. RightsSound(Rights(p))
      BY <2>1 DEF RightsOK
    <3>2. RightsSound({DeployerKey})
      BY DEF RightsSound, DeployerKey, Temporary
    <3> QED
      BY <2>3, <3>1, <3>2 DEF RightsSound
  <2>7. /\ Policies' = Policies
        /\ \A q \in Policies \ {p} : DOMAIN access'[q] = Rights(q)
    BY <2>1 DEF Rights, Policies
  <2>8. p' = p /\ t' = t /\ Stage' = Stage /\ isLiveDeployment' = isLiveDeployment
    BY <2>1 DEF IcbmState, Stage, Skipped, ShouldSkipStep, isLiveDeployment
  <2>9. \A q \in Policies : RightsSound(DOMAIN access'[q])
    BY <2>6, <2>7 DEF RightsOK
  <2>10. Stage # 2
    BY <2>1 DEF Stage
  <2> HIDE DEF p, t
  <2>11. DOMAIN access'[p'] = Q
    BY <2>8
  <2> HIDE DEF Q
  <2> QED
    BY <2>1, <2>5, <2>7, <2>8, <2>9, <2>10, <2>11 DEF RightsOK, Rights, p, t
<1> QED
  BY <1>6, <1>7

-----------------------------------------------------------------------------
(* The rights on the ICBM over the transactions *)

\* Rights that are given or taken at place i of migration n.
GivenAt(G, p, t, n, i) ==
    /\ n = 3 => HeldIn(G) \subseteq {DepositKey(t)}
    /\ n = 4 => HeldIn(G) \subseteq {AdminKey}
    /\ n = 6 =>
         /\ i \in {3, 4} /\ HeldIn(G) = {}
         /\ i = 3 => <<CONTROLLER, "accessController", GLOBAL>> \in G
         /\ i = 4 => <<CONTROLLER, "accessController", p>> \in G
    /\ n \in 9 .. 10 => HeldIn(G) = {}
    /\ n >= 11 => \A k \in HeldIn(G) : k[3] = GLOBAL
    /\ <<DEPLOYER, "accessController", GLOBAL>> \notin G
TakenAt(G, t, n, i) ==
    \/ n = 6 /\ i = 1 /\ G = {DepositKey(t)}
    \/ n = 6 /\ i = 2 /\ G = {AdminKey}
    \/ n = 6 /\ i = 5 /\ G = {<<DEPLOYER, "accessController", GLOBAL>>}
    \/ n = 10 /\ \A k \in G : k[2] # "accessController"
    \/ n = 201 /\ (\A k \in G : k[2] # "accessController")
       /\ {<<DEPLOYER, role, GLOBAL>> : role \in Temporary} \subseteq G

\* Rights given where GivenAt allows leave what the next place asks for.
LEMMA RightsGiven ==
    ASSUME NEW R, NEW G, NEW p, NEW t, NEW n \in StepSet \ {2, 5, 201}, NEW i \in Nat \ {0},
           RightsAt(R, p, t, n, i, FALSE), GivenAt(G, p, t, n, i)
    PROVE  RightsAt(R \cup G, p, t, n, i + 1, FALSE)
<1>1. HeldIn(R \cup G) = HeldIn(R) \cup HeldIn(G)
  BY DEF HeldIn
<1> HIDE DEF HeldIn
<1>2. CASE n \in {3, 4}
  BY <1>1, <1>2 DEF RightsAt, GivenAt
<1>3. CASE n = 6
  <2>1. i \in {3, 4} /\ HeldIn(R) = {} /\ HeldIn(G) = {}
    BY <1>3 DEF RightsAt, GivenAt
  <2>2. HeldIn(R \cup G) = {}
    BY <1>1, <2>1
  <2>3. <<CONTROLLER, "accessController", GLOBAL>> \in R \cup G
    BY <1>3, <2>1 DEF RightsAt, GivenAt
  <2>4. i = 4 => <<CONTROLLER, "accessController", p>> \in R \cup G
    BY <1>3 DEF RightsAt, GivenAt
  <2> DEFINE S == R \cup G
  <2> HIDE DEF S
  <2>5. i = 3 => RightsAt(S, p, t, n, i + 1, FALSE)
    BY <1>3, <2>2, <2>3 DEF RightsAt, S
  <2>6. i = 4 => RightsAt(S, p, t, n, i + 1, FALSE)
    BY <1>3, <2>2, <2>3, <2>4 DEF RightsAt, S
  <2> QED
    BY <2>1, <2>5, <2>6 DEF S
<1>4. CASE n \in {9, 10}
  <2>1. HeldIn(R \cup G) = {}
    BY <1>1, <1>4 DEF RightsAt, GivenAt
  <2>2. Handed(R \cup G, p)
    BY <1>4 DEF RightsAt, GivenAt, Handed
  <2> HIDE DEF Handed
  <2> QED
    BY <1>4, <2>1, <2>2 DEF RightsAt
<1>5. CASE n \in {11, 12, 13, 14, 15, 16}
  BY <1>1, <1>5 DEF RightsAt, GivenAt, Handed
<1> QED
  BY <1>2, <1>3, <1>4, <1>5 DEF StepSet

\* So do rights taken where TakenAt allows.
LEMMA RightsTaken ==
    ASSUME NEW R, RightsSound(R), NEW G, NEW p, NEW t, NEW n \in StepSet, NEW i \in Nat \ {0},
           RightsAt(R, p, t, n, i, FALSE), TakenAt(G, t, n, i), n = 201 => i = 1
    PROVE  RightsAt(R \ G, p, t, n, i + 1, FALSE)
<1>1. HeldIn(R \ G) = HeldIn(R) \ G
  BY DEF HeldIn
<1>2. CASE n = 6
  <2>1. i = 5 => HeldIn(R) = {} /\ {<<CONTROLLER, "accessController", GLOBAL>>, <<CONTROLLER, "accessController", p>>} \subseteq R
    BY <1>2 DEF RightsAt
  <2>2. CONTROLLER # DEPLOYER
    BY DEF CONTROLLER, DEPLOYER, Account
  <2> HIDE DEF HeldIn
  <2>3. i = 1 \/ i = 2 \/ i = 5
    BY <1>2 DEF TakenAt
  <2>4. CASE i = 1
    BY <1>1, <1>2, <2>4 DEF RightsAt, TakenAt
  <2>5. CASE i = 2
    BY <1>1, <1>2, <2>5 DEF RightsAt, TakenAt
  <2>6. CASE i = 5
    BY <1>1, <1>2, <2>1, <2>2, <2>6 DEF RightsAt, TakenAt
  <2> QED
    BY <2>3, <2>4, <2>5, <2>6
<1>3. CASE n = 10
  <2>1. \A k \in G : k[2] # "accessController"
    BY <1>3 DEF TakenAt
  <2>2. Handed(R \ G, p)
    BY <1>3, <2>1 DEF RightsAt, Handed
  <2> HIDE DEF HeldIn, Handed
  <2> QED
    BY <1>1, <1>3, <2>2 DEF RightsAt
<1>4. CASE n = 201
  <2>1. /\ \A k \in G : k[2] # "accessController"
        /\ {<<DEPLOYER, role, GLOBAL>> : role \in Temporary} \subseteq G
    BY <1>4 DEF TakenAt
  <2>2. Handed(R \ G, p)
    BY <1>4, <2>1 DEF RightsAt, Handed
  <2>3. \A k \in HeldIn(R) : k[3] = GLOBAL
    BY <1>4 DEF RightsAt
  <2>4. \A k \in HeldIn(R) : k = <<DEPLOYER, k[2], GLOBAL>> /\ k[2] \in Temporary
    BY <2>3 DEF RightsSound, HeldIn
  <2>5. HeldIn(R) \subseteq G
    BY <2>1, <2>4
  <2> HIDE DEF HeldIn, Handed
  <2> QED
    BY <1>1, <1>4, <2>2, <2>5 DEF RightsAt
<1> QED
  BY <1>2, <1>3, <1>4 DEF TakenAt

\* Who is who on a live network that shares the policy of the ICBM.
LEMMA Services ==
    ASSUME isLiveDeployment, ~config.isolated
    PROVE  \A name : Addresses(name) = Account(name)
BY DEF Addresses

\* Nobody gets a temporary right but a named holder.
LEMMA RolesSound ==
    ASSUME Structure, SetRoles
    PROVE  RightsSound(RightsOf(KeysAt(step, pc)))
<1>1. Running("roles")
  BY DEF SetRoles
<1>2. /\ step \in StepSet /\ pc \in 1 .. LengthOf(step) /\ OpAt(step, pc) = "roles"
  BY <1>1, RunningIs DEF Structure
<1>3. \A name : name # "0x0" => Ref(Of(name)) # Zero
  BY References DEF Addresses, Account, DEPLOYER, Zero
<1>4. Ref(Deployer) # Zero
  BY References DEF Account, DEPLOYER, Zero
<1>5. step = 10 => Ref(Singleton("euroLock")) # Zero
  BY UniverseIsReady, NotContracts, References DEF Structure, AddressesOK, Is
<1>6. step = 12 => Ref(Deployed("feeDisbursal")) # Zero
  <2>1. step = 12 => pc > 2
    BY <1>2 DEF OpAt
  <2> QED
    BY <2>1, DisbursalDeployed, NotContracts, References DEF Structure, AddressesOK, Is
<1>7. \A k \in KeysAt(step, pc) :
        k[2] \in Temporary => \/ \E name : name # "0x0" /\ k[1] = Of(name)
                              \/ k[1] = Deployer
                              \/ step = 10 /\ k[1] = Singleton("euroLock")
                              \/ step = 12 /\ k[1] = Deployed("feeDisbursal")
  <2>1. CASE step = 3
    BY <2>1 DEF KeysAt, Temporary
  <2>2. CASE step \in {4, 6, 9, 13, 14, 15, 16}
    BY <2>2 DEF KeysAt, Temporary
  <2>3. CASE step = 10
    BY <2>3 DEF KeysAt, Temporary, IssuerRulesKeys, PlatformRulesKeys
  <2>4. CASE step = 11
    BY <2>4 DEF KeysAt, Temporary, SetupRulesKeys
  <2>5. CASE step = 12
    BY <2>5 DEF KeysAt, Temporary, DisbursalRulesKeys
  <2>6. CASE step = 201
    BY <2>6 DEF KeysAt, Temporary, FinalRulesKeys
  <2> QED
    BY <1>2, <2>1, <2>2, <2>3, <2>4, <2>5, <2>6 DEF StepSet, OpAt
<1>8. \A k \in KeysAt(step, pc) : k[2] \in Temporary => Ref(k[1]) # Zero
  BY <1>3, <1>4, <1>5, <1>6, <1>7
<1> QED
  BY <1>8 DEF RightsOf, RightsSound, EVERYONE

\* A right on the policy of a live deployment is given or taken as the place says.
LEMMA RolesGive ==
    ASSUME Structure, SetRoles, isLiveDeployment, ~config.isolated, StateAt(step, pc) = "Allow",
           NEW G, G = RightsOf(KeysAt(step, pc))
    PROVE  GivenAt(G, IcbmState.policy, IcbmState.euroToken, step, pc)
<1>1. Running("roles")
  BY DEF SetRoles
<1>2. /\ step \in StepSet /\ pc \in 1 .. LengthOf(step) /\ OpAt(step, pc) = "roles"
      /\ config.isolated \in BOOLEAN
  BY <1>1, RunningIs DEF Structure
<1>3. \A name : Ref(Of(name)) = Account(name)
  BY Services, References
<1>4. /\ Ref(Deployer) = DEPLOYER /\ Ref(Everything) = Zero
      /\ \A kind : Ref(Deployed(kind)) = mem[kind]
      /\ \A name : Ref(Singleton(name)) = SingletonOf(name)
  BY References
<1>5. DEPLOYER = Account("DEPLOYER") /\ CONTROLLER = Account("ACCESS_CONTROLLER")
  BY DEF DEPLOYER, CONTROLLER
<1>6. \A name : Account(name) # Zero \/ name = "0x0"
  BY DEF Account, Zero
<1>7. \A name : name # "DEPLOYER" => Account(name) # DEPLOYER
  BY DEF Account, DEPLOYER
<1>8. \A a \in OnChain : a # Zero /\ a # DEPLOYER
  BY NotContracts DEF Structure, AddressesOK, Wallets
<1>9. GLOBAL = Zero /\ EVERYONE = Zero
  BY DEF GLOBAL, EVERYONE
<1>10. CASE step = 3
  <2>1. /\ Is(mem["commitment"], "commitment") /\ Is(mem["icbmEuroToken"], "icbmEuroToken")
        /\ mem["icbmEuroToken"] = IcbmState.euroToken
    BY <1>1, <1>10, IcbmRunning
  <2>2. PICK s, role, o :
          /\ KeysAt(step, pc) = {<<s, role, o>>}
          /\ \/ s = Deployed("commitment") /\ role \in {"neumarkIssuer", "transferAdmin"}
             \/ s = Everything /\ role = "neumarkBurner"
             \/ s \in {Of("LOCKED_ACCOUNT_ADMIN"), Of("WHITELIST_ADMIN"),
                       Of("PLATFORM_OPERATOR_REPRESENTATIVE"), Of("EURT_DEPOSIT_MANAGER")}
                /\ role # "accessController"
             \/ s = Deployer /\ role = "eurtDepositManager" /\ o = Deployed("icbmEuroToken")
    <3> DEFINE K(s, role, o) ==
                 /\ KeysAt(step, pc) = {<<s, role, o>>}
                 /\ \/ s = Deployed("commitment") /\ role \in {"neumarkIssuer", "transferAdmin"}
                    \/ s = Everything /\ role = "neumarkBurner"
                    \/ s \in {Of("LOCKED_ACCOUNT_ADMIN"), Of("WHITELIST_ADMIN"),
                              Of("PLATFORM_OPERATOR_REPRESENTATIVE"), Of("EURT_DEPOSIT_MANAGER")}
                       /\ role # "accessController"
                    \/ s = Deployer /\ role = "eurtDepositManager" /\ o = Deployed("icbmEuroToken")
    <3>1. pc = 1 => K(Deployed("commitment"), "neumarkIssuer", Deployed("neumark"))
      BY <1>10 DEF KeysAt
    <3>2. pc = 2 => K(Deployed("commitment"), "transferAdmin", Deployed("neumark"))
      BY <1>10 DEF KeysAt
    <3>3. pc = 3 => K(Everything, "neumarkBurner", Deployed("neumark"))
      BY <1>10 DEF KeysAt
    <3>4. pc = 4 => K(Of("LOCKED_ACCOUNT_ADMIN"), "lockedAccountAdmin", Everything)
      BY <1>10 DEF KeysAt
    <3>5. pc = 5 => K(Of("WHITELIST_ADMIN"), "whitelistAdmin", Deployed("commitment"))
      BY <1>10 DEF KeysAt
    <3>6. pc = 6 => K(Of("PLATFORM_OPERATOR_REPRESENTATIVE"), "platformOperatorRepresentative",
                      Everything)
      BY <1>10 DEF KeysAt
    <3>7. pc = 7 => K(Of("EURT_DEPOSIT_MANAGER"), "eurtDepositManager", Deployed("icbmEuroToken"))
      BY <1>10 DEF KeysAt
    <3>8. pc \notin 1 .. 7 => K(Deployer, "eurtDepositManager", Deployed("icbmEuroToken"))
      BY <1>10 DEF KeysAt
    <3>9. \E s, role, o : K(s, role, o)
      <4> HIDE DEF K
      <4>1. pc = 1 \/ pc = 2 \/ pc = 3 \/ pc = 4 \/ pc = 5 \/ pc = 6 \/ pc = 7 \/ pc \notin 1 .. 7
        OBVIOUS
      <4> QED
        BY <3>1, <3>2, <3>3, <3>4, <3>5, <3>6, <3>7, <3>8, <4>1
    <3> QED
      BY <3>9
  <2>3. G = {<<Ref(s), role, Ref(o)>>}
    BY <2>2 DEF RightsOf
  <2>4. role # "accessController"
    BY <2>2
  <2>5. Ref(s) = DEPLOYER /\ role \in Temporary => <<Ref(s), role, Ref(o)>> = DepositKey(IcbmState.euroToken)
    BY <1>3, <1>4, <1>7, <1>8, <2>1, <2>2 DEF DepositKey, Is, Temporary
  <2>6. Ref(s) = Zero => role \notin Temporary
    BY <1>3, <1>4, <1>5, <1>6, <1>8, <2>1, <2>2 DEF Is, Temporary
  <2> QED
    BY <1>9, <1>10, <2>3, <2>4, <2>5, <2>6 DEF GivenAt, HeldIn
<1>11. CASE step = 4
  <2>1. KeysAt(step, pc) = {<<Deployer, "lockedAccountAdmin", Everything>>}
    BY <1>11 DEF KeysAt
  <2>2. G = {AdminKey}
    BY <1>4, <1>9, <2>1 DEF AdminKey, RightsOf
  <2> QED
    BY <1>5, <1>6, <1>9, <1>11, <2>2 DEF GivenAt, HeldIn, AdminKey
<1>12. CASE step = 6
  <2>1. pc \in {3, 4}
    BY <1>2, <1>12 DEF StateAt, LengthOf
  <2>2. G = {<<CONTROLLER, "accessController", IF pc = 3 THEN GLOBAL ELSE IcbmState.policy>>}
    <3>1. KeysAt(step, pc) = {<<Of("ACCESS_CONTROLLER"), "accessController",
                                IF pc = 3 THEN Everything ELSE Deployed("policy")>>}
      BY <1>12, <2>1 DEF KeysAt
    <3>2. mem["policy"] = IcbmState.policy
      BY <1>1, <1>12, IcbmRunning
    <3> QED
      BY <1>3, <1>4, <1>5, <1>9, <3>1, <3>2 DEF RightsOf
  <2> QED
    BY <1>5, <1>7, <1>12, <2>1, <2>2 DEF GivenAt, HeldIn, Temporary
<1>13. CASE step \in {9, 13, 15, 16}
  <2>1. PICK o : KeysAt(step, pc) = {<<Deployer, "universeManager", o>>}
    BY <1>13 DEF KeysAt
  <2>2. G = {<<DEPLOYER, "universeManager", Ref(o)>>}
    BY <1>4, <2>1 DEF RightsOf
  <2> QED
    BY <1>13, <2>2 DEF GivenAt, HeldIn, Temporary
<1>14. CASE step = 14
  <2>1. KeysAt(step, pc) = {<<Deployer, "disbursalManager", Everything>>}
    BY <1>14 DEF KeysAt
  <2>2. G = {<<DEPLOYER, "disbursalManager", GLOBAL>>}
    BY <1>4, <1>9, <2>1 DEF RightsOf
  <2> QED
    BY <1>5, <1>6, <1>9, <1>14, <2>2 DEF GivenAt, HeldIn
<1>15. CASE step = 10
  <2>1. KeysAt(10, pc) = PlatformRulesKeys
    BY <1>15 DEF StateAt, KeysAt
  <2>2. Is(SingletonOf("euroLock"), "euroLock")
    BY <1>15, UniverseIsReady
  <2>3. \A k \in PlatformRulesKeys :
          /\ k = <<k[1], k[2], k[3]>> /\ k[2] # "accessController"
          /\ \/ k[1] = Singleton("euroLock")
             \/ \E name \in {"IDENTITY_MANAGER", "EURT_LEGAL_MANAGER", "EURT_DEPOSIT_MANAGER",
                             "TOKEN_RATE_ORACLE", "GAS_EXCHANGE", "UNIVERSE_MANAGER"} : k[1] = Of(name)
    BY DEF PlatformRulesKeys
  <2>4. \A k \in PlatformRulesKeys : Ref(k[1]) # DEPLOYER /\ Ref(k[1]) # Zero
    BY <1>3, <1>4, <1>6, <1>7, <1>8, <2>2, <2>3 DEF Is
  <2>5. \A k \in G : k = <<k[1], k[2], k[3]>> /\ k[2] # "accessController" /\ k[1] # DEPLOYER /\ k[1] # Zero
    BY <1>15, <2>1, <2>3, <2>4 DEF RightsOf
  <2> QED
    BY <1>9, <1>15, <2>5 DEF GivenAt, HeldIn
<1>16. CASE step = 11
  <2>1. \A k \in KeysAt(11, pc) :
          /\ k = <<k[1], k[2], k[3]>>
          /\ \/ k[1] = Deployer /\ k[2] \in Temporary /\ k[3] = Everything
             \/ k[1] = Of("PLATFORM_OPERATOR_WALLET") /\ k[2] = "reclaimer"
    BY DEF KeysAt, SetupRulesKeys, Temporary
  <2>2. \A k \in G : /\ k = <<k[1], k[2], k[3]>>
                     /\ \/ k[1] = DEPLOYER /\ k[2] \in Temporary /\ k[3] = GLOBAL
                        \/ k[2] = "reclaimer"
    BY <1>4, <1>9, <1>16, <2>1 DEF RightsOf
  <2> QED
    BY <1>5, <1>6, <1>9, <1>16, <2>2 DEF GivenAt, HeldIn, Temporary
<1>17. CASE step = 12
  <2>1. \A k \in DisbursalRulesKeys :
          /\ k = <<k[1], k[2], k[3]>> /\ k[2] # "accessController"
          /\ \/ k[1] = Deployer /\ (k[2] = "universeManager" \/ k[3] = Everything)
             \/ k[2] = "disburser"
             \/ k[1] = Deployed("feeDisbursal")
    BY DEF DisbursalRulesKeys
  <2>2. KeysAt(12, pc) = DisbursalRulesKeys
    BY DEF KeysAt
  <2>3. pc = 3
    BY <1>2, <1>17 DEF OpAt
  <2>4. Is(mem["feeDisbursal"], "feeDisbursal")
    BY <1>17, <2>3, DisbursalDeployed
  <2>5. \A k \in G : /\ k = <<k[1], k[2], k[3]>> /\ k[2] # "accessController"
                     /\ \/ k[1] = DEPLOYER /\ (k[2] = "universeManager" \/ k[3] = GLOBAL)
                        \/ k[2] = "disburser"
                        \/ k[1] \in OnChain
    BY <1>4, <1>9, <1>17, <2>1, <2>2, <2>4 DEF RightsOf, Is
  <2> QED
    BY <1>5, <1>6, <1>8, <1>9, <1>17, <2>5 DEF GivenAt, HeldIn, Temporary
<1>18. step \notin {2, 5, 201}
  BY <1>2 DEF OpAt, StateAt
<1> QED
  BY <1>2, <1>10, <1>11, <1>12, <1>13, <1>14, <1>15, <1>16, <1>17, <1>18 DEF StepSet

\* And taken, in migrations 6, 10 and 201 only.
LEMMA RolesTake ==
    ASSUME Structure, SetRoles, isLiveDeployment, ~config.isolated, StateAt(step, pc) = "Unset",
           NEW G, G = RightsOf(KeysAt(step, pc))
    PROVE  TakenAt(G, IcbmState.euroToken, step, pc) /\ (step = 201 => pc = 1)
<1>1. Running("roles")
  BY DEF SetRoles
<1>2. step \in StepSet /\ pc \in 1 .. LengthOf(step)
  BY <1>1, RunningIs DEF Structure
<1>3. /\ Ref(Deployer) = DEPLOYER /\ Ref(Everything) = GLOBAL
      /\ \A kind : Ref(Deployed(kind)) = mem[kind]
  BY References DEF GLOBAL
<1>4. CASE step = 6 /\ pc \in {1, 2, 5}
  <2>1. mem["icbmEuroToken"] = IcbmState.euroToken
    BY <1>1, <1>4, IcbmRunning
  <2>2. CASE pc = 1
    <3>1. KeysAt(step, pc) = {<<Deployer, "eurtDepositManager", Deployed("icbmEuroToken")>>}
      BY <1>4, <2>2 DEF KeysAt
    <3>2. G = {DepositKey(IcbmState.euroToken)}
      BY <1>3, <2>1, <3>1 DEF RightsOf, DepositKey
    <3> QED
      BY <1>4, <2>2, <3>2 DEF TakenAt
  <2>3. CASE pc = 2
    <3>1. KeysAt(step, pc) = {<<Deployer, "lockedAccountAdmin", Everything>>}
      BY <1>4, <2>3 DEF KeysAt
    <3>2. G = {AdminKey}
      BY <1>3, <3>1 DEF RightsOf, AdminKey
    <3> QED
      BY <1>4, <2>3, <3>2 DEF TakenAt
  <2>4. CASE pc = 5
    <3>1. KeysAt(step, pc) = {<<Deployer, "accessController", Everything>>}
      BY <1>4, <2>4 DEF KeysAt
    <3>2. G = {<<DEPLOYER, "accessController", GLOBAL>>}
      BY <1>3, <3>1 DEF RightsOf
    <3> QED
      BY <1>4, <2>4, <3>2 DEF TakenAt
  <2> QED
    BY <1>4, <2>2, <2>3, <2>4
<1>5. CASE step = 10 /\ pc = 1
  <2>1. KeysAt(step, pc) = IssuerRulesKeys
    BY <1>5 DEF KeysAt
  <2>2. \A k \in G : k[2] # "accessController"
    BY <2>1 DEF RightsOf, IssuerRulesKeys
  <2> QED
    BY <1>5, <2>2 DEF TakenAt
<1>6. CASE step = 201
  <2>1. KeysAt(step, pc) = FinalRulesKeys
    BY <1>6 DEF KeysAt
  <2>2. \A k \in G : k[2] # "accessController"
    BY <2>1 DEF RightsOf, FinalRulesKeys
  <2>3. \A role \in Temporary : <<Deployer, role, Everything>> \in FinalRulesKeys
    BY DEF Temporary, FinalRulesKeys
  <2>4. \A role \in Temporary : <<DEPLOYER, role, GLOBAL>> \in G
    <3> SUFFICES ASSUME NEW role \in Temporary PROVE <<DEPLOYER, role, GLOBAL>> \in G
      OBVIOUS
    <3> DEFINE k == <<Deployer, role, Everything>>
    <3>1. k \in KeysAt(step, pc) /\ <<Ref(k[1]), k[2], Ref(k[3])>> = <<DEPLOYER, role, GLOBAL>>
      BY <1>3, <2>1, <2>3
    <3> QED
      BY <3>1 DEF RightsOf
  <2>5. pc = 1
    BY <1>2, <1>6 DEF LengthOf
  <2> QED
    BY <1>6, <2>2, <2>4, <2>5 DEF TakenAt
<1> QED
  BY <1>4, <1>5, <1>6 DEF StateAt

\* Only the policy of the universe, or of migration 2, is changed: on a live network that of
\* the ICBM, unless the universe is isolated.
LEMMA RolesWhere ==
    ASSUME Structure, SetRoles, isLiveDeployment
    PROVE  /\ step \in StepSet \ {2, 5} /\ pc \in Nat \ {0} /\ ~Skipped /\ config.isolated \in BOOLEAN
           /\ IcbmState.policy \in Policies
           /\ Ref(PolicyAt(step)) = IcbmState.policy <=> ~config.isolated
           /\ config.isolated => step >= 9
<1>1. Running("roles")
  BY DEF SetRoles
<1>2. /\ step \in StepSet /\ pc \in 1 .. LengthOf(step) /\ OpAt(step, pc) = "roles"
      /\ ~Skipped /\ config.isolated \in BOOLEAN
  BY <1>1, RunningIs DEF Structure
<1>3. step \in StepSet \ {2, 5}
  BY <1>2 DEF OpAt
<1>4. IcbmState.policy \in Policies
  BY <1>3, IcbmInUse
<1>5. LengthOf(step) \in Nat /\ pc \in Nat \ {0}
  BY <1>2, Lengths
<1>6. CASE step < 9
  <2>1. step \in 3 .. 6
    BY <1>3, <1>6 DEF StepSet
  <2>2. Ref(PolicyAt(step)) = IcbmState.policy
    BY <1>1, <1>6, <2>1, IcbmRunning, References DEF PolicyAt
  <2>3. ~config.isolated
    BY <1>2, <1>6, <2>1 DEF Structure, ConfigOK, Skipped, ShouldSkipStep
  <2> QED
    BY <1>2, <1>3, <1>4, <1>5, <2>2, <2>3
<1>7. CASE step = 9
  <2>1. pc = 10 + Offset
    BY <1>2, <1>7 DEF OpAt, LengthOf, Offset
  <2>2. DeployedBefore("universe") /\ (config.isolated => DeployedBefore("policy"))
    BY <1>2, <1>7, <2>1 DEF DeployedBefore, Place, Offset
  <2>3. mem["universe"] # Zero
    BY <2>2, KindsAre DEF Structure, MemOK
  <2>4. Ref(PolicyAt(step)) = UniverseState.policy
    BY <1>7, <2>3, UniverseIsKnown, References DEF PolicyAt, UniverseState
  <2>5. UniverseState.policy = IF config.isolated THEN mem["policy"] ELSE IcbmState.policy
    BY <1>7, <2>2 DEF Structure, PlatformStage
  <2>6. config.isolated => mem["policy"] # IcbmState.policy
    BY <1>7, <2>2 DEF Structure, PlatformStage
  <2> QED
    BY <1>2, <1>3, <1>4, <1>5, <1>7, <2>4, <2>5, <2>6
<1>8. CASE step > 9
  <2>1. mem["universe"] # Zero /\ (UniverseState.policy = IcbmState.policy <=> ~config.isolated)
    BY <1>8, UniverseIsReady
  <2>2. Ref(PolicyAt(step)) = UniverseState.policy
    BY <1>3, <1>8, <2>1, UniverseIsKnown, References DEF PolicyAt, UniverseState, StepSet
  <2>3. Ref(PolicyAt(step)) = IcbmState.policy <=> ~config.isolated
    <3> HIDE DEF UniverseState, IcbmState
    <3> QED
      BY ONLY <2>1, <2>2
  <2>4. step >= 9
    BY <1>3, <1>8 DEF StepSet
  <2> HIDE DEF IcbmState
  <2> QED
    BY <1>2, <1>3, <1>4, <1>5, <2>3, <2>4
<1> QED
  BY <1>3, <1>6, <1>7, <1>8 DEF StepSet

\* A transaction on roles keeps the rights on the ICBM as they should be.
LEMMA RolesKeepRights ==
    ASSUME Structure, RightsOK, SetRoles
    PROVE  RightsOK'
<1> DEFINE q == Ref(PolicyAt(step))
           G == RightsOf(KeysAt(step, pc))
           S == StateAt(step, pc)
           ip == IcbmState.policy
           t == IcbmState.euroToken
           Q == DOMAIN access'[ip]
<1>1. /\ Running("roles") /\ Advance /\ UNCHANGED <<contracts, mem>>
      /\ access' = [access EXCEPT ![q] = Changed(DOMAIN @, KeysAt(step, pc), S)]
  BY SetRolesChanges
<1>2. S = "Allow" \/ S = "Unset"
  BY StatesAre
<1>3. /\ Policies' = Policies
      /\ \A p \in Policies : DOMAIN access'[p] =
           IF p # q THEN Rights(p) ELSE IF S = "Allow" THEN Rights(p) \cup G ELSE Rights(p) \ G
  BY <1>1 DEF Policies, Rights, Changed, Allowing
<1>4. /\ pc' = pc + 1 /\ Stage' = Stage /\ isLiveDeployment' = isLiveDeployment
      /\ ip' = ip /\ t' = t /\ config' = config /\ mem' = mem
  BY <1>1 DEF Advance, Stage, Skipped, ShouldSkipStep, isLiveDeployment, IcbmState
<1>5. \A p \in Policies : RightsSound(Rights(p))
  BY DEF RightsOK
<1>6. RightsSound(G)
  BY RolesSound
<1>7. \A p \in Policies : RightsSound(DOMAIN access'[p])
  <2> SUFFICES ASSUME NEW p \in Policies PROVE RightsSound(DOMAIN access'[p])
    OBVIOUS
  <2> DEFINE R == Rights(p)
  <2>1. RightsSound(R)
    BY <1>5
  <2>2. DOMAIN access'[p] \subseteq R \cup G
    BY <1>3
  <2> HIDE DEF R, G
  <2> QED
    BY <1>6, <2>1, <2>2 DEF RightsSound
<1>8. ASSUME isLiveDeployment
      PROVE  Stage # 2 /\ RightsAt(Q, ip, t, Stage, pc + 1, config.isolated)
  <2>1. /\ step \in StepSet \ {2, 5} /\ pc \in Nat \ {0} /\ ~Skipped /\ config.isolated \in BOOLEAN
        /\ ip \in Policies /\ (q = ip <=> ~config.isolated) /\ (config.isolated => step >= 9)
    BY <1>8, RolesWhere
  <2>2. Stage = step /\ RightsAt(Rights(ip), ip, t, step, pc, config.isolated)
    BY <1>8, <2>1 DEF RightsOK, Stage
  <2> DEFINE R == Rights(ip)
  <2>3. CASE config.isolated
    <3>1. Q = R
      BY <1>3, <2>1, <2>3
    <3>2. step >= 9
      BY <2>1, <2>3
    <3> HIDE DEF Q, R
    <3> QED
      BY <2>1, <2>2, <2>3, <3>1, <3>2 DEF RightsAt, R
  <2>4. CASE ~config.isolated /\ S = "Allow"
    <3>1. Q = R \cup G
      BY <1>3, <2>1, <2>4
    <3>2. GivenAt(G, ip, t, step, pc)
      BY <1>8, <2>4, RolesGive
    <3>3. step \in StepSet \ {2, 5, 201}
      BY <2>1, <2>4 DEF StateAt
    <3>4. RightsAt(R, ip, t, step, pc, FALSE)
      BY <2>1, <2>2, <2>4
    <3> HIDE DEF Q, R, G, ip, t
    <3>5. RightsAt(R \cup G, ip, t, step, pc + 1, FALSE)
      BY <2>1, <3>2, <3>3, <3>4, RightsGiven
    <3> QED
      BY <2>1, <2>2, <2>4, <3>1, <3>5
  <2>5. CASE ~config.isolated /\ S = "Unset"
    <3>1. Q = R \ G
      BY <1>3, <2>1, <2>5
    <3>2. TakenAt(G, t, step, pc) /\ (step = 201 => pc = 1)
      BY <1>8, <2>5, RolesTake
    <3>3. step \in StepSet
      BY <2>1
    <3>6. RightsSound(R)
      BY <1>5, <2>1
    <3>4. RightsAt(R, ip, t, step, pc, FALSE)
      BY <2>1, <2>2, <2>5
    <3>7. pc \in Nat \ {0}
      BY <2>1
    <3> HIDE DEF Q, R, G, ip, t
    <3>5. RightsAt(R \ G, ip, t, step, pc + 1, FALSE)
      BY ONLY <3>2, <3>3, <3>4, <3>6, <3>7, RightsTaken
    <3> QED
      BY <2>1, <2>2, <2>5, <3>1, <3>5
  <2> QED
    BY <1>2, <2>1, <2>2, <2>3, <2>4, <2>5
<1> HIDE DEF G, S, q
<1>9. DOMAIN access'[ip'] = Q
  BY <1>4
<1> HIDE DEF Q, ip, t
<1> QED
  BY <1>3, <1>4, <1>7, <1>8, <1>9 DEF RightsOK, Rights, ip, t

\* The kinds of contracts that calls change.
Touched == {"universe", "icbmEuroLock", "icbmEtherLock", "icbmEuroToken", "euroTokenController",
            "feeDisbursal"}

\* What a transaction that neither deploys nor sets roles leaves as it is.
LEMMA CallsLeave ==
    ASSUME Structure, Transaction, ~DeployContract, ~SetRoles
    PROVE  /\ \E op : Running(op) /\ op \notin {"deploy", "roles"}
           /\ Advance /\ UNCHANGED <<access, mem>> /\ OnChain' = OnChain
           /\ \A a \in OnChain : a[1] \notin Touched => contracts'[a] = contracts[a]
           /\ \/ SetManySingletons \/ SetCollectionsInterfaces
              \/ \A a \in OnChain : a[1] = "universe" => contracts'[a] = contracts[a]
<1> DEFINE Leaves(op, c, s) ==
             /\ Running(op) /\ op \notin {"deploy", "roles"} /\ c[1] \in Touched /\ Call(c, s)
             /\ c[1] = "universe" => SetManySingletons \/ SetCollectionsInterfaces
<1>1. ASSUME NEW op, NEW c, NEW s, Leaves(op, c, s)
      PROVE  /\ \E o : Running(o) /\ o \notin {"deploy", "roles"}
             /\ Advance /\ UNCHANGED <<access, mem>> /\ OnChain' = OnChain
             /\ \A a \in OnChain : a[1] \notin Touched => contracts'[a] = contracts[a]
             /\ \/ SetManySingletons \/ SetCollectionsInterfaces
                \/ \A a \in OnChain : a[1] = "universe" => contracts'[a] = contracts[a]
  <2>1. Advance /\ UNCHANGED <<access, mem>> /\ contracts' = [contracts EXCEPT ![c] = s]
    BY <1>1 DEF Call
  <2> QED
    BY <1>1, <2>1 DEF OnChain
<1> DEFINE TC == TokenController
<1>2. CASE SetManySingletons
  <2>1. Leaves("singletons", mem["universe"], [UniverseState EXCEPT !.singletons = NewSingletons])
    BY <1>2, SingletonsCalled DEF Is, Touched
  <2> QED
    BY <1>1, <2>1
<1>3. CASE SetCollectionsInterfaces
  <2>1. Is(mem["universe"], "universe")
    BY <1>3, CollectionsCalled, UniverseIsReady, UniverseIsKnown DEF Structure, ControlOK, StepSet
  <2>2. PICK s : Running("collections") /\ Call(mem["universe"], s)
    BY <1>3, CollectionsCalled
  <2>3. Leaves("collections", mem["universe"], s)
    BY <1>3, <2>1, <2>2 DEF Is, Touched
  <2> QED
    BY <1>1, <2>3
<1>4. CASE SetController
  <2>1. PICK s : Leaves("setController", AttachedLock, s)
    BY <1>4, ControllerCalled DEF Is, Touched
  <2> QED
    BY <1>1, <2>1
<1>5. CASE SetPenaltyDisbursal
  <2>1. PICK s : Leaves("setPenaltyDisbursal", PenaltyLock, s)
    BY <1>5, PenaltyCalled DEF Is, Touched
  <2> QED
    BY <1>1, <2>1
<1>6. CASE SetAllowedTransferFrom
  <2>1. PICK s : Leaves("allowTransferFrom", IcbmState.euroToken, s)
    BY <1>6, AllowFromCalled DEF Is, Touched
  <2> QED
    BY <1>1, <2>1
<1>7. CASE SetAllowedTransferTo
  <2>1. PICK s : Leaves("allowTransferTo", IcbmState.euroToken, s)
    BY <1>7, AllowToCalled DEF Is, Touched
  <2> QED
    BY <1>1, <2>1
<1>8. CASE ApplySettings
  <2>1. PICK s : Leaves("applySettings", TC, s)
    BY <1>8, SettingsCalled DEF Is, Touched
  <2> QED
    BY <1>1, <2>1
<1>9. CASE ApplyFeeSettings
  <2>1. Running("applyFeeSettings") /\ Call(TC, contracts[TC])
    BY <1>9 DEF ApplyFeeSettings
  <2>2. step = 11
    BY <2>1, RunningIs, CallsAt DEF Structure
  <2>3. Is(TC, "euroTokenController")
    BY <2>2, UniverseIsReady
  <2>4. Leaves("applyFeeSettings", TC, contracts[TC])
    BY <2>1, <2>3 DEF Is, Touched
  <2> QED
    BY <1>1, <2>4
<1>10. CASE ChangeDepositManager
  <2>1. PICK s : Leaves("changeDepositManager", TC, s)
    BY <1>10, ManagerCalled DEF Is, Touched
  <2> QED
    BY <1>1, <2>1
<1>11. CASE ChangeFeeDisbursalController
  <2>1. PICK s : Leaves("changeFeeDisbursalController", SingletonOf("feeDisbursal"), s)
    BY <1>11, DisbursalCalled DEF Is, Touched
  <2> QED
    BY <1>1, <2>1
<1>12. CASE AmendAgreement
  BY <1>12 DEF AmendAgreement, OnChain
<1> QED
  BY <1>2, <1>3, <1>4, <1>5, <1>6, <1>7, <1>8, <1>9, <1>10, <1>11, <1>12 DEF Transaction

\* Where the place within the migration says nothing of the rights.
LEMMA RightsStay ==
    ASSUME NEW R, NEW p, NEW t, NEW n \in StepSet \ {6, 201}, NEW i \in Nat, NEW j \in Nat,
           NEW isolated \in BOOLEAN, RightsAt(R, p, t, n, i, isolated)
    PROVE  RightsAt(R, p, t, n, j, isolated)
BY DEF RightsAt, StepSet

\* Neither these transactions
LEMMA CallsKeepRights ==
    ASSUME Structure, RightsOK, Transaction, ~DeployContract, ~SetRoles
    PROVE  RightsOK'
<1>1. /\ Advance /\ UNCHANGED <<access, mem>>
      /\ \A a \in OnChain : a[1] \notin Touched => contracts'[a] = contracts[a]
  BY CallsLeave
<1>2. /\ step \in StepSet \ {2, 6, 201} /\ ~Skipped /\ config.isolated \in BOOLEAN /\ pc \in Nat
  <2>1. PICK op : Running(op) /\ op \notin {"deploy", "roles"}
    BY CallsLeave
  <2>2. /\ step \in StepSet /\ pc \in 1 .. LengthOf(step) /\ OpAt(step, pc) = op
        /\ ~Skipped /\ config.isolated \in BOOLEAN
    BY <2>1, RunningIs DEF Structure
  <2> QED
    BY <2>1, <2>2, Lengths DEF OpAt
<1> DEFINE p == IcbmState.policy
           t == IcbmState.euroToken
<1>3. p' = p /\ t' = t
  <2>1. Is(mem["commitment"], "commitment")
    BY <1>2, IcbmInUse
  <2> QED
    BY <1>1, <2>1 DEF IcbmState, Is, Touched
<1>4. /\ pc' = pc + 1 /\ Stage' = Stage /\ isLiveDeployment' = isLiveDeployment /\ config' = config
  BY <1>1 DEF Advance, Stage, Skipped, ShouldSkipStep, isLiveDeployment
<1>5. Stage = step /\ Stage # 2
  BY <1>2 DEF Stage
<1>6. isLiveDeployment => RightsAt(Rights(p), p, t, Stage, pc + 1, config.isolated)
  <2> HIDE DEF p, t
  <2>1. isLiveDeployment => RightsAt(Rights(p), p, t, Stage, pc, config.isolated)
    BY <1>5 DEF RightsOK, p, t
  <2> QED
    BY <1>2, <1>5, <2>1, RightsStay
<1>7. Policies' = Policies /\ \A q : Rights(q)' = Rights(q)
  BY <1>1 DEF Policies, Rights
<1>8. \A q \in Policies : RightsSound(Rights(q))
  BY DEF RightsOK
<1> HIDE DEF p, t
<1> QED
  BY <1>3, <1>4, <1>5, <1>6, <1>7, <1>8 DEF RightsOK, p, t

\* nor deployments disturb the rights.
LEMMA DeployKeepsRights ==
    ASSUME Structure, RightsOK, DeployContract
    PROVE  RightsOK'
<1>1. PICK kind, this, r : Deploys(kind, this, r)
  BY DeployCalled
<1>2. Appears(kind, this, r)
  BY <1>1, DeployedAnew
<1>3. /\ step \in StepSet /\ pc \in Nat /\ pc \in 1 .. LengthOf(step) /\ ~Skipped
      /\ config.isolated \in BOOLEAN /\ kind = DeployedAt(step, pc) /\ pc' = pc + 1
      /\ UNCHANGED <<network, config, step>> /\ step \notin {3, 4, 5, 6, 10, 11, 201}
      /\ kind \in IcbmKinds => step = 2
      /\ kind = "policy" => pc = 1
  BY <1>1, <1>2, DeployMoves
<1>4. /\ this \notin OnChain /\ OnChain' = OnChain \cup {this}
      /\ \A a \in OnChain : contracts'[a] = contracts[a]
      /\ Policies' = IF kind = "policy" THEN Policies \cup {this} ELSE Policies
      /\ mem'[kind] = this /\ \A k \in Kinds \ {kind} : mem'[k] = mem[k]
  BY <1>2 DEF Appears
<1>5. access' = IF kind = "policy" THEN Added(access, this, NewPolicy(DEPLOYER, this)) ELSE access
  BY <1>1 DEF Deploys
<1>6. this \notin Policies
  BY <1>4 DEF Structure, AddressesOK, OfKind
<1>7. \A q \in Policies : Rights(q)' = Rights(q)
  BY <1>5, <1>6 DEF Policies, Rights, Added
<1>8. ASSUME kind = "policy"
      PROVE  RightsSound(Rights(this)') /\ HeldIn(Rights(this)') = {}
  <2> DEFINE N == {<<DEPLOYER, "accessController", this>>, <<DEPLOYER, "accessController", GLOBAL>>}
  <2>1. Rights(this)' = N
    BY <1>5, <1>8 DEF Added, Rights, NewPolicy
  <2>2. RightsSound(N) /\ HeldIn(N) = {}
    BY DEF RightsSound, HeldIn, Temporary
  <2> HIDE DEF N
  <2> QED
    BY <2>1, <2>2
<1>9. \A q \in Policies : RightsSound(Rights(q))
  BY DEF RightsOK
<1>10. \A q \in Policies' : RightsSound(Rights(q)')
  BY <1>4, <1>7, <1>8, <1>9
<1>11. Stage = step /\ Stage' = Stage /\ isLiveDeployment' = isLiveDeployment
  BY <1>3 DEF Stage, Skipped, ShouldSkipStep, isLiveDeployment
<1>12. ASSUME isLiveDeployment, step = 2
       PROVE  HeldIn(DOMAIN access'[mem'["policy"]]) = {}
  <2>1. CASE kind = "policy"
    BY <1>4, <1>8, <2>1 DEF Rights
  <2>2. CASE kind # "policy"
    <3>1. pc > 1
      BY <1>3, <1>12, <2>2 DEF DeployedAt
    <3>2. HeldIn(Rights(mem["policy"])) = {}
      BY <1>11, <1>12, <3>1 DEF RightsOK
    <3>3. DeployedBefore("policy")
      BY <1>3, <1>12, <3>1 DEF DeployedBefore, Place
    <3>4. mem["policy"] \in Policies
      BY <3>3, DeployedEarlier, KindsAre
    <3>5. mem'["policy"] = mem["policy"]
      BY <1>4, <2>2, KindsAre
    <3> QED
      BY <1>7, <3>2, <3>4, <3>5 DEF Rights
  <2> QED
    BY <2>1, <2>2
<1> DEFINE p == IcbmState.policy
           t == IcbmState.euroToken
<1>13. ASSUME isLiveDeployment, step # 2
       PROVE  /\ p' = p /\ t' = t /\ Rights(p)' = Rights(p)
              /\ RightsAt(Rights(p), p, t, Stage, pc + 1, config.isolated)
  <2>1. Is(mem["commitment"], "commitment") /\ p \in Policies
    BY <1>13, IcbmInUse
  <2>2. mem'["commitment"] = mem["commitment"]
    <3>1. "commitment" \in Kinds /\ kind # "commitment"
      BY <1>3, <1>13, KindsAre DEF IcbmKinds
    <3> QED
      BY <1>4, <3>1
  <2>3. IcbmState' = IcbmState
    BY <1>4, <2>1, <2>2 DEF IcbmState, Is
  <2>4. RightsAt(Rights(p), p, t, Stage, pc, config.isolated)
    BY <1>11, <1>13 DEF RightsOK
  <2>5. p' = p /\ t' = t
    BY <2>3
  <2>6. DOMAIN access'[p] = Rights(p)
    BY <1>7, <2>1 DEF Rights
  <2>7. Rights(p)' = Rights(p)
    BY <2>5, <2>6 DEF Rights
  <2> HIDE DEF p, t
  <2>8. RightsAt(Rights(p), p, t, Stage, pc + 1, config.isolated)
    BY <1>3, <1>11, <2>4, RightsStay
  <2> QED
    BY <2>5, <2>7, <2>8
<1>14. isLiveDeployment' /\ Stage' = 2 /\ pc' > 1 => HeldIn(Rights(mem["policy"]))' = {}
  BY <1>11, <1>12 DEF Rights
<1>15. isLiveDeployment' /\ Stage' # 2 =>
         RightsAt(Rights(p), p, t, Stage, pc, config.isolated)'
  <2>1. isLiveDeployment /\ Stage # 2 =>
          RightsAt(Rights(p)', p', t', Stage, pc + 1, config.isolated)
    BY <1>11, <1>13
  <2> HIDE DEF p, t
  <2> QED
    BY <1>3, <1>11, <2>1
<1> HIDE DEF p, t
<1> QED
  BY <1>10, <1>14, <1>15 DEF RightsOK, p, t

\* The rights hold with the structure.
LEMMA RightsHold == Spec => [](Structure /\ RightsOK)
<1>1. Init => RightsOK
  BY StepsInOrder DEF Init, RightsOK, Policies, Stage, Skipped, ShouldSkipStep
<1>2. Structure /\ RightsOK /\ [Next]_vars => RightsOK'
  <2> SUFFICES ASSUME Structure, RightsOK, [Next]_vars PROVE RightsOK'
    OBVIOUS
  <2>1. CASE DeployContract
    BY <2>1, DeployKeepsRights
  <2>2. CASE SetRoles
    BY <2>2, RolesKeepRights
  <2>3. CASE Transaction /\ ~DeployContract /\ ~SetRoles
    BY <2>3, CallsKeepRights
  <2>4. CASE Course
    BY <2>4, CourseKeepsRights
  <2> QED
    BY <2>1, <2>2, <2>3, <2>4 DEF Next, Runs, Course
<1>3. Init => Structure
  BY InitHasStructure
<1>4. Structure /\ [Next]_vars => Structure'
  BY StructureIsInductive
<1> QED
  BY <1>1, <1>2, <1>3, <1>4, PTL DEF Spec

\* Who has no temporary right is not allowed to use one.
LEMMA NotAllowed ==
    ASSUME NEW policy, HeldIn(DOMAIN policy) = {}, RightsSound(DOMAIN policy),
           NEW role \in Temporary, NEW object
    PROVE  ~Allowed(policy, DEPLOYER, role, object)
<1>1. \A o : <<DEPLOYER, role, o>> \notin DOMAIN policy
  <2> SUFFICES ASSUME NEW o, <<DEPLOYER, role, o>> \in DOMAIN policy PROVE FALSE
    OBVIOUS
  <2> DEFINE k == <<DEPLOYER, role, o>>
  <2>1. k[1] = DEPLOYER /\ k[2] = role
    OBVIOUS
  <2> QED
    BY <2>1 DEF HeldIn
<1>2. \A o : <<EVERYONE, role, o>> \notin DOMAIN policy
  <2> SUFFICES ASSUME NEW o, <<EVERYONE, role, o>> \in DOMAIN policy PROVE FALSE
    OBVIOUS
  <2> DEFINE k == <<EVERYONE, role, o>>
  <2>1. k[1] = EVERYONE /\ k[2] = role
    OBVIOUS
  <2> QED
    BY <2>1 DEF RightsSound
<1>3. \A o : Access(policy, DEPLOYER, role, o) = "Unset" /\ Access(policy, EVERYONE, role, o) = "Unset"
  BY <1>1, <1>2 DEF Access
<1>4. \A i \in 1 .. 4 : Cascade(policy, DEPLOYER, role, object)[i] = "Unset"
  BY <1>3 DEF Cascade
<1> QED
  BY <1>4 DEF Allowed

\* When the deployment is done, the deployer holds no right of those migration 201 names on a
\* contract of the universe, whichever attempts granted him one and whenever they stopped.
THEOREM TemporaryRightsAreDropped == Spec => []TemporaryRightsDropped
<1>1. Structure /\ RightsOK => TemporaryRightsDropped
  <2> SUFFICES ASSUME Structure, RightsOK, isLiveDeployment, ~config.isolated, status = "done",
                      NEW role \in Temporary, NEW name \in SingletonNames
               PROVE  ~Allowed(access[IcbmPolicy], DEPLOYER, role, SingletonOf(name))
    BY DEF TemporaryRightsDropped, Temporary
  <2>1. step = 201 /\ pc = 2
    BY DEF Structure, ControlOK, LengthOf
  <2>2. IcbmPolicy = IcbmState.policy /\ IcbmState.policy \in Policies
    BY <2>1, IcbmInUse DEF IcbmPolicy, IcbmState
  <2>3. HeldIn(Rights(IcbmState.policy)) = {}
    <3>1. Stage = 201
      BY <2>1 DEF Stage, Skipped, ShouldSkipStep
    <3> HIDE DEF HeldIn
    <3> QED
      BY <2>1, <3>1 DEF RightsOK, RightsAt
  <2>4. RightsSound(Rights(IcbmState.policy))
    BY <2>2 DEF RightsOK
  <2> QED
    BY <2>2, <2>3, <2>4, NotAllowed DEF Rights
<1> QED
  BY <1>1, RightsHold, PTL

\* On the contracts of the ICBM nothing is accepted from the deployer of an isolated universe.
LEMMA IcbmIsClosed ==
    ASSUME Structure, RightsOK, isLiveDeployment, config.isolated, NEW op, Running(op)
    PROVE  /\ step >= 9 /\ IcbmPolicy = IcbmState.policy /\ IcbmState.policy \in Policies
           /\ \A role \in Temporary : \A o : May(DEPLOYER, role, o) => contracts[o].policy # IcbmPolicy
<1>1. step \in StepSet /\ ~Skipped
  BY RunningIs DEF Structure
<1>2. step >= 9
  BY <1>1 DEF Structure, ConfigOK, Skipped, ShouldSkipStep, StepSet
<1>3. IcbmPolicy = IcbmState.policy /\ IcbmState.policy \in Policies
  BY <1>2, IcbmInUse DEF IcbmPolicy, IcbmState
<1>4. Stage = step
  BY <1>1 DEF Stage
<1>5. HeldIn(Rights(IcbmPolicy)) = {}
  <2> HIDE DEF HeldIn
  <2> QED
    BY <1>2, <1>3, <1>4 DEF RightsOK, RightsAt
<1>6. RightsSound(Rights(IcbmPolicy))
  BY <1>3 DEF RightsOK
<1>7. \A role \in Temporary : \A o : ~Allowed(access[IcbmPolicy], DEPLOYER, role, o)
  BY <1>5, <1>6, NotAllowed DEF Rights
<1> HIDE DEF IcbmPolicy
<1> QED
  BY <1>2, <1>3, <1>7 DEF May

\* A transaction of a migration that builds an isolated universe changes no contract of the
\* ICBM and no role of its policy: a universe of its own has a policy of its own, and on the
\* ICBM the deployer has lost every right migration 201 names.
THEOREM IsolatedUniversesLeaveTheIcbm == Spec => IsolatedLeavesIcbmAlone
<1> DEFINE Left == /\ access'[IcbmPolicy] = access[IcbmPolicy]
                   /\ \A a \in DOMAIN contracts :
                        contracts[a].policy = IcbmPolicy => contracts'[a] = contracts[a]
<1>1. ASSUME Structure, RightsOK, isLiveDeployment, config.isolated, Transaction
      PROVE  Left
  <2>1. CASE DeployContract
    <3>1. PICK kind, this, r : Deploys(kind, this, r)
      BY <1>1, <2>1, DeployCalled
    <3>2. /\ \A a \in OnChain : contracts'[a] = contracts[a]
          /\ this \notin OnChain
      BY <1>1, <3>1, DeployedAnew DEF Appears
    <3>3. IcbmPolicy \in Policies
      <4>1. Running("deploy")
        BY <3>1 DEF Deploys
      <4> QED
        BY <1>1, <4>1, IcbmIsClosed
    <3>4. access'[IcbmPolicy] = access[IcbmPolicy]
      <4>1. IcbmPolicy # this
        BY <1>1, <3>2, <3>3 DEF Structure, AddressesOK, OfKind
      <4> HIDE DEF IcbmPolicy
      <4> QED
        BY <3>1, <3>3, <4>1 DEF Deploys, Added, Policies
    <3> QED
      BY <3>2, <3>4 DEF OnChain
  <2>2. CASE SetRoles
    <3>1. /\ contracts' = contracts
          /\ access' = [access EXCEPT ![Ref(PolicyAt(step))] =
                          Changed(DOMAIN @, KeysAt(step, pc), StateAt(step, pc))]
      BY <1>1, <2>2, SetRolesChanges
    <3>2. Ref(PolicyAt(step)) # IcbmState.policy /\ IcbmPolicy = IcbmState.policy
      BY <1>1, <2>2, RolesWhere, IcbmIsClosed DEF SetRoles
    <3> HIDE DEF IcbmPolicy
    <3> QED
      BY <3>1, <3>2
  <2>3. ASSUME NEW c, NEW s, Call(c, s), contracts[c].policy # IcbmPolicy
        PROVE  Left
    <3> HIDE DEF IcbmPolicy
    <3> QED
      BY <2>3 DEF Call
  <2>4. CASE SetManySingletons \/ SetCollectionsInterfaces
    <3>1. PICK op : Running(op) /\ op # "deploy"
      BY <2>4 DEF SetManySingletons, SetCollectionsInterfaces
    <3>2. mem["universe"] # Zero /\ step >= 9
      <4>1. SetManySingletons => mem["universe"] # Zero
        BY <1>1, SingletonsCalled, NotContracts DEF Structure, AddressesOK, Is
      <4>2. SetCollectionsInterfaces => mem["universe"] # Zero
        BY <1>1, CollectionsCalled, UniverseIsReady
      <4> QED
        BY <1>1, <2>4, <3>1, <4>1, <4>2, IcbmIsClosed
    <3>3. UniverseInUse = mem["universe"]
      BY <1>1, <3>2, UniverseIsKnown
    <3>4. UniverseState.policy # IcbmState.policy
      <4>1. CASE step > 9
        BY <1>1, <4>1, UniverseIsReady
      <4>2. CASE step = 9
        <5>1. SetManySingletons /\ pc = 11 + Offset
          BY <1>1, <2>4, <4>2, SingletonsCalled, CollectionsCalled
        <5>2. DeployedBefore("universe") /\ DeployedBefore("policy")
          BY <1>1, <3>1, <4>2, <5>1, RunningIs DEF DeployedBefore, Place, Offset, Structure
        <5> QED
          BY <1>1, <4>2, <5>2 DEF Structure, PlatformStage
      <4> QED
        BY <1>1, <3>2, <4>1, <4>2 DEF Structure, ControlOK, StepSet
    <3>5. contracts[UniverseInUse].policy # IcbmPolicy
      BY <1>1, <3>1, <3>3, <3>4, IcbmIsClosed DEF UniverseState
    <3>6. PICK s : Call(UniverseInUse, s)
      BY <2>4 DEF SetManySingletons, SetCollectionsInterfaces
    <3> QED
      BY <2>3, <3>5, <3>6
  <2>5. ASSUME NEW op, Running(op), Accepted, NEW c, NEW s, Call(c, s), NEW role \in Temporary,
               May(DEPLOYER, role, c)
        PROVE  Left
    BY <1>1, <2>3, <2>5, IcbmIsClosed
  <2>6. CASE SetController \/ SetPenaltyDisbursal
    <3>1. PICK op : /\ op \in {"setController", "setPenaltyDisbursal"} /\ Running(op) /\ Accepted
                    /\ \E s : Call(Ref(Current.lock), s)
      BY <2>6 DEF SetController, SetPenaltyDisbursal
    <3>2. May(DEPLOYER, "lockedAccountAdmin", Ref(Current.lock))
      BY <3>1 DEF Accepted, Running
    <3> QED
      BY <2>5, <3>1, <3>2 DEF Temporary
  <2>7. CASE SetAllowedTransferFrom \/ SetAllowedTransferTo
    <3>1. PICK op : /\ op \in {"allowTransferFrom", "allowTransferTo"} /\ Running(op) /\ Accepted
                    /\ \E s : Call(Ref(Current.token), s)
      BY <2>7 DEF SetAllowedTransferFrom, SetAllowedTransferTo
    <3>2. May(DEPLOYER, "eurtDepositManager", Ref(Current.token))
      BY <3>1 DEF Accepted, Running
    <3> QED
      BY <2>5, <3>1, <3>2 DEF Temporary
  <2>8. CASE ApplySettings \/ ChangeDepositManager
    <3>1. PICK op : /\ op \in {"applySettings", "changeDepositManager"} /\ Running(op) /\ Accepted
                    /\ \E s : Call(TokenController, s)
      BY <2>8 DEF ApplySettings, ChangeDepositManager
    <3>2. May(DEPLOYER, "eurtLegalManager", TokenController)
      BY <3>1 DEF Accepted, Running
    <3> QED
      BY <2>5, <3>1, <3>2 DEF Temporary
  <2>9. CASE ApplyFeeSettings
    <3>1. Running("applyFeeSettings") /\ Accepted /\ \E s : Call(TokenController, s)
      BY <2>9 DEF ApplyFeeSettings
    <3>2. May(DEPLOYER, "eurtDepositManager", TokenController)
      BY <3>1 DEF Accepted, Running
    <3> QED
      BY <2>5, <3>1, <3>2 DEF Temporary
  <2>10. CASE ChangeFeeDisbursalController
    <3>1. /\ Running("changeFeeDisbursalController") /\ Accepted
          /\ \E s : Call(SingletonOf("feeDisbursal"), s)
      BY <2>10 DEF ChangeFeeDisbursalController
    <3>2. May(DEPLOYER, "disbursalManager", SingletonOf("feeDisbursal"))
      BY <3>1 DEF Accepted, Running
    <3> QED
      BY <2>5, <3>1, <3>2 DEF Temporary
  <2>11. CASE AmendAgreement
    BY <2>11 DEF AmendAgreement
  <2> QED
    BY <1>1, <2>1, <2>2, <2>4, <2>6, <2>7, <2>8, <2>9, <2>10, <2>11 DEF Transaction
<1>2. Structure /\ RightsOK /\ [Next]_vars =>
        [isLiveDeployment /\ config.isolated /\ Transaction => Left]_vars
  BY <1>1
<1> QED
  BY <1>2, RightsHold, PTL DEF Spec, IsolatedLeavesIcbmAlone

-----------------------------------------------------------------------------
(* The wiring of the platform *)

\* The contracts a universe that is set up works with, and what they are set to.
Managing == contracts[UniverseState.singletons["euroToken"]].controller
Disbursal == UniverseState.singletons["feeDisbursal"]
Voting == UniverseState.singletons["votingCenter"]
Manager == contracts[Managing].depositManager
Movers == contracts[Managing].from \cap contracts[Managing].to
OldFrom == contracts[IcbmState.euroToken].from
OldTo == contracts[IcbmState.euroToken].to
EuroPenalty == contracts[IcbmState.euroLock].penaltyDisbursal
EtherPenalty == contracts[IcbmState.etherLock].penaltyDisbursal
wires == <<Disbursal, Voting, Manager, Movers, OldFrom, OldTo, EuroPenalty, EtherPenalty>>

\* Operation i of migration n is behind.
Reached(n, i) == step > n \/ (step = n /\ pc > i)

\* The old euro token is opened to a fee disbursal only after both locks pay it the penalties.
WiringOK ==
    /\ (step = 9 /\ pc > 11 + Offset) \/ step \in {10, 11} => Disbursal \in Wallets
    /\ step > 9 => (Disbursal \in OldTo => EuroPenalty = Disbursal /\ EtherPenalty = Disbursal)
    /\ Reached(11, 5) => Manager = Account("EURT_DEPOSIT_MANAGER")
    /\ step = 12 /\ pc \in 3 .. 8 => mem["feeDisbursal"] \notin OldTo
    /\ step = 12 /\ pc > 4 => Disbursal = mem["feeDisbursal"]
    /\ Reached(12, 5) => Disbursal \in Movers
    /\ Reached(12, 6) => EuroPenalty = Disbursal
    /\ Reached(12, 7) => EtherPenalty = Disbursal
    /\ Reached(12, 8) => Disbursal \in OldTo
    /\ Reached(12, 9) => Disbursal \in OldFrom
    /\ Reached(16, 4) => Voting # Zero

\* What the wired contracts are.
LEMMA WiredContracts ==
    ASSUME Structure, step > 9
    PROVE  /\ Is(mem["universe"], "universe") /\ Is(mem["commitment"], "commitment")
           /\ Is(UniverseState.singletons["euroToken"], "euroToken")
           /\ Is(Managing, "euroTokenController") /\ Managing = TokenController
           /\ Is(IcbmState.euroToken, "icbmEuroToken")
           /\ Is(IcbmState.euroLock, "icbmEuroLock") /\ Is(IcbmState.etherLock, "icbmEtherLock")
           /\ OldTo \subseteq OnChain
           /\ Disbursal \in Wallets \/ Is(Disbursal, "feeDisbursal")
           /\ \A name : SingletonOf(name) = UniverseState.singletons[name]
<1>1. /\ Is(mem["universe"], "universe") /\ \A name : SingletonOf(name) = UniverseState.singletons[name]
      /\ \A name \in SingletonNames \ {"votingCenter"} : UniverseState.singletons[name] # Zero
  BY UniverseIsReady, UniverseIsKnown DEF Structure, ControlOK, StepSet, ReadyStage, Ready
<1>2. /\ Is(mem["commitment"], "commitment") /\ Is(IcbmState.euroToken, "icbmEuroToken")
      /\ Is(IcbmState.euroLock, "icbmEuroLock") /\ Is(IcbmState.etherLock, "icbmEtherLock")
  BY IcbmInUse, IcbmRegistered
<1>3. /\ Is(UniverseState.singletons["euroToken"], "euroToken")
      /\ Managing = TokenController /\ Is(TokenController, "euroTokenController")
  BY <1>1, UniverseIsReady DEF Managing, TokenController
<1>4. OldTo \subseteq OnChain
  <2>1. contracts[IcbmState.euroToken] \in TokenShape(OnChain, Policies)
    BY <1>2, ContractShapes
  <2> QED
    BY <2>1 DEF OldTo, TokenShape
<1>5. Disbursal \in Wallets \/ Is(Disbursal, "feeDisbursal")
  <2>1. SingletonOK("feeDisbursal", Disbursal) /\ Disbursal # Zero
    BY <1>1, Known, NamesKnown DEF Disbursal
  <2>2. KindOf("feeDisbursal") = "feeDisbursal"
    BY NamesKnown DEF UnderPolicy
  <2> QED
    BY <2>1, <2>2 DEF SingletonOK
<1> QED
  BY <1>1, <1>2, <1>3, <1>4, <1>5

\* The kinds of the contracts the wires are read from, the universe apart.
WiredKinds == {"commitment", "euroToken", "euroTokenController", "icbmEuroToken",
               "icbmEuroLock", "icbmEtherLock"}

\* The wires depend on no other contract.
LEMMA WiresKept ==
    ASSUME Structure, step > 9, mem'["universe"] = mem["universe"],
           mem'["commitment"] = mem["commitment"],
           contracts'[mem["universe"]].singletons = UniverseState.singletons,
           \A a \in OnChain : a[1] \in WiredKinds => contracts'[a] = contracts[a]
    PROVE  UNCHANGED wires
<1>1. IcbmState' = IcbmState /\ UniverseState.singletons' = UniverseState.singletons
  BY WiredContracts DEF IcbmState, UniverseState, WiredKinds, Is
<1>2. Managing' = Managing
  BY <1>1, WiredContracts DEF Managing, WiredKinds, Is
<1>3. /\ contracts'[Managing] = contracts[Managing]
      /\ contracts'[IcbmState.euroToken] = contracts[IcbmState.euroToken]
      /\ contracts'[IcbmState.euroLock] = contracts[IcbmState.euroLock]
      /\ contracts'[IcbmState.etherLock] = contracts[IcbmState.etherLock]
  BY WiredContracts DEF WiredKinds, Is
<1> QED
  BY <1>1, <1>2, <1>3 DEF wires, Disbursal, Voting, Manager, Movers, OldFrom, OldTo, EuroPenalty,
                          EtherPenalty

\* Where the transactions are that change a wire.
WiringPlaces == {<<11, 5>>, <<12, 2>>, <<12, 4>>, <<12, 5>>, <<12, 6>>, <<12, 7>>, <<12, 8>>,
                 <<12, 9>>, <<16, 4>>}

\* Elsewhere the next place asks no more of the wires.
LEMMA WiringGoesOn ==
    ASSUME Structure, WiringOK, step > 9, UNCHANGED <<wires, step>>, pc \in Nat, pc' = pc + 1,
           mem'["feeDisbursal"] = mem["feeDisbursal"], <<step, pc>> \notin WiringPlaces
    PROVE  WiringOK'
<1>1. step \in StepSet
  BY DEF Structure, ControlOK
<1>2. \A n, i : <<step, pc>> = <<n, i>> <=> step = n /\ pc = i
  OBVIOUS
<1>3. /\ ~(step = 11 /\ pc = 5) /\ ~(step = 12 /\ pc \in {2, 4, 5, 6, 7, 8, 9})
      /\ ~(step = 16 /\ pc = 4)
  BY <1>2 DEF WiringPlaces
<1> QED
  BY <1>1, <1>3 DEF WiringOK, Reached, wires, StepSet

\* Before the universe is set up there is nothing to ask.
LEMMA WiringNotYet ==
    ASSUME Structure, step <= 9, NEW op, Running(op), op # "singletons", Advance
    PROVE  WiringOK'
<1>1. /\ step \in StepSet /\ pc \in 1 .. LengthOf(step) /\ OpAt(step, pc) = op
      /\ config.isolated \in BOOLEAN
  BY RunningIs DEF Structure
<1>2. pc \in Nat /\ step' = step /\ pc' = pc + 1 /\ Offset' = Offset /\ Offset \in {0, 1}
  BY <1>1, Lengths DEF Advance, Offset
<1>3. step = 9 => pc < 11 + Offset
  BY <1>1, <1>2 DEF OpAt, LengthOf
<1>4. step < 10 /\ (step = 9 => pc' <= 11 + Offset)
  BY <1>1, <1>2, <1>3 DEF StepSet
<1> QED
  BY <1>1, <1>2, <1>4 DEF WiringOK, Reached, StepSet

\* A deployment changes no wire: what it deploys is not wired yet.
LEMMA DeployKeepsWiring ==
    ASSUME Structure, WiringOK, DeployContract
    PROVE  WiringOK'
<1>1. PICK kind, this, r : Deploys(kind, this, r)
  BY DeployCalled
<1>2. /\ step \in StepSet /\ pc \in Nat /\ pc \in 1 .. LengthOf(step) /\ config.isolated \in BOOLEAN
      /\ OpAt(step, pc) = "deploy" /\ kind = DeployedAt(step, pc) /\ Running("deploy") /\ Advance
  BY <1>1, RunningIs, Lengths DEF Deploys, Structure
<1>3. CASE step <= 9
  BY <1>2, <1>3, WiringNotYet
<1>4. CASE step > 9
  <2>1. /\ this \notin OnChain /\ \A a \in OnChain : contracts'[a] = contracts[a]
        /\ mem'[kind] = this /\ \A k \in Kinds \ {kind} : mem'[k] = mem[k]
    BY <1>1, DeployedAnew DEF Appears
  <2>2. kind \notin {"universe", "commitment"}
    BY <1>2, <1>4, DeployedWhere DEF IcbmKinds, PlatformKinds
  <2>3. mem'["universe"] = mem["universe"] /\ mem'["commitment"] = mem["commitment"]
    BY <2>1, <2>2, KindsAre
  <2>4. contracts'[mem["universe"]].singletons = UniverseState.singletons
    BY <1>4, <2>1, WiredContracts DEF UniverseState, Is
  <2>5. UNCHANGED wires
    BY <1>4, <2>1, <2>3, <2>4, WiresKept
  <2>6. step' = step /\ pc' = pc + 1
    BY <1>2 DEF Advance
  <2>7. CASE kind = "feeDisbursal"
    <3>1. step = 12 /\ pc = 2
      BY <1>2, <2>7, DeployedWhere DEF DeployedAt
    <3>2. mem'["feeDisbursal"] \notin OldTo
      BY <1>4, <2>1, <2>7, WiredContracts
    <3> QED
      BY <2>5, <2>6, <3>1, <3>2 DEF WiringOK, Reached, wires
  <2>8. CASE kind # "feeDisbursal"
    <3>1. mem'["feeDisbursal"] = mem["feeDisbursal"]
      BY <2>1, <2>8, KindsAre
    <3>2. \A n, i : <<step, pc>> = <<n, i>> <=> step = n /\ pc = i
      OBVIOUS
    <3>3. <<step, pc>> \notin WiringPlaces
      BY <1>2, <2>8, <3>2 DEF WiringPlaces, OpAt, DeployedAt
    <3> QED
      BY <1>2, <1>4, <2>5, <2>6, <3>1, <3>3, WiringGoesOn
  <2> QED
    BY <2>7, <2>8
<1> QED
  BY <1>2, <1>3, <1>4 DEF StepSet

\* The calls that change no wire.
LEMMA QuietCall ==
    ASSUME Structure, WiringOK, NEW op, Running(op),
           op \notin {"deploy", "singletons", "setPenaltyDisbursal", "allowTransferFrom",
                      "allowTransferTo", "applySettings", "changeDepositManager"},
           Advance, UNCHANGED mem,
           step > 9 => /\ contracts'[mem["universe"]].singletons = UniverseState.singletons
                       /\ \A a \in OnChain : a[1] \in WiredKinds => contracts'[a] = contracts[a]
    PROVE  WiringOK'
<1>1. /\ step \in StepSet /\ pc \in 1 .. LengthOf(step) /\ OpAt(step, pc) = op
      /\ config.isolated \in BOOLEAN /\ pc \in Nat
  BY RunningIs, Lengths DEF Structure
<1>2. CASE step <= 9
  BY <1>2, WiringNotYet
<1>3. CASE step > 9
  <2>1. UNCHANGED wires
    BY <1>3, WiresKept
  <2>2. \A n, i : <<step, pc>> = <<n, i>> <=> step = n /\ pc = i
    OBVIOUS
  <2>3. <<step, pc>> \notin WiringPlaces
    BY <1>1, <2>2 DEF WiringPlaces, OpAt
  <2> QED
    BY <1>1, <1>3, <2>1, <2>3, WiringGoesOn DEF Advance
<1> QED
  BY <1>1, <1>2, <1>3 DEF StepSet

\* Each of them keeps the wiring.
LEMMA QuietCallsKeepWiring ==
    ASSUME Structure, WiringOK,
           SetRoles \/ SetCollectionsInterfaces \/ SetController \/ ApplyFeeSettings
           \/ ChangeFeeDisbursalController \/ AmendAgreement
    PROVE  WiringOK'
<1>1. CASE SetRoles
  BY <1>1, SetRolesChanges, QuietCall DEF UniverseState
<1>2. CASE SetCollectionsInterfaces
  <2>1. PICK C : Call(mem["universe"], [UniverseState EXCEPT !.collections = C])
    BY <1>2, CollectionsCalled
  <2>2. Running("collections") /\ step > 9 /\ Advance /\ UNCHANGED mem
        /\ contracts' = [contracts EXCEPT ![mem["universe"]] = [UniverseState EXCEPT !.collections = C]]
    BY <1>2, <2>1, CollectionsCalled DEF Call
  <2>3. Is(mem["universe"], "universe") /\ UniverseState \in UniverseShape(OnChain, Policies)
    BY <2>2, WiredContracts, ContractShapes DEF UniverseState
  <2>4. contracts'[mem["universe"]].singletons = UniverseState.singletons
    BY <2>2, <2>3 DEF Is, OnChain, UniverseShape
  <2>5. \A a \in OnChain : a[1] \in WiredKinds => contracts'[a] = contracts[a]
    BY <2>2, <2>3 DEF Is, WiredKinds
  <2> QED
    BY <2>2, <2>4, <2>5, QuietCall
<1>3. CASE SetController
  BY <1>3, ControllerCalled, WiringNotYet DEF Call
<1>4. CASE ApplyFeeSettings
  <2>1. Running("applyFeeSettings") /\ Call(TokenController, contracts[TokenController])
    BY <1>4 DEF ApplyFeeSettings
  <2>2. \A a \in OnChain : contracts'[a] = contracts[a]
    BY <2>1 DEF Call
  <2>3. step > 9 => Is(mem["universe"], "universe")
    BY WiredContracts
  <2> QED
    BY <2>1, <2>2, <2>3, QuietCall DEF Call, UniverseState, Is
<1>5. CASE ChangeFeeDisbursalController
  <2>1. PICK s : Call(SingletonOf("feeDisbursal"), s)
    BY <1>5, DisbursalCalled
  <2>2. /\ Running("changeFeeDisbursalController") /\ step = 14
        /\ Is(SingletonOf("feeDisbursal"), "feeDisbursal")
    BY <1>5, DisbursalCalled
  <2>3. \A a \in OnChain : a[1] # "feeDisbursal" => contracts'[a] = contracts[a]
    BY <2>1, <2>2 DEF Call, Is
  <2>4. Is(mem["universe"], "universe")
    BY <2>2, WiredContracts
  <2> QED
    BY <2>1, <2>2, <2>3, <2>4, QuietCall DEF Call, UniverseState, Is, WiredKinds
<1>6. CASE AmendAgreement
  <2>1. Running("amendAgreement") /\ Advance /\ UNCHANGED <<contracts, mem>>
    BY <1>6 DEF AmendAgreement
  <2> QED
    BY <2>1, QuietCall DEF UniverseState
<1> QED
  BY <1>1, <1>2, <1>3, <1>4, <1>5, <1>6

\* The calls that change a wire, each at its place.
LEMMA SingletonsKeepWiring ==
    ASSUME Structure, WiringOK, SetManySingletons
    PROVE  WiringOK'
<1> DEFINE u == mem["universe"]
           s == [UniverseState EXCEPT !.singletons = NewSingletons]
<1>1. /\ Running("singletons") /\ Is(u, "universe") /\ Call(u, s)
      /\ \/ step = 9 /\ pc = 11 + Offset
         \/ step = 12 /\ pc \in {4, 12}
         \/ step = 13 /\ pc = 7
         \/ step = 16 /\ pc = 4
      /\ UniverseState \in UniverseShape(OnChain, Policies)
  BY SingletonsCalled
<1>2. Advance /\ UNCHANGED mem /\ contracts' = [contracts EXCEPT ![u] = s]
  BY <1>1 DEF Call
<1>3. s.singletons = NewSingletons
  BY <1>1 DEF UniverseShape
<1> HIDE DEF s
<1>4. UniverseState.singletons' = NewSingletons
  BY <1>1, <1>2, <1>3 DEF UniverseState, Is, OnChain
<1>5. \A name \in SingletonNames :
        NewSingletons[name] = IF name \in RegisteredNames THEN RegisteredAs(name)
                              ELSE UniverseState.singletons[name]
  BY DEF NewSingletons
<1>6. {"feeDisbursal", "votingCenter", "euroToken"} \subseteq SingletonNames
      /\ step' = step /\ pc' = pc + 1 /\ Offset' = Offset /\ Offset \in {0, 1}
  BY <1>2, NamesKnown DEF UnderPolicy, Advance, Offset
<1>7. CASE step = 9
  <2>1. Disbursal' = RegisteredAs("feeDisbursal")
    BY <1>4, <1>5, <1>6, <1>7 DEF Disbursal, RegisteredNames
  <2>2. RegisteredAs("feeDisbursal") = Addresses("PLATFORM_OPERATOR_WALLET")
    BY <1>7, NamesKnown DEF RegisteredAs
  <2>3. Disbursal' \in Wallets
    BY <2>1, <2>2, ManagerIs DEF Wallets
  <2> QED
    BY <1>1, <1>6, <1>7, <2>3 DEF WiringOK, Reached
<1>8. CASE step > 9
  <2>1. "euroToken" \notin RegisteredNames
    BY <1>8 DEF RegisteredNames
  <2>2. Managing' = Managing
    <3>1. UniverseState.singletons["euroToken"]' = UniverseState.singletons["euroToken"]
      BY <1>4, <1>5, <1>6, <2>1
    <3> QED
      BY <1>2, <1>8, <3>1, WiredContracts DEF Managing, Is
  <2>3. IcbmState' = IcbmState
    BY <1>2, <1>8, WiredContracts DEF IcbmState, Is
  <2>4. \A a \in OnChain : a[1] \in WiredKinds => contracts'[a] = contracts[a]
    BY <1>1, <1>2 DEF Is, WiredKinds
  <2>5. UNCHANGED <<Manager, Movers, OldFrom, OldTo, EuroPenalty, EtherPenalty>>
    <3>1. /\ contracts'[Managing] = contracts[Managing]
          /\ contracts'[IcbmState.euroToken] = contracts[IcbmState.euroToken]
          /\ contracts'[IcbmState.euroLock] = contracts[IcbmState.euroLock]
          /\ contracts'[IcbmState.etherLock] = contracts[IcbmState.etherLock]
      BY <1>8, <2>4, WiredContracts DEF WiredKinds, Is
    <3> QED
      BY <2>2, <2>3, <3>1 DEF Manager, Movers, OldFrom, OldTo, EuroPenalty, EtherPenalty
  <2>6. CASE step = 12 /\ pc = 4
    <3>1. Disbursal' = RegisteredAs("feeDisbursal") /\ Voting' = Voting
      BY <1>4, <1>5, <1>6, <2>6 DEF Disbursal, Voting, RegisteredNames
    <3>2. RegisteredAs("feeDisbursal") = mem["feeDisbursal"]
      BY <2>6, NamesKnown DEF RegisteredAs
    <3> QED
      BY <1>2, <1>6, <2>5, <2>6, <3>1, <3>2 DEF WiringOK, Reached
  <2>7. CASE step = 16
    <3>1. Voting' = RegisteredAs("votingCenter") /\ Disbursal' = Disbursal
      BY <1>4, <1>5, <1>6, <2>7 DEF Disbursal, Voting, RegisteredNames
    <3>2. RegisteredAs("votingCenter") = mem["votingCenter"]
      BY <2>7, NamesKnown DEF RegisteredAs
    <3>3. mem["votingCenter"] # Zero
      <4>1. DeployedBefore("votingCenter") /\ "votingCenter" \in Kinds
        BY <1>1, <2>7, KindsAre DEF DeployedBefore, Place, Skipped, ShouldSkipStep
      <4> QED
        BY <4>1 DEF Structure, MemOK
    <3> QED
      BY <1>1, <1>2, <1>6, <2>5, <2>7, <3>1, <3>2, <3>3 DEF WiringOK, Reached
  <2>8. CASE (step = 12 /\ pc = 12) \/ step = 13
    <3>1. Disbursal' = Disbursal /\ Voting' = Voting
      BY <1>4, <1>5, <1>6, <2>8 DEF Disbursal, Voting, RegisteredNames
    <3>2. UNCHANGED wires
      BY <2>5, <3>1 DEF wires
    <3>3. \A n, i : <<step, pc>> = <<n, i>> <=> step = n /\ pc = i
      OBVIOUS
    <3>4. <<step, pc>> \notin WiringPlaces /\ pc \in Nat
      BY <1>1, <2>8, <3>3 DEF WiringPlaces
    <3> QED
      BY <1>2, <1>6, <1>8, <3>2, <3>4, WiringGoesOn
  <2> QED
    BY <1>1, <1>8, <2>6, <2>7, <2>8
<1> QED
  BY <1>1, <1>7, <1>8

\* What a call on another of the wired contracts leaves.
LEMMA WiredCall ==
    ASSUME Structure, step > 9, NEW c, Is(c, "icbmEuroLock") \/ Is(c, "icbmEtherLock")
             \/ Is(c, "icbmEuroToken") \/ Is(c, "euroTokenController"),
           NEW s, Call(c, s)
    PROVE  /\ UNCHANGED <<Disbursal, Voting, mem, step>> /\ pc' = pc + 1 /\ IcbmState' = IcbmState
           /\ Managing' = Managing
           /\ \A a : a # c => contracts'[a] = contracts[a]
           /\ contracts'[c] = s
<1>1. /\ UNCHANGED <<mem, step>> /\ pc' = pc + 1 /\ contracts' = [contracts EXCEPT ![c] = s]
      /\ c \in OnChain
  BY DEF Call, Advance, Is
<1>2. UniverseState' = UniverseState /\ IcbmState' = IcbmState
  BY <1>1, WiredContracts DEF UniverseState, IcbmState, Is
<1>3. Managing' = Managing
  BY <1>1, <1>2, WiredContracts DEF Managing, Is
<1> QED
  BY <1>1, <1>2, <1>3 DEF Disbursal, Voting, OnChain

\* The penalties of one lock, then of the other (12).
LEMMA PenaltyKeepsWiring ==
    ASSUME Structure, WiringOK, SetPenaltyDisbursal
    PROVE  WiringOK'
<1> DEFINE c == PenaltyLock
           s == [contracts[c] EXCEPT !.penaltyDisbursal = mem["feeDisbursal"]]
<1>1. /\ step = 12 /\ pc \in {6, 7} /\ Call(c, s)
      /\ Is(c, "icbmEuroLock") \/ Is(c, "icbmEtherLock")
  BY PenaltyCalled
<1>2. s.penaltyDisbursal = mem["feeDisbursal"]
  <2>1. contracts[c] \in LockShape(OnChain, Policies)
    BY <1>1, ContractShapes
  <2> HIDE DEF c
  <2> QED
    BY <2>1 DEF LockShape
<1>3. c = IF pc = 6 THEN IcbmState.euroLock ELSE IcbmState.etherLock
  BY DEF PenaltyLock
<1> HIDE DEF c, s
<1>4. /\ UNCHANGED <<Disbursal, Voting, mem, step>> /\ pc' = pc + 1 /\ IcbmState' = IcbmState
      /\ Managing' = Managing /\ contracts'[c] = s
      /\ \A a : a # c => contracts'[a] = contracts[a]
  BY <1>1, WiredCall
<1>5. /\ UNCHANGED <<Manager, Movers, OldFrom, OldTo>>
      /\ EuroPenalty' = IF pc = 6 THEN mem["feeDisbursal"] ELSE EuroPenalty
      /\ EtherPenalty' = IF pc = 7 THEN mem["feeDisbursal"] ELSE EtherPenalty
  BY <1>1, <1>2, <1>3, <1>4, WiredContracts DEF Is, Manager, Movers, OldFrom, OldTo, EuroPenalty,
     EtherPenalty
<1> QED
  BY <1>1, <1>4, <1>5 DEF WiringOK, Reached

\* The old euro token is opened after both (12).
LEMMA AllowFromKeepsWiring ==
    ASSUME Structure, WiringOK, SetAllowedTransferFrom
    PROVE  WiringOK'
<1> DEFINE c == IcbmState.euroToken
           s == [contracts[c] EXCEPT !.from = @ \cup {AllowedFrom}]
<1>1. /\ Running("allowTransferFrom") /\ Is(c, "icbmEuroToken") /\ Call(c, s)
      /\ (step = 3 /\ pc \in {9, 12}) \/ (step = 12 /\ pc = 9)
  BY AllowFromCalled
<1>2. CASE step = 3
  BY <1>1, <1>2, WiringNotYet DEF Call
<1>3. CASE step = 12
  <2>1. s.from = OldFrom \cup {mem["feeDisbursal"]} /\ s.to = OldTo
    <3>1. contracts[c] \in TokenShape(OnChain, Policies) /\ AllowedFrom = mem["feeDisbursal"]
      BY <1>1, <1>3, ContractShapes DEF AllowedFrom
    <3> QED
      BY <3>1 DEF TokenShape, OldFrom, OldTo
  <2>2. /\ UNCHANGED <<Disbursal, Voting, mem, step>> /\ pc' = pc + 1 /\ IcbmState' = IcbmState
        /\ Managing' = Managing /\ contracts'[c] = s
        /\ \A a : a # c => contracts'[a] = contracts[a]
    <3> HIDE DEF c, s
    <3> QED
      BY <1>1, <1>3, WiredCall
  <2> HIDE DEF s
  <2>3. /\ UNCHANGED <<Manager, Movers, OldTo, EuroPenalty, EtherPenalty>>
        /\ OldFrom' = OldFrom \cup {mem["feeDisbursal"]}
    BY <1>1, <1>3, <2>1, <2>2, WiredContracts DEF Is, Manager, Movers, OldFrom, OldTo, EuroPenalty,
       EtherPenalty
  <2> QED
    BY <1>1, <1>3, <2>2, <2>3 DEF WiringOK, Reached
<1> QED
  BY <1>1, <1>2, <1>3

\* The same for receiving.
LEMMA AllowToKeepsWiring ==
    ASSUME Structure, WiringOK, SetAllowedTransferTo
    PROVE  WiringOK'
<1> DEFINE c == IcbmState.euroToken
           s == [contracts[c] EXCEPT !.to = @ \cup {AllowedTo}]
<1>1. /\ Running("allowTransferTo") /\ Is(c, "icbmEuroToken") /\ Call(c, s)
      /\ (step = 3 /\ pc \in {10, 11}) \/ (step = 12 /\ pc = 8)
  BY AllowToCalled
<1>2. CASE step = 3
  BY <1>1, <1>2, WiringNotYet DEF Call
<1>3. CASE step = 12
  <2>1. s.to = OldTo \cup {mem["feeDisbursal"]} /\ s.from = OldFrom
    <3>1. contracts[c] \in TokenShape(OnChain, Policies) /\ AllowedTo = mem["feeDisbursal"]
      BY <1>1, <1>3, ContractShapes DEF AllowedTo
    <3> QED
      BY <3>1 DEF TokenShape, OldFrom, OldTo
  <2>2. /\ UNCHANGED <<Disbursal, Voting, mem, step>> /\ pc' = pc + 1 /\ IcbmState' = IcbmState
        /\ Managing' = Managing /\ contracts'[c] = s
        /\ \A a : a # c => contracts'[a] = contracts[a]
    <3> HIDE DEF c, s
    <3> QED
      BY <1>1, <1>3, WiredCall
  <2> HIDE DEF s
  <2>3. /\ UNCHANGED <<Manager, Movers, OldFrom, EuroPenalty, EtherPenalty>>
        /\ OldTo' = OldTo \cup {mem["feeDisbursal"]}
    BY <1>1, <1>3, <2>1, <2>2, WiredContracts DEF Is, Manager, Movers, OldFrom, OldTo, EuroPenalty,
       EtherPenalty
  <2> QED
    BY <1>1, <1>3, <2>2, <2>3 DEF WiringOK, Reached
<1> QED
  BY <1>1, <1>2, <1>3

\* The settings let the fee disbursal move the euro token (11, 12).
LEMMA SettingsKeepWiring ==
    ASSUME Structure, WiringOK, ApplySettings
    PROVE  WiringOK'
<1> DEFINE c == TokenController
           S == KnownMovers
           s == [contracts[c] EXCEPT !.from = @ \cup S, !.to = @ \cup S]
<1>1. /\ (step = 11 /\ pc = 2) \/ (step = 12 /\ pc = 5)
      /\ Is(c, "euroTokenController") /\ Call(c, s)
  BY SettingsCalled
<1>2. Disbursal \in S /\ c = Managing /\ step > 9
  BY <1>1, WiredContracts DEF KnownMovers, Disbursal
<1> HIDE DEF c, S
<1>3. s.depositManager = Manager /\ s.from \cap s.to = Movers \cup S
  <2>1. contracts[c] \in ControllerShape(OnChain, Policies)
    BY <1>1, ContractShapes
  <2> QED
    BY <1>2, <2>1 DEF ControllerShape, Manager, Movers
<1> HIDE DEF s
<1>4. /\ UNCHANGED <<Disbursal, Voting, mem, step>> /\ pc' = pc + 1 /\ IcbmState' = IcbmState
      /\ Managing' = Managing /\ contracts'[c] = s
      /\ \A a : a # c => contracts'[a] = contracts[a]
  BY <1>1, <1>2, WiredCall
<1>5. /\ UNCHANGED <<Manager, OldFrom, OldTo, EuroPenalty, EtherPenalty>>
      /\ Movers' = Movers \cup S
  BY <1>1, <1>2, <1>3, <1>4, WiredContracts DEF Is, Manager, Movers, OldFrom, OldTo, EuroPenalty,
     EtherPenalty
<1> QED
  BY <1>1, <1>2, <1>4, <1>5 DEF WiringOK, Reached

\* The second change of the deposit manager leaves the configured one (11).
LEMMA ManagerKeepsWiring ==
    ASSUME Structure, WiringOK, ChangeDepositManager
    PROVE  WiringOK'
<1> DEFINE c == TokenController
           s == [contracts[c] EXCEPT !.depositManager = ManagerSet]
<1>1. step = 11 /\ pc \in {3, 5} /\ Is(c, "euroTokenController") /\ Call(c, s)
  BY ManagerCalled
<1>2. c = Managing /\ step > 9
  BY <1>1, WiredContracts
<1> HIDE DEF c
<1>3. s.depositManager = ManagerSet /\ s.from \cap s.to = Movers
  <2>1. contracts[c] \in ControllerShape(OnChain, Policies)
    BY <1>1, ContractShapes
  <2> QED
    BY <1>2, <2>1 DEF ControllerShape, Movers
<1>4. pc = 5 => ManagerSet = Account("EURT_DEPOSIT_MANAGER")
  BY ManagerIs DEF ManagerSet
<1> HIDE DEF s
<1>5. /\ UNCHANGED <<Disbursal, Voting, mem, step>> /\ pc' = pc + 1 /\ IcbmState' = IcbmState
      /\ Managing' = Managing /\ contracts'[c] = s
      /\ \A a : a # c => contracts'[a] = contracts[a]
  BY <1>1, <1>2, WiredCall
<1>6. /\ UNCHANGED <<Movers, OldFrom, OldTo, EuroPenalty, EtherPenalty>>
      /\ Manager' = ManagerSet
  BY <1>1, <1>2, <1>3, <1>5, WiredContracts DEF Is, Manager, Movers, OldFrom, OldTo, EuroPenalty,
     EtherPenalty
<1> QED
  BY <1>1, <1>4, <1>5, <1>6 DEF WiringOK, Reached

\* Only where nothing of the migration is behind any more do the artifacts change.
LEMMA CourseRemembers ==
    ASSUME Structure, Course, pc' # 0
    PROVE  mem' = mem
<1>1. ~Revert /\ ~Crash
  BY DEF Revert, Crash, Fail
<1>2. ~Restart
  BY DEF Restart, Structure, ControlOK
<1> QED
  BY <1>1, <1>2 DEF Course, Begin, Finish, Configures, ConfigureCommitment, ConfigureUniverse,
                    KeyHolders, RevokeDeployer, ReinstateDeployer, ByAccessController, FinishByHand, vars

\* What the holders of the keys add by hand does not touch the fee disbursal.
LEMMA CourseWires ==
    ASSUME Structure, Course, step > 9, step' > 9
    PROVE  /\ UNCHANGED <<Disbursal, Voting, Manager, Movers, EuroPenalty, EtherPenalty>>
           /\ \/ UNCHANGED <<OldFrom, OldTo>>
              \/ /\ mem' = mem /\ Is(SingletonOf("euroLock"), "euroLock")
                 /\ OldFrom' = OldFrom \cup {SingletonOf("euroLock")}
                 /\ OldTo' = OldTo \cup {SingletonOf("euroLock")}
<1>1. UniverseState' = UniverseState /\ (contracts' = contracts \/ FinishByHand)
  BY CourseStands
<1>2. Stage' # 2
  BY DEF Stage, Skipped, ShouldSkipStep
<1>3. IcbmState' = IcbmState
  BY <1>2, CourseStands
<1>4. Managing' = Managing /\ contracts'[Managing] = contracts[Managing]
  BY <1>1, CourseStands, WiredContracts DEF Managing, Is
<1>5. UNCHANGED <<Disbursal, Voting, Manager, Movers>>
  BY <1>1, <1>4 DEF Disbursal, Voting, Manager, Movers
<1>6. CASE contracts' = contracts
  BY <1>3, <1>5, <1>6 DEF OldFrom, OldTo, EuroPenalty, EtherPenalty
<1>7. CASE FinishByHand
  <2> DEFINE e == IcbmState.euroLock
             h == IcbmState.etherLock
             t == IcbmState.euroToken
             n == SingletonOf("euroLock")
             m == SingletonOf("etherLock")
  <2>1. /\ Is(e, "icbmEuroLock") /\ Is(h, "icbmEtherLock") /\ Is(t, "icbmEuroToken")
        /\ Is(n, "euroLock") /\ mem' = mem
        /\ contracts' = [a \in OnChain |->
              CASE a = e -> [contracts[a] EXCEPT !.target = n]
                [] a = h -> [contracts[a] EXCEPT !.target = m]
                [] a = t -> [contracts[a] EXCEPT !.from = @ \cup {n}, !.to = @ \cup {n}]
                [] OTHER -> contracts[a]]
    BY <1>7, ByHand
  <2>2. e' = e /\ h' = h /\ t' = t
    BY <1>3
  <2> HIDE DEF e, h, t, n, m
  <2>3. /\ contracts[e] \in LockShape(OnChain, Policies) /\ contracts[h] \in LockShape(OnChain, Policies)
        /\ contracts[t] \in TokenShape(OnChain, Policies)
    BY <2>1, ContractShapes
  <2>4. /\ contracts'[e] = [contracts[e] EXCEPT !.target = n]
        /\ contracts'[h] = [contracts[h] EXCEPT !.target = m]
        /\ contracts'[t] = [contracts[t] EXCEPT !.from = @ \cup {n}, !.to = @ \cup {n}]
    BY <2>1 DEF Is
  <2>5. /\ contracts'[e].penaltyDisbursal = contracts[e].penaltyDisbursal
        /\ contracts'[h].penaltyDisbursal = contracts[h].penaltyDisbursal
        /\ contracts'[t].from = contracts[t].from \cup {n}
        /\ contracts'[t].to = contracts[t].to \cup {n}
    BY <2>3, <2>4 DEF LockShape, TokenShape
  <2> QED
    BY <1>5, <2>1, <2>2, <2>5 DEF OldFrom, OldTo, EuroPenalty, EtherPenalty, e, h, t, n
<1> QED
  BY <1>1, <1>6, <1>7

\* The course of things keeps the wiring.
LEMMA CourseKeepsWiring ==
    ASSUME Structure, WiringOK, Course
    PROVE  WiringOK'
<1>1. Moves /\ step \in StepSet /\ config.isolated \in BOOLEAN /\ LengthOf(step) \in Nat /\ pc \in Nat
  BY CourseMoves, Lengths DEF Structure, ControlOK, ConfigOK
<1>2. Structure'
  BY StructureIsInductive DEF Course, Next, Runs
<1>3. step' \in StepSet /\ step' \in Nat /\ step \in Nat
  BY <1>1, <1>2 DEF Structure, ControlOK, StepSet
<1> Offset' = 0 \/ Offset' = 1
  BY DEF Offset
<1>4. CASE step' < 9
  BY <1>3, <1>4 DEF WiringOK, Reached, StepSet
<1>5. CASE step' = 9
  <2>1. step = 9 => ~Skipped
    BY DEF Skipped, ShouldSkipStep
  <2>2. pc' \in {0, 1} \/ (step = 9 /\ pc' = pc /\ pc' # 0)
    BY <1>1, <1>5, <2>1 DEF Moves, Stays, Begins, Ends, StartsOver
  <2>3. CASE pc' \in {0, 1}
    BY <1>5, <2>3 DEF WiringOK, Reached
  <2>4. CASE step = 9 /\ pc' = pc /\ pc' # 0
    <3>1. config'.isolated = config.isolated /\ mem' = mem
      BY <2>4, CourseMoves, CourseRemembers
    <3>2. contracts' = contracts
      BY <2>4, CourseStands, ByHand
    <3>3. Disbursal' = Disbursal /\ Offset' = Offset
      BY <3>1, <3>2 DEF Disbursal, UniverseState, Offset
    <3> QED
      BY <1>5, <2>4, <3>3 DEF WiringOK, Reached
  <2> QED
    BY <2>2, <2>3, <2>4
<1>6. CASE step' > 9
  <2>1. CASE step = 9
    <3>1. Ends
      BY <1>1, <1>6, <2>1 DEF Moves, Stays, Begins, StartsOver
    <3>2. step' = 10 /\ pc' = 0 /\ pc = 11 + Offset + 1 /\ mem' = mem /\ contracts' = contracts
      BY <2>1, <3>1, CourseStands, ByHand DEF Ends, NextStep, LengthOf
    <3>3. Disbursal \in Wallets /\ Disbursal' = Disbursal
      BY <2>1, <3>2 DEF WiringOK, Offset, Disbursal, UniverseState
    <3>4. Disbursal' \notin OldTo'
      <4>1. OldTo' \subseteq OnChain'
        <5>1. contracts[IcbmState.euroToken] \in TokenShape(OnChain, Policies)
          BY <2>1, IcbmInUse, ContractShapes DEF FieldKind
        <5>2. OldTo' = OldTo /\ OnChain' = OnChain
          BY <3>2 DEF OldTo, IcbmState, OnChain
        <5> QED
          BY <5>1, <5>2 DEF OldTo, TokenShape
      <4>2. (OnChain \cap Wallets = {})'
        <5>1. \A a \in OnChain' : a[1] \in Kinds
          BY <1>2 DEF Structure, AddressesOK
        <5> QED
          BY <5>1, NotContracts
      <4> QED
        BY <3>3, <4>1, <4>2
    <3> QED
      BY <3>2, <3>3, <3>4 DEF WiringOK, Reached
  <2>2. CASE step > 9
    <3>1. /\ UNCHANGED <<Disbursal, Voting, Manager, Movers, EuroPenalty, EtherPenalty>>
          /\ \/ UNCHANGED <<OldFrom, OldTo>>
             \/ /\ mem' = mem /\ Is(SingletonOf("euroLock"), "euroLock")
                /\ OldFrom' = OldFrom \cup {SingletonOf("euroLock")}
                /\ OldTo' = OldTo \cup {SingletonOf("euroLock")}
      BY <1>6, <2>2, CourseWires
    <3>2. pc' # 0 => mem' = mem
      BY CourseRemembers
    <3>3. Is(SingletonOf("euroLock"), "euroLock") =>
            SingletonOf("euroLock") # Disbursal /\ SingletonOf("euroLock") # mem["feeDisbursal"]
      <4>1. Disbursal \in Wallets \/ Is(Disbursal, "feeDisbursal")
        BY <2>2, WiredContracts
      <4>2. OnChain \cap Wallets = {} /\ Zero \notin OnChain
        BY NotContracts DEF Structure, AddressesOK
      <4>3. mem["feeDisbursal"] = Zero \/ Is(mem["feeDisbursal"], "feeDisbursal")
        BY Known, KindsAre
      <4> QED
        BY <4>1, <4>2, <4>3 DEF Is
    <3>4. /\ OldTo \subseteq OldTo' /\ OldFrom \subseteq OldFrom'
          /\ Disbursal \in OldTo' => Disbursal \in OldTo
          /\ mem' = mem => (mem["feeDisbursal"] \in OldTo' => mem["feeDisbursal"] \in OldTo)
      BY <3>1, <3>3
    <3> ~Skipped
      BY <1>3, <2>2 DEF Skipped, ShouldSkipStep
    <3>5. \/ step' = step /\ pc' \in {0, 1} /\ (pc' = 1 => pc \in {0, 1})
          \/ step' = step /\ pc' = pc
          \/ step' = NextStep(step) /\ step # 201 /\ pc = LengthOf(step) + 1 /\ pc' = 0
      BY <1>1, <1>6 DEF Moves, Stays, Begins, Ends, StartsOver
    <3>6. CASE step' = step /\ pc' = pc /\ pc' # 0
      BY <1>3, <2>2, <3>1, <3>2, <3>4, <3>6 DEF WiringOK, Reached, StepSet
    <3>7. CASE step' = step /\ pc' \in {0, 1}
      BY <1>3, <2>2, <3>1, <3>4, <3>7 DEF WiringOK, Reached, StepSet
    <3>8. CASE step' = NextStep(step) /\ step # 201 /\ pc = LengthOf(step) + 1 /\ pc' = 0
      <4>1. CASE step = 10
        BY <3>1, <3>4, <3>8, <4>1 DEF WiringOK, Reached, NextStep
      <4>2. CASE step = 11
        BY <3>1, <3>4, <3>8, <4>2 DEF WiringOK, Reached, NextStep, LengthOf
      <4>3. CASE step = 12
        BY <3>1, <3>4, <3>8, <4>3 DEF WiringOK, Reached, NextStep, LengthOf
      <4>4. CASE step = 16
        BY <3>1, <3>4, <3>8, <4>4 DEF WiringOK, Reached, NextStep, LengthOf
      <4>5. CASE step \in {13, 14, 15}
        <5>1. step' \in {14, 15, 16}
          BY <3>8, <4>5 DEF NextStep
        <5> QED
          BY <1>3, <3>1, <3>4, <3>8, <4>5, <5>1 DEF WiringOK, Reached
      <4> QED
        BY <1>1, <2>2, <3>8, <4>1, <4>2, <4>3, <4>4, <4>5 DEF StepSet
    <3> QED
      BY <3>5, <3>6, <3>7, <3>8
  <2>3. ~(step < 9)
    <3> SUFFICES ASSUME step < 9 PROVE FALSE
      OBVIOUS
    <3>1. step' = step \/ step' = NextStep(step) \/ step' = 2
      BY <1>1 DEF Moves, Stays, Begins, Ends, StartsOver
    <3> QED
      BY <1>1, <1>6, <3>1 DEF StepSet, NextStep
  <2> QED
    BY <1>1, <2>1, <2>2, <2>3 DEF StepSet
<1> QED
  BY <1>3, <1>4, <1>5, <1>6 DEF StepSet

\* The wiring holds with the structure.
LEMMA WiringIsInductive ==
    ASSUME Structure, WiringOK, [Next]_vars
    PROVE  WiringOK'
<1>1. CASE DeployContract
  BY <1>1, DeployKeepsWiring
<1>2. CASE SetManySingletons
  BY <1>2, SingletonsKeepWiring
<1>3. CASE SetPenaltyDisbursal
  BY <1>3, PenaltyKeepsWiring
<1>4. CASE SetAllowedTransferFrom \/ SetAllowedTransferTo
  BY <1>4, AllowFromKeepsWiring, AllowToKeepsWiring
<1>5. CASE ApplySettings \/ ChangeDepositManager
  BY <1>5, SettingsKeepWiring, ManagerKeepsWiring
<1>6. CASE SetRoles \/ SetCollectionsInterfaces \/ SetController \/ ApplyFeeSettings
           \/ ChangeFeeDisbursalController \/ AmendAgreement
  BY <1>6, QuietCallsKeepWiring
<1>7. CASE Course
  BY <1>7, CourseKeepsWiring
<1> QED
  BY <1>1, <1>2, <1>3, <1>4, <1>5, <1>6, <1>7 DEF Next, Runs, Transaction, Course

-----------------------------------------------------------------------------
(* The deposit manager keeps his role *)

\* Once a universe is set up, no transaction changes its policy, its token or its lock.
LEMMA UniverseStands ==
    ASSUME Structure, Transaction, step > 9
    PROVE  /\ mem'["universe"] = mem["universe"]
           /\ UniverseState.policy' = UniverseState.policy
           /\ UniverseState.singletons'["euroToken"] = UniverseState.singletons["euroToken"]
           /\ UniverseState.singletons'["euroLock"] = UniverseState.singletons["euroLock"]
<1> DEFINE u == mem["universe"]
<1>1. Is(u, "universe") /\ UniverseState \in UniverseShape(OnChain, Policies)
  BY UniverseIsReady, UniverseIsKnown DEF Structure, ControlOK, StepSet
<1>2. step \in StepSet
  BY DEF Structure, ControlOK
<1>3. ASSUME mem'["universe"] = u, contracts'[u] = contracts[u]
      PROVE  UniverseState' = UniverseState
  BY <1>3 DEF UniverseState
<1>4. CASE DeployContract
  <2>1. PICK kind, this, r : Deploys(kind, this, r)
    BY <1>4, DeployCalled
  <2>2. Appears(kind, this, r)
    BY <2>1, DeployedAnew
  <2>3. kind # "universe"
    BY <2>1, <2>2, DeployMoves DEF PlatformKinds
  <2>4. mem'["universe"] = u /\ contracts'[u] = contracts[u]
    BY <1>1, <2>2, <2>3, KindsAre DEF Appears, Is
  <2> QED
    BY <1>3, <2>4
<1>5. CASE SetRoles
  BY <1>3, <1>5, SetRolesChanges
<1>6. CASE SetManySingletons
  <2>1. /\ mem' = mem /\ contracts' = [contracts EXCEPT ![u] = [UniverseState EXCEPT !.singletons = NewSingletons]]
        /\ (step = 12 /\ pc \in {4, 12}) \/ (step = 13 /\ pc = 7) \/ (step = 16 /\ pc = 4)
    BY <1>6, SingletonsCalled DEF Call
  <2>2. "euroToken" \notin RegisteredNames /\ "euroLock" \notin RegisteredNames
    BY <2>1 DEF RegisteredNames
  <2>3. /\ NewSingletons["euroToken"] = UniverseState.singletons["euroToken"]
        /\ NewSingletons["euroLock"] = UniverseState.singletons["euroLock"]
    BY <2>2, NamesKnown DEF NewSingletons
  <2> HIDE DEF NewSingletons
  <2>4. /\ contracts'[u].policy = UniverseState.policy
        /\ contracts'[u].singletons = NewSingletons
    BY <1>1, <2>1 DEF Is, OnChain, UniverseShape
  <2> QED
    BY <2>1, <2>3, <2>4 DEF UniverseState
<1>7. CASE SetCollectionsInterfaces
  <2>1. PICK C : Call(u, [UniverseState EXCEPT !.collections = C])
    BY <1>7, CollectionsCalled
  <2>2. mem' = mem /\ contracts' = [contracts EXCEPT ![u] = [UniverseState EXCEPT !.collections = C]]
    BY <2>1 DEF Call
  <2>3. /\ contracts'[u].policy = UniverseState.policy
        /\ contracts'[u].singletons = UniverseState.singletons
    BY <1>1, <2>2 DEF Is, OnChain, UniverseShape
  <2> QED
    BY <2>2, <2>3 DEF UniverseState
<1>8. CASE ~DeployContract /\ ~SetRoles /\ ~SetManySingletons /\ ~SetCollectionsInterfaces
  <2>1. mem' = mem /\ contracts'[u] = contracts[u]
    BY <1>1, <1>8, CallsLeave DEF Is
  <2> QED
    BY <1>3, <2>1
<1> QED
  BY <1>4, <1>5, <1>6, <1>7, <1>8

\* The rights of the platform hold the roles of the deposit manager and of the lock.
LEMMA PlatformDeposits ==
    ASSUME Structure, step > 9
    PROVE  DepositsAt(RightsOf(PlatformRulesKeys), UniverseState.singletons["euroLock"],
                      UniverseState.singletons["euroToken"])
<1> DEFINE k == <<Of("EURT_DEPOSIT_MANAGER"), "eurtDepositManager", Everything>>
           l == <<Singleton("euroLock"), "eurtDepositManager", Singleton("euroToken")>>
<1>1. k \in PlatformRulesKeys /\ l \in PlatformRulesKeys
  BY DEF PlatformRulesKeys
<1>2. \A name : SingletonOf(name) = UniverseState.singletons[name]
  BY UniverseIsReady, UniverseIsKnown DEF Structure, ControlOK, StepSet
<1>3. <<Ref(k[1]), k[2], Ref(k[3])>> = <<Account("EURT_DEPOSIT_MANAGER"), "eurtDepositManager", GLOBAL>>
  BY References, ManagerIs DEF GLOBAL
<1>4. <<Ref(l[1]), l[2], Ref(l[3])>> = <<UniverseState.singletons["euroLock"], "eurtDepositManager",
                                        UniverseState.singletons["euroToken"]>>
  BY <1>2, References
<1> HIDE DEF k, l
<1> QED
  BY <1>1, <1>3, <1>4 DEF DepositsAt, RightsOf

\* No rule of a later migration takes them.
LEMMA DepositsSpared ==
    ASSUME Structure, step > 10, NEW k \in RightsOf(KeysAt(step, pc)), StateAt(step, pc) = "Unset"
    PROVE  k[1] = DEPLOYER
<1>1. step = 201
  BY DEF StateAt
<1>2. PICK q \in FinalRulesKeys : k = <<Ref(q[1]), q[2], Ref(q[3])>>
  BY <1>1 DEF KeysAt, RightsOf
<1>3. q[1] = Deployer
  BY DEF FinalRulesKeys
<1> QED
  BY <1>2, <1>3, References

\* Transactions on roles give them the rights in migration 10 and leave them.
LEMMA RolesKeepDeposits ==
    ASSUME Structure, DepositRights, SetRoles
    PROVE  DepositRights'
<1>1. /\ Running("roles") /\ Advance /\ UNCHANGED <<contracts, amended, mem>>
      /\ access' = [access EXCEPT ![Ref(PolicyAt(step))] =
                      Changed(DOMAIN @, KeysAt(step, pc), StateAt(step, pc))]
  BY SetRolesChanges
<1>2. step \in StepSet /\ pc \in 1 .. LengthOf(step) /\ config.isolated \in BOOLEAN
  BY <1>1, RunningIs DEF Structure
<1>3. /\ step' = step /\ pc' = pc + 1 /\ LengthOf(10)' = LengthOf(10) /\ pc \in Nat
      /\ LengthOf(10) \in Nat
  <2>1. step' = step /\ pc' = pc + 1 /\ config' = config
    BY <1>1 DEF Advance
  <2>2. LengthOf(10) = 2 - Offset /\ LengthOf(10)' = 2 - Offset'
    BY DEF LengthOf
  <2>3. Offset' = Offset /\ (Offset = 0 \/ Offset = 1)
    BY <2>1 DEF Offset
  <2>4. pc \in Nat
    BY <1>2, Lengths
  <2> QED
    BY <2>1, <2>2, <2>3, <2>4
<1> DEFINE p == UniverseState.policy
           lock == UniverseState.singletons["euroLock"]
           token == UniverseState.singletons["euroToken"]
           G == RightsOf(KeysAt(step, pc))
<1>4. UniverseState' = UniverseState
  BY <1>1 DEF UniverseState
<1>5. SUFFICES (step > 10 \/ (step = 10 /\ pc = LengthOf(10)) =>
                  DepositsAt(DOMAIN access'[p], lock, token))
  <2>1. step' > 10 \/ (step' = 10 /\ pc' = LengthOf(10)' + 1) =>
          step > 10 \/ (step = 10 /\ pc = LengthOf(10))
    BY <1>3
  <2> QED
    BY <1>4, <2>1 DEF DepositRights, Rights
<1> SUFFICES ASSUME step > 10 \/ (step = 10 /\ pc = LengthOf(10))
             PROVE  DepositsAt(DOMAIN access'[p], lock, token)
  BY <1>5
<1>6. p \in Policies /\ Ref(PolicyAt(step)) = p
  <2>1. step > 9
    BY <1>2 DEF StepSet
  <2> QED
    BY <1>2, <2>1, UniverseIsReady, UniverseIsKnown, References DEF PolicyAt, UniverseState, StepSet
<1>7. DOMAIN access'[p] = IF StateAt(step, pc) = "Allow" THEN Rights(p) \cup G ELSE Rights(p) \ G
  <2> HIDE DEF p
  <2> QED
    BY <1>1, <1>6 DEF Changed, Allowing, Rights, Policies
<1>8. CASE step > 10
  <2>1. DepositsAt(Rights(p), lock, token)
    BY <1>8 DEF DepositRights
  <2>2. CASE StateAt(step, pc) = "Allow"
    BY <1>7, <2>1, <2>2 DEF DepositsAt
  <2>3. CASE StateAt(step, pc) = "Unset"
    <3>1. \A k \in G : k[1] = DEPLOYER
      BY <1>8, <2>3, DepositsSpared
    <3>2. Account("EURT_DEPOSIT_MANAGER") # DEPLOYER /\ lock # DEPLOYER
      <4>1. Is(lock, "euroLock")
        <5>1. step > 9
          BY <1>2, <1>8 DEF StepSet
        <5> QED
          BY <5>1, UniverseIsReady, UniverseIsKnown DEF Structure, ControlOK, StepSet
      <4>2. DEPLOYER \in Wallets
        BY DEF Wallets
      <4>3. DEPLOYER \notin OnChain
        BY <4>2, NotContracts DEF Structure, AddressesOK
      <4> QED
        BY <4>1, <4>3 DEF Is, Account, DEPLOYER
    <3> HIDE DEF G, lock, token
    <3>3. /\ <<Account("EURT_DEPOSIT_MANAGER"), "eurtDepositManager", GLOBAL>> \notin G
          /\ <<lock, "eurtDepositManager", token>> \notin G
      BY <3>1, <3>2
    <3> QED
      BY <1>7, <2>1, <2>3, <3>3 DEF DepositsAt
  <2> QED
    BY <2>2, <2>3, StatesAre
<1>9. CASE step = 10 /\ pc = LengthOf(10)
  <2>1. KeysAt(step, pc) = PlatformRulesKeys /\ StateAt(step, pc) = "Allow"
    BY <1>2, <1>9 DEF KeysAt, StateAt, LengthOf, Offset
  <2>2. DepositsAt(G, lock, token)
    BY <1>9, <2>1, PlatformDeposits
  <2> QED
    BY <1>7, <2>1, <2>2 DEF DepositsAt
<1> QED
  BY <1>8, <1>9

\* Every step leaves the deposit manager and the lock their rights.
LEMMA DepositsAreInductive ==
    ASSUME Structure, DepositRights, [Next]_vars
    PROVE  DepositRights'
<1>1. step \in StepSet /\ config.isolated \in BOOLEAN /\ pc \in Nat /\ LengthOf(step) \in Nat
  BY Lengths DEF Structure, ControlOK, ConfigOK
<1>2. CASE SetRoles
  BY <1>2, RolesKeepDeposits
<1>3. CASE Transaction /\ ~SetRoles
  <2>1. PICK op : Running(op) /\ op # "roles" /\ Advance
    <3>1. CASE DeployContract
      BY <3>1 DEF DeployContract
    <3>2. CASE ~DeployContract
      BY <1>3, <3>2, CallsLeave
    <3> QED
      BY <3>1, <3>2
  <2>2. OpAt(step, pc) = op /\ step' = step
    BY <2>1, RunningIs DEF Structure, Advance
  <2>3. step # 10
    BY <2>1, <2>2 DEF OpAt
  <2>4. SUFFICES ASSUME step > 10
                 PROVE  DepositsAt(Rights(UniverseState.policy), UniverseState.singletons["euroLock"],
                                   UniverseState.singletons["euroToken"])'
    BY <1>1, <2>2, <2>3 DEF DepositRights, StepSet
  <2>5. step > 9
    BY <1>1, <2>4 DEF StepSet
  <2>6. /\ UniverseState.policy' = UniverseState.policy
        /\ UniverseState.singletons'["euroToken"] = UniverseState.singletons["euroToken"]
        /\ UniverseState.singletons'["euroLock"] = UniverseState.singletons["euroLock"]
    BY <1>3, <2>5, UniverseStands
  <2>7. access' = access
    <3>1. CASE DeployContract
      <4>1. PICK kind, this, r : Deploys(kind, this, r)
        BY <3>1, DeployCalled
      <4>2. kind # "policy"
        BY <2>5, <4>1, DeployedAnew, DeployMoves
      <4> QED
        BY <4>1, <4>2 DEF Deploys
    <3>2. CASE ~DeployContract
      BY <1>3, <3>2, CallsLeave
    <3> QED
      BY <3>1, <3>2
  <2>8. DepositsAt(Rights(UniverseState.policy), UniverseState.singletons["euroLock"],
                   UniverseState.singletons["euroToken"])
    BY <2>4 DEF DepositRights
  <2> QED
    BY <2>6, <2>7, <2>8 DEF Rights, DepositsAt
<1>4. CASE Course
  <2>1. /\ Moves
        /\ \/ config'.isolated = config.isolated
           \/ step = 9 /\ step' = 9
    BY <1>4, CourseMoves
  <2>2. Structure'
    BY <1>4, StructureIsInductive DEF Course, Next, Runs
  <2>3. step' \in StepSet /\ step' \in Nat /\ step \in Nat /\ LengthOf(10)' \in Nat \ {0}
    BY <1>1, <2>2 DEF Structure, ControlOK, StepSet, LengthOf, Offset
  <2>4. SUFFICES ASSUME step' > 10 \/ (step' = 10 /\ pc' = LengthOf(10)' + 1)
                 PROVE  DepositsAt(Rights(UniverseState.policy), UniverseState.singletons["euroLock"],
                                   UniverseState.singletons["euroToken"])'
    BY DEF DepositRights
  <2>5. step > 10 \/ (step = 10 /\ pc = LengthOf(10) + 1)
    <3>1. step # 9 => LengthOf(10)' = LengthOf(10)
      BY <1>4, <2>1 DEF LengthOf, Offset
    <3>2. CASE step' = step
      <4>1. ~Skipped \/ step < 7
        BY DEF Skipped, ShouldSkipStep
      <4>2. step = 10 => pc' \in {0, 1, pc}
        BY <2>1, <3>2, <4>1 DEF Moves, Stays, Begins, Ends, StartsOver
      <4> QED
        BY <2>3, <2>4, <3>1, <3>2, <4>2
    <3>3. CASE step' # step
      <4>1. Ends
        BY <2>1, <2>4, <3>3 DEF Moves, Stays, Begins, StartsOver
      <4>2. CASE step < 10
        <5>1. step' \in {3, 4, 5, 6, 9, 10} /\ pc' = 0
          BY <1>1, <4>1, <4>2 DEF Ends, NextStep, StepSet
        <5> QED
          BY <2>3, <2>4, <5>1
      <4>3. CASE step = 10
        BY <4>1, <4>3 DEF Ends
      <4> QED
        BY <2>3, <4>2, <4>3
    <3> QED
      BY <3>2, <3>3
  <2>6. DepositsAt(Rights(UniverseState.policy), UniverseState.singletons["euroLock"],
                   UniverseState.singletons["euroToken"])
    BY <2>5 DEF DepositRights
  <2>7. UniverseState' = UniverseState
    <3>1. step' > 9
      BY <2>3, <2>4
    <3> QED
      BY <1>4, <3>1, CourseStands
  <2>8. CASE access' = access
    BY <2>6, <2>7, <2>8 DEF Rights, DepositsAt
  <2>9. CASE access' # access
    <3>1. /\ IcbmState.policy \in Policies
          /\ \/ access' = [access EXCEPT ![IcbmState.policy] = Allowing(DOMAIN @ \cup {DeployerKey})]
             \/ access' = [access EXCEPT ![IcbmState.policy] = Allowing(DOMAIN @ \ {DeployerKey})]
      BY <1>4, <2>9, CourseRights
    <3> DEFINE p == UniverseState.policy
    <3>2. \/ DOMAIN access'[p] = Rights(p)
          \/ DOMAIN access'[p] = Rights(p) \cup {DeployerKey}
          \/ DOMAIN access'[p] = Rights(p) \ {DeployerKey}
      <4> DEFINE q == IcbmState.policy
      <4> HIDE DEF p, q, DeployerKey
      <4>1. /\ q \in DOMAIN access
            /\ \/ access' = [access EXCEPT ![q] = Allowing(DOMAIN @ \cup {DeployerKey})]
               \/ access' = [access EXCEPT ![q] = Allowing(DOMAIN @ \ {DeployerKey})]
        BY <3>1 DEF q, Policies
      <4>2. p # q => access'[p] = access[p]
        <5>1. ASSUME NEW v, access' = [access EXCEPT ![q] = v], p # q PROVE access'[p] = access[p]
          <6>1. p \in DOMAIN access
            <7>1. step > 9
              BY <2>3, <2>5
            <7> QED
              BY <7>1, UniverseIsReady, UniverseIsKnown DEF Structure, ControlOK, StepSet, Policies, p
          <6> QED
            BY <5>1, <6>1
        <5> QED
          BY <4>1, <5>1
      <4>3. \/ access'[q] = Allowing(Rights(q) \cup {DeployerKey})
            \/ access'[q] = Allowing(Rights(q) \ {DeployerKey})
        BY <4>1 DEF Rights
      <4> QED
        BY <4>2, <4>3 DEF Rights, Allowing
    <3>3. \A a, o : <<a, "eurtDepositManager", o>> # DeployerKey
      BY DEF DeployerKey
    <3>4. p' = p
      BY <2>7
    <3> HIDE DEF p, DeployerKey
    <3>5. DepositsAt(DOMAIN access'[p], UniverseState.singletons["euroLock"],
                     UniverseState.singletons["euroToken"])
      BY <2>6, <3>2, <3>3 DEF DepositsAt, p
    <3> QED
      BY <2>7, <3>4, <3>5 DEF Rights, DepositsAt, p
  <2> QED
    BY <2>8, <2>9
<1> QED
  BY <1>2, <1>3, <1>4 DEF Next, Runs, Course

-----------------------------------------------------------------------------
(* The products that are not available *)

\* The product that is not available among what the universe lists, of whichever attempt.
Unavailable == {m \in UniverseState.collections : m[2][1] = "hnwi_eto_de_security"}

\* Only between the two transactions of migration 13 is it listed.
CollectionsOK ==
    isLiveDeployment /\ 13 \notin interrupted =>
       /\ (step = 9 /\ DeployedBefore("universe")) \/ (step > 9 /\ ~(step = 13 /\ pc = 5)) =>
            Unavailable = {}
       /\ step = 13 /\ pc = 5 =>
            Unavailable \subseteq {<<"etoTermsConstraints", mem["hnwi_eto_de_security"]>>}

\* A new universe lists nothing.
LEMMA NewUniverseIsEmpty ==
    ASSUME NEW this
    PROVE  Created("universe", this).collections = {}
BY DEF Created

\* Only a transaction on collections changes what a universe lists.
LEMMA CollectionsStay ==
    ASSUME Structure, Transaction, ~SetCollectionsInterfaces, Is(mem["universe"], "universe"),
           mem'["universe"] = mem["universe"]
    PROVE  UniverseState.collections' = UniverseState.collections
<1> DEFINE u == mem["universe"]
<1>1. contracts'[u] = contracts[u] => UniverseState.collections' = UniverseState.collections
  BY DEF UniverseState
<1>2. CASE DeployContract
  <2>1. PICK kind, this, r : Deploys(kind, this, r)
    BY <1>2, DeployCalled
  <2> QED
    BY <1>1, <2>1, DeployedAnew DEF Appears, Is
<1>3. CASE SetRoles
  BY <1>1, <1>3, SetRolesChanges
<1>4. CASE SetManySingletons
  <2>1. /\ UniverseState \in UniverseShape(OnChain, Policies)
        /\ contracts' = [contracts EXCEPT ![u] = [UniverseState EXCEPT !.singletons = NewSingletons]]
    BY <1>4, SingletonsCalled DEF Call
  <2> HIDE DEF NewSingletons
  <2>2. contracts'[u].collections = UniverseState.collections
    BY <2>1 DEF Is, OnChain, UniverseShape
  <2> QED
    BY <2>2 DEF UniverseState
<1>5. CASE ~DeployContract /\ ~SetRoles /\ ~SetManySingletons
  BY <1>1, <1>5, CallsLeave DEF Is
<1> QED
  BY <1>2, <1>3, <1>4, <1>5

\* Which of the members listed together are not available.
LEMMA MembersListed ==
    ASSUME Structure, SetCollectionsInterfaces, isLiveDeployment,
           NEW m \in MembersAt(step, pc), m[2][1] = "hnwi_eto_de_security"
    PROVE  step = 13 /\ pc \in {4, 5} /\ m = <<"etoTermsConstraints", mem["hnwi_eto_de_security"]>>
<1>1. /\ step \in StepSet /\ pc \in 1 .. LengthOf(step) /\ OpAt(step, pc) = "collections"
      /\ config.isolated \in BOOLEAN /\ step > 9
  BY CollectionsCalled, RunningIs DEF Structure
<1>2. (step = 12 /\ pc = 10) \/ (step = 13 /\ pc \in {4, 5}) \/ (step = 15 /\ pc = 3)
  BY <1>1, CallsAt
<1>3. \A k \in Kinds : mem[k][1] \in {k, "0x0"}
  BY Known DEF Is, Zero
<1>4. \A name \in {"euroToken", "etherToken"} : SingletonOf(name)[1] \in {name, "0x0"}
  <2> SUFFICES ASSUME NEW name \in {"euroToken", "etherToken"}
               PROVE  SingletonOf(name)[1] \in {name, "0x0"}
    OBVIOUS
  <2>1. SingletonOK(name, SingletonOf(name)) /\ KindOf(name) = name
    BY <1>1, Known, NamesKnown DEF KindOf
  <2> QED
    BY <2>1 DEF SingletonOK, Is, Zero
<1>5. mem["retail_eto_li_vma"][1] # "hnwi_eto_de_security"
      /\ mem["retail_eto_li_security"][1] # "hnwi_eto_de_security"
  BY <1>3, KindsAre
<1>6. step # 12
  BY <1>4 DEF MembersAt
<1>7. step # 15
  BY <1>5 DEF MembersAt
<1>8. m = <<"etoTermsConstraints", mem["hnwi_eto_de_security"]>>
  BY <1>2, <1>5, <1>6, <1>7 DEF MembersAt
<1> QED
  BY <1>2, <1>6, <1>7, <1>8

\* Listing the products and taking the unavailable ones off again (13).
LEMMA ListingKeepsCollections ==
    ASSUME Structure, CollectionsOK, SetCollectionsInterfaces, isLiveDeployment, 13 \notin interrupted
    PROVE  CollectionsOK'
<1>1. /\ Running("collections") /\ step > 9 /\ Advance /\ UNCHANGED mem
      /\ contracts' = [contracts EXCEPT ![mem["universe"]] =
            [UniverseState EXCEPT !.collections = IF ListedAt(step, pc) THEN @ \cup MembersAt(step, pc)
                                                  ELSE @ \ MembersAt(step, pc)]]
  BY CollectionsCalled DEF Call
<1>2. /\ step \in StepSet /\ pc \in 1 .. LengthOf(step) /\ OpAt(step, pc) = "collections"
      /\ config.isolated \in BOOLEAN /\ pc \in Nat
  BY <1>1, RunningIs, Lengths DEF Structure
<1>3. (step = 12 /\ pc = 10) \/ (step = 13 /\ pc \in {4, 5}) \/ (step = 15 /\ pc = 3)
  BY <1>2, CallsAt
<1>4. Is(mem["universe"], "universe") /\ UniverseState \in UniverseShape(OnChain, Policies)
  BY <1>1, UniverseIsReady, UniverseIsKnown DEF Structure, ControlOK, StepSet
<1> DEFINE C == UniverseState.collections
           M == MembersAt(step, pc)
           h == <<"etoTermsConstraints", mem["hnwi_eto_de_security"]>>
<1>5. contracts'[mem["universe"]].collections = IF ListedAt(step, pc) THEN C \cup M ELSE C \ M
  <2> HIDE DEF M
  <2> QED
    BY <1>1, <1>4 DEF Is, OnChain, UniverseShape, M
<1>6. UniverseState.collections' = IF ListedAt(step, pc) THEN C \cup M ELSE C \ M
  BY <1>1, <1>5 DEF UniverseState
<1>7. \A m \in M : m[2][1] = "hnwi_eto_de_security" => step = 13 /\ pc \in {4, 5} /\ m = h
  BY MembersListed
<1>8. step' = step /\ pc' = pc + 1 /\ isLiveDeployment' = isLiveDeployment
      /\ interrupted' = interrupted
  BY <1>1 DEF Advance, isLiveDeployment
<1>9. CASE step = 13 /\ pc = 5
  <2>1. M = {h} /\ ~ListedAt(step, pc)
    BY <1>9 DEF MembersAt, ListedAt
  <2>2. Unavailable \subseteq {h}
    BY <1>9 DEF CollectionsOK
  <2> HIDE DEF h
  <2>3. Unavailable' = {}
    BY <1>6, <2>1, <2>2 DEF Unavailable
  <2> QED
    BY <1>8, <1>9, <2>3 DEF CollectionsOK
<1>10. CASE ~(step = 13 /\ pc = 5)
  <2>1. Unavailable = {} /\ ListedAt(step, pc)
    BY <1>1, <1>10 DEF CollectionsOK, ListedAt
  <2> HIDE DEF M
  <2>2. \A m \in Unavailable' : m \in M /\ m[2][1] = "hnwi_eto_de_security"
    BY <1>6, <2>1 DEF Unavailable
  <2>3. Unavailable' \subseteq {h} /\ (step # 13 => Unavailable' = {})
    BY <1>7, <2>2
  <2> QED
    BY <1>1, <1>3, <1>8, <1>10, <2>3 DEF CollectionsOK
<1> QED
  BY <1>9, <1>10

\* No transaction leaves an unavailable product listed but that one.
LEMMA TransactionsKeepCollections ==
    ASSUME Structure, CollectionsOK, Transaction
    PROVE  CollectionsOK'
<1>1. PICK op : Running(op) /\ Advance /\ (op = "deploy" <=> DeployContract)
                /\ (op = "collections" => SetCollectionsInterfaces)
                /\ (DeployContract \/ SetCollectionsInterfaces \/ mem' = mem)
  <2>1. CASE DeployContract
    BY <2>1 DEF DeployContract
  <2>2. CASE SetRoles
    <3>1. Running("roles") /\ Advance /\ mem' = mem
      BY <2>2, SetRolesChanges
    <3> QED
      BY <3>1 DEF DeployContract, Running
  <2>3. CASE ~DeployContract /\ ~SetRoles
    <3>1. PICK op : Running(op) /\ op \notin {"deploy", "roles"}
      BY <2>3, CallsLeave
    <3>2. Advance /\ mem' = mem
      BY <2>3, CallsLeave
    <3>3. op = "collections" => SetCollectionsInterfaces
      BY <2>3, <3>1 DEF Transaction, SetManySingletons, SetController, SetPenaltyDisbursal,
         SetAllowedTransferFrom, SetAllowedTransferTo, ApplySettings, ApplyFeeSettings,
         ChangeDepositManager, ChangeFeeDisbursalController, AmendAgreement, Running
    <3> QED
      BY <2>3, <3>1, <3>2, <3>3
  <2> QED
    BY <2>1, <2>2, <2>3
<1>2. /\ step \in StepSet /\ pc \in 1 .. LengthOf(step) /\ OpAt(step, pc) = op /\ ~Skipped
      /\ config.isolated \in BOOLEAN /\ pc \in Nat
  BY <1>1, RunningIs, Lengths DEF Structure
<1>3. /\ step' = step /\ pc' = pc + 1 /\ isLiveDeployment' = isLiveDeployment
      /\ interrupted' = interrupted /\ config' = config /\ Skipped' = Skipped
  BY <1>1 DEF Advance, isLiveDeployment, Skipped, ShouldSkipStep
<1>4. SUFFICES ASSUME isLiveDeployment, 13 \notin interrupted, step >= 9 PROVE CollectionsOK'
  BY <1>2, <1>3 DEF CollectionsOK, StepSet
<1>5. CASE SetCollectionsInterfaces
  BY <1>4, <1>5, ListingKeepsCollections
<1>6. CASE ~SetCollectionsInterfaces
  <2>1. ~(step = 13 /\ pc \in {4, 5}) 
    BY <1>1, <1>6, <1>2 DEF OpAt
  <2>2. CASE DeployContract /\ op = "deploy" /\ DeployedAt(step, pc) = "universe"
    <3>1. PICK kind, this, r : Deploys(kind, this, r)
      BY <2>2, DeployCalled
    <3>2. kind = "universe" /\ Appears(kind, this, r) /\ r = Created(kind, this)
      BY <2>2, <3>1, DeployedAnew DEF Deploys
    <3>3. UniverseState' = r
      BY <3>2 DEF Appears, UniverseState
    <3>4. Unavailable' = {}
      BY <3>2, <3>3, NewUniverseIsEmpty DEF Unavailable
    <3>5. step = 9
      BY <3>1, <3>2, DeployMoves DEF PlatformKinds
    <3> QED
      BY <1>3, <3>4, <3>5 DEF CollectionsOK
  <2>3. CASE ~(DeployContract /\ DeployedAt(step, pc) = "universe")
    <3>1. mem'["universe"] = mem["universe"]
      <4>1. CASE DeployContract
        <5>1. PICK kind, this, r : Deploys(kind, this, r)
          BY <4>1, DeployCalled
        <5>2. kind # "universe"
          BY <2>3, <4>1, <5>1 DEF Deploys
        <5> QED
          BY <5>1, <5>2, DeployedAnew, KindsAre DEF Appears
      <4>2. CASE ~DeployContract
        BY <1>1, <1>6, <4>2
      <4> QED
        BY <4>1, <4>2
    <3>2. \A i : Place("universe") = i => (step = 9 => i = 1 + Offset)
      BY DEF Place
    <3>3. step = 9 /\ DeployedBefore("universe")' => DeployedBefore("universe")
      <4> SUFFICES ASSUME step = 9, DeployedBefore("universe")' PROVE DeployedBefore("universe")
        OBVIOUS
      <4>1. Place("universe") = 1 + Offset /\ Place("universe")' = 1 + Offset'
        BY <1>3 DEF Place
      <4>2. Offset' = Offset /\ (Offset = 0 \/ Offset = 1)
        BY <1>3 DEF Offset
      <4>3. pc # 1 + Offset
        <5> SUFFICES ASSUME pc = 1 + Offset PROVE FALSE
          OBVIOUS
        <5>1. op = "deploy" /\ DeployedAt(step, pc) = "universe"
          BY <1>2, <4>2 DEF OpAt, DeployedAt
        <5> QED
          BY <1>1, <2>3, <5>1
      <4> QED
        BY <1>2, <1>3, <4>1, <4>2, <4>3 DEF DeployedBefore
    <3>4. CASE (step = 9 /\ DeployedBefore("universe")) \/ step > 9
      <4>1. Is(mem["universe"], "universe")
        <5>1. mem["universe"] # Zero
          BY <3>4, DeployedEarlier, UniverseIsReady, KindsAre, NotContracts
             DEF Structure, AddressesOK, Is
        <5> QED
          BY <1>4, <5>1, UniverseIsKnown
      <4>2. UniverseState.collections' = UniverseState.collections
        BY <1>6, <3>1, <4>1, CollectionsStay
      <4>3. Unavailable = {}
        BY <1>4, <2>1, <3>4 DEF CollectionsOK
      <4>4. Unavailable' = {}
        BY <4>2, <4>3 DEF Unavailable
      <4> QED
        BY <4>4 DEF CollectionsOK
    <3>5. CASE step = 9 /\ ~DeployedBefore("universe")
      BY <1>3, <3>3, <3>5 DEF CollectionsOK
    <3> QED
      BY <1>2, <1>4, <3>4, <3>5 DEF StepSet
  <2> QED
    BY <1>1, <2>2, <2>3
<1> QED
  BY <1>5, <1>6

\* A migration that does not run on is remembered as interrupted.
LEMMA CourseInterrupts ==
    ASSUME Structure, Course
    PROVE  /\ interrupted \subseteq interrupted'
           /\ step' = step /\ pc' # pc /\ pc # 0 => step \in interrupted'
<1>1. CASE Revert \/ Crash
  BY <1>1 DEF Revert, Crash, Fail
<1>2. CASE Finish
  <2>1. step # 201 => step' # step
    BY <1>2, FinishIs, NextStepGrows DEF StepSet
  <2> QED
    BY <1>2, <2>1, FinishIs
<1>3. CASE ~Revert /\ ~Crash /\ ~Finish
  BY <1>3 DEF Course, Begin, Restart, Configures, ConfigureCommitment, ConfigureUniverse,
              KeyHolders, RevokeDeployer, ReinstateDeployer, ByAccessController, FinishByHand, vars,
              control
<1> QED
  BY <1>1, <1>2, <1>3

\* Nor does any other step.
LEMMA CollectionsAreInductive ==
    ASSUME Structure, CollectionsOK, [Next]_vars
    PROVE  CollectionsOK'
<1>1. CASE Transaction
  BY <1>1, TransactionsKeepCollections
<1>2. CASE Course
  <2>1. Moves /\ network' = network /\ (Ends \/ StartsOver => config' = config)
    BY <1>2, CourseMoves
  <2>2. Structure'
    BY <1>2, StructureIsInductive DEF Course, Next, Runs
  <2>3. /\ step \in StepSet /\ step' \in StepSet /\ step \in Nat /\ step' \in Nat /\ pc \in Nat
        /\ config.isolated \in BOOLEAN
    <3>1. /\ step \in StepSet /\ config.isolated \in BOOLEAN /\ step' \in StepSet
      BY <2>2 DEF Structure, ControlOK, ConfigOK
    <3>2. pc \in Nat
      BY <3>1, Lengths DEF Structure, ControlOK
    <3> QED
      BY <3>1, <3>2 DEF StepSet
  <2>4. SUFFICES ASSUME isLiveDeployment, 13 \notin interrupted'
                 PROVE  /\ (step' = 9 /\ DeployedBefore("universe")') \/ (step' > 9 /\ ~(step' = 13 /\ pc' = 5)) =>
                             Unavailable' = {}
                        /\ step' = 13 /\ pc' = 5 =>
                             Unavailable' \subseteq {<<"etoTermsConstraints", mem'["hnwi_eto_de_security"]>>}
    BY <2>1 DEF CollectionsOK, isLiveDeployment
  <2>5. 13 \notin interrupted
    BY <1>2, <2>4, CourseInterrupts
  <2>6. CASE step' = 9
    <3> SUFFICES ASSUME DeployedBefore("universe")' PROVE Unavailable' = {}
      BY <2>6
    <3>1. pc' > 1 + Offset' /\ (Offset' = 0 \/ Offset' = 1)
      <4>1. Place("universe")' = 1 + Offset' /\ (Offset' = 0 \/ Offset' = 1)
        BY <2>6 DEF Place, Offset
      <4>2. pc' \in Nat
        BY <2>2, <2>3, Lengths DEF Structure, ControlOK
      <4> QED
        BY <4>1, <4>2 DEF DeployedBefore
    <3>2. step = 9 /\ pc' = pc /\ pc' # 0
      <4>1. step = 9 => ~Skipped
        BY DEF Skipped, ShouldSkipStep
      <4> QED
        BY <2>1, <2>6, <3>1, <4>1 DEF Moves, Stays, Begins, Ends, StartsOver, DeployedBefore
    <3>3. config'.isolated = config.isolated /\ mem' = mem
      BY <1>2, <3>2, CourseMoves, CourseRemembers
    <3>4. contracts' = contracts
      BY <1>2, <3>2, CourseStands, ByHand
    <3>5. DeployedBefore("universe")
      <4>1. Place("universe") = 1 + Offset /\ Offset' = Offset
        BY <3>2, <3>3 DEF Place, Offset
      <4> QED
        BY <2>3, <3>1, <3>2, <4>1 DEF DeployedBefore, Skipped, ShouldSkipStep
    <3> QED
      BY <2>4, <2>5, <3>2, <3>3, <3>4, <3>5 DEF CollectionsOK, Unavailable, UniverseState
  <2>7. CASE step' > 9
    <3>1. UniverseState' = UniverseState /\ Unavailable' = Unavailable
      BY <1>2, <2>7, CourseStands DEF Unavailable
    <3>2. CASE step = 9
      <4>1. Ends
        BY <2>1, <2>7, <3>2 DEF Moves, Stays, Begins, StartsOver
      <4>2. step' = 10 /\ pc = 12 + Offset
        BY <3>2, <4>1 DEF Ends, NextStep, LengthOf, Offset
      <4>3. DeployedBefore("universe")
        BY <3>2, <4>2 DEF DeployedBefore, Place, Offset, Skipped, ShouldSkipStep
      <4> QED
        BY <2>4, <2>5, <3>1, <3>2, <4>2, <4>3 DEF CollectionsOK
    <3>3. CASE step > 9 /\ ~(step = 13 /\ pc = 5)
      BY <2>4, <2>5, <3>1, <3>3 DEF CollectionsOK
    <3>4. CASE step = 13 /\ pc = 5
      <4>1. Unavailable \subseteq {<<"etoTermsConstraints", mem["hnwi_eto_de_security"]>>}
        BY <2>4, <2>5, <3>4 DEF CollectionsOK
      <4>2. ~Ends /\ ~StartsOver /\ ~Begins
        BY <2>4, <3>4 DEF Ends, StartsOver, Begins, LengthOf
      <4>3. step' = step
        BY <2>1, <4>2 DEF Moves, Stays
      <4>4. pc' = pc
        BY <1>2, <2>4, <3>4, <4>3, CourseInterrupts
      <4>5. mem' = mem
        BY <1>2, <3>4, <4>4, CourseRemembers
      <4> QED
        BY <3>1, <3>4, <4>1, <4>3, <4>4, <4>5
    <3>5. step >= 9
      <4>1. step' = step \/ step' = NextStep(step) \/ step' = 2
        BY <2>1 DEF Moves, Stays, Begins, Ends, StartsOver
      <4> QED
        BY <2>3, <2>7, <4>1 DEF StepSet, NextStep
    <3> QED
      BY <2>3, <3>2, <3>3, <3>4, <3>5
  <2>8. CASE step' < 9
    BY <2>3, <2>8
  <2> QED
    BY <2>3, <2>6, <2>7, <2>8
<1> QED
  BY <1>1, <1>2 DEF Next, Runs, Course

-----------------------------------------------------------------------------
(* What the migrations leave behind *)

DeploymentOK == Structure /\ RightsOK /\ WiringOK /\ DepositRights /\ CollectionsOK

\* All of it always holds.
LEMMA DeploymentHolds == Spec => []DeploymentOK
<1>1. Init => WiringOK /\ DepositRights /\ CollectionsOK
  BY StepsInOrder DEF Init, WiringOK, Reached, DepositRights, CollectionsOK
<1>2. Structure /\ WiringOK /\ DepositRights /\ CollectionsOK /\ [Next]_vars =>
        WiringOK' /\ DepositRights' /\ CollectionsOK'
  BY WiringIsInductive, DepositsAreInductive, CollectionsAreInductive
<1> QED
  BY <1>1, <1>2, RightsHold, PTL DEF Spec, DeploymentOK

\* Under a policy that denies nothing a right is enough, on the object or on every object.
LEMMA RightsAllow ==
    ASSUME NEW policy, AllowsOnly(policy), NEW subject, NEW role, NEW object,
           \/ <<subject, role, object>> \in DOMAIN policy
           \/ <<subject, role, GLOBAL>> \in DOMAIN policy
    PROVE  Allowed(policy, subject, role, object)
<1> DEFINE E == Cascade(policy, subject, role, object)
<1>1. \A s, r, o : /\ Access(policy, s, r, o) \in {"Allow", "Unset"}
                   /\ <<s, r, o>> \in DOMAIN policy => Access(policy, s, r, o) = "Allow"
  BY DEF AllowsOnly, Access
<1>2. /\ E[1] \in {"Allow", "Unset"} /\ (E[1] = "Allow" \/ E[2] = "Allow")
  BY <1>1 DEF Cascade
<1>3. E[1] = "Allow" => \E i \in 1 .. 4 : E[i] = "Allow" /\ \A j \in 1 .. i - 1 : E[j] = "Unset"
  <2> HIDE DEF E
  <2> SUFFICES ASSUME E[1] = "Allow"
               PROVE  \E i \in 1 .. 4 : E[i] = "Allow" /\ \A j \in 1 .. i - 1 : E[j] = "Unset"
    OBVIOUS
  <2> WITNESS 1 \in 1 .. 4
  <2> QED
    OBVIOUS
<1>4. E[1] = "Unset" => \E i \in 1 .. 4 : E[i] = "Allow" /\ \A j \in 1 .. i - 1 : E[j] = "Unset"
  <2> HIDE DEF E
  <2> SUFFICES ASSUME E[1] = "Unset"
               PROVE  \E i \in 1 .. 4 : E[i] = "Allow" /\ \A j \in 1 .. i - 1 : E[j] = "Unset"
    OBVIOUS
  <2>1. E[2] = "Allow" /\ \A j \in 1 .. 2 - 1 : E[j] = "Unset"
    BY <1>2
  <2> WITNESS 2 \in 1 .. 4
  <2> QED
    BY <2>1
<1> QED
  BY <1>2, <1>3, <1>4 DEF Allowed

\* From migration 12 on the deposit manager can deposit, and the lock can.
LEMMA DepositsManaged ==
    ASSUME DeploymentOK, step > 11
    PROVE  /\ DepositsAreManaged
           /\ May(SingletonOf("euroLock"), "eurtDepositManager", SingletonOf("euroToken"))
<1>1. Structure /\ step > 9
  BY DEF DeploymentOK, Structure, ControlOK, StepSet
<1>2. /\ Managing = TokenController /\ mem["universe"] # Zero
      /\ \A name : SingletonOf(name) = UniverseState.singletons[name]
      /\ contracts[SingletonOf("euroToken")].policy = UniverseState.policy
      /\ UniverseState.policy \in Policies
  BY <1>1, WiredContracts, UniverseIsReady, UniverseIsKnown DEF Structure, ControlOK, StepSet
<1>3. contracts[TokenController].depositManager = Account("EURT_DEPOSIT_MANAGER")
  BY <1>2 DEF DeploymentOK, WiringOK, Reached, Manager
<1>4. DepositsAt(Rights(UniverseState.policy), SingletonOf("euroLock"), SingletonOf("euroToken"))
  <2>1. step > 10
    BY <1>1 DEF Structure, ControlOK, StepSet
  <2> QED
    BY <1>2, <2>1 DEF DeploymentOK, DepositRights
<1>5. AllowsOnly(access[UniverseState.policy])
  BY <1>1, <1>2 DEF Structure, AccessOK
<1>6. /\ May(Account("EURT_DEPOSIT_MANAGER"), "eurtDepositManager", SingletonOf("euroToken"))
      /\ May(SingletonOf("euroLock"), "eurtDepositManager", SingletonOf("euroToken"))
  <2> DEFINE q == access[UniverseState.policy]
  <2> HIDE DEF q
  <2>1. /\ <<Account("EURT_DEPOSIT_MANAGER"), "eurtDepositManager", GLOBAL>> \in DOMAIN q
        /\ <<SingletonOf("euroLock"), "eurtDepositManager", SingletonOf("euroToken")>> \in DOMAIN q
        /\ AllowsOnly(q)
    BY <1>4, <1>5 DEF DepositsAt, Rights, q
  <2> QED
    BY <1>2, <2>1, RightsAllow DEF May, q
<1> QED
  BY <1>3, <1>6, ManagerIs DEF DepositsAreManaged

\* The names of the wires are those the script and the properties use.
LEMMA PenaltiesReach ==
    ASSUME Structure, step > 9, EuroPenalty = Disbursal, EtherPenalty = Disbursal,
           Disbursal \in OldFrom, Disbursal \in OldTo, Disbursal \in Movers
    PROVE  PenaltiesReachDisbursal
<1>1. /\ SingletonOf("feeDisbursal") = Disbursal /\ Managing = TokenController
      /\ SingletonOf("icbmEuroLock") = IcbmState.euroLock
      /\ SingletonOf("icbmEtherLock") = IcbmState.etherLock
      /\ SingletonOf("icbmEuroToken") = IcbmState.euroToken
  BY WiredContracts, IcbmRegistered DEF Disbursal
<1> QED
  BY <1>1 DEF PenaltiesReachDisbursal, EuroPenalty, EtherPenalty, OldFrom, OldTo, Movers,
              ReachesIcbmNeur, ReachesNeur

\* However often the migrations of a live network stopped and were run again, what each is
\* for holds once it is behind: the access controller has taken the ICBM over from the
\* deployer, deposits are managed, penalties reach the fee disbursal, products that are not
\* available are switched off, and the universe knows its voting center.
THEOREM WhatIsBehindHolds == Spec => []CompletedMigrationsHold
<1>1. DeploymentOK => CompletedMigrationsHold
  <2> SUFFICES ASSUME DeploymentOK, isLiveDeployment PROVE CompletedMigrationsHold
    BY DEF CompletedMigrationsHold
  <2>1. Structure /\ step \in StepSet
    BY DEF DeploymentOK, Structure, ControlOK
  <2>2. \A n \in {6, 11, 12, 13, 16} : Past(n) => step > n
    BY <2>1, PastIs DEF StepSet
  <2>3. ASSUME Past(6)
        PROVE  /\ Access(access[IcbmPolicy], DEPLOYER, "accessController", GLOBAL) = "Unset"
               /\ \A object \in {GLOBAL, IcbmPolicy} :
                    Access(access[IcbmPolicy], Account("ACCESS_CONTROLLER"),
                           "accessController", object) = "Allow"
    <3>1. step > 6 /\ step # 2 /\ step \notin 2 .. 6
      BY <2>1, <2>2, <2>3 DEF StepSet
    <3>2. IcbmPolicy = IcbmState.policy /\ IcbmState.policy \in Policies
      BY <2>1, <3>1, IcbmInUse DEF IcbmPolicy, IcbmState
    <3>3. Stage = step /\ step >= 9
      BY <2>1, <3>1 DEF Stage, Skipped, ShouldSkipStep, StepSet
    <3>4. Handed(Rights(IcbmPolicy), IcbmPolicy)
      BY <3>1, <3>2, <3>3 DEF DeploymentOK, RightsOK, RightsAt
    <3>5. AllowsOnly(access[IcbmPolicy])
      BY <2>1, <3>2 DEF Structure, AccessOK
    <3> HIDE DEF IcbmPolicy
    <3> QED
      BY <3>4, <3>5 DEF Handed, Rights, CONTROLLER, AllowsOnly, Access
  <2>4. Past(11) => DepositsAreManaged
    BY <2>2, DepositsManaged
  <2>5. ASSUME Past(12) PROVE PenaltiesReachDisbursal
    <3>1. step > 12 /\ step > 9
      BY <2>1, <2>2, <2>5 DEF StepSet
    <3> QED
      BY <2>1, <3>1, PenaltiesReach DEF DeploymentOK, WiringOK, Reached
  <2>6. ASSUME Past(13), 13 \notin interrupted, NEW product \in AllProducts,
               NEW member \in contracts[UniverseInUse].collections, ~product.available
        PROVE  member[2][1] # product.name
    <3>1. step > 13 /\ step > 9
      BY <2>1, <2>2, <2>6 DEF StepSet
    <3>2. product.name = "hnwi_eto_de_security"
      BY <2>6 DEF AllProducts, Products, Range
    <3>3. UniverseInUse = mem["universe"]
      BY <2>1, <3>1, UniverseIsReady, UniverseIsKnown DEF StepSet
    <3>4. Unavailable = {}
      BY <2>6, <3>1 DEF DeploymentOK, CollectionsOK
    <3> QED
      BY <2>6, <3>2, <3>3, <3>4 DEF Unavailable, UniverseState
  <2>7. ASSUME Past(16) PROVE SingletonOf("votingCenter") # Zero
    <3>1. step > 16 /\ step > 9
      BY <2>1, <2>2, <2>7 DEF StepSet
    <3> QED
      BY <2>1, <3>1, WiredContracts DEF DeploymentOK, WiringOK, Reached, Voting
  <2> QED
    BY <2>3, <2>4, <2>5, <2>6, <2>7 DEF CompletedMigrationsHold
<1> QED
  BY <1>1, DeploymentHolds, PTL

\* A universe the script verifies is the one of the configuration, that the locks migrate to.
LEMMA VerifiedIsConfigured ==
    ASSUME Structure, VerifyDeployment
    PROVE  config.universe # Zero /\ step >= 12
<1>1. Is(UniverseInUse, "universe")
  <2>1. UniverseInUse \in {saved["universe"], mem["universe"]}
    BY DEF UniverseInUse, Structure, ConfigOK
  <2>2. UniverseInUse # Zero
    BY DEF VerifyDeployment
  <2> QED
    BY <2>1, <2>2, KindsAre DEF Structure, ArtifactsOK, Artifacts
<1>2. LinkedUniverse(contracts[UniverseInUse])
  BY <1>1 DEF Structure, LinksOK, Linked, Is
<1> DEFINE lock == SingletonOf("icbmEuroLock")
<1>3. lock # Zero /\ SingletonOf("euroLock") # Zero /\ contracts[lock].target = SingletonOf("euroLock")
  <2>1. {"icbmEuroLock", "euroLock"} \subseteq SingletonNames \ {"votingCenter"}
    BY NamesKnown
  <2> QED
    BY <2>1 DEF VerifyDeployment, LocksMigrate, Migrates
<1>4. Is(lock, "icbmEuroLock")
  <2>1. SingletonOK("icbmEuroLock", lock)
    BY <1>2, NamesKnown DEF LinkedUniverse, SingletonOf
  <2>2. KindOf("icbmEuroLock") = "icbmEuroLock"
    BY DEF KindOf
  <2> HIDE DEF lock
  <2> QED
    BY <1>3, <2>1, <2>2 DEF SingletonOK
<1>5. config.universe # Zero
  <2>1. Linked(lock) /\ lock[1] \in Locks
    BY <1>4 DEF Structure, LinksOK, Is, Locks
  <2> HIDE DEF lock
  <2> QED
    BY <1>3, <2>1 DEF Linked
<1> QED
  BY <1>5 DEF Structure, ConfigOK

\* A universe that verifyDeployment.js shows all green is also wired where it does not look:
\* penalties reach its fee disbursal, its lock and its deposit manager can deposit, and no
\* contract of another attempt at the deployment is mixed in.
THEOREM VerifiedUniversesAreWired == Spec => []VerifiedMeansWired
<1>1. DeploymentOK => VerifiedMeansWired
  <2> SUFFICES ASSUME DeploymentOK, VerifyDeployment PROVE VerifiedMeansWired
    BY DEF VerifiedMeansWired
  <2>1. Structure /\ step \in StepSet /\ step >= 12
    BY VerifiedIsConfigured DEF DeploymentOK, Structure, ControlOK
  <2>2. step > 11 /\ step > 9
    BY <2>1 DEF StepSet
  <2>3. /\ mem["universe"] # Zero /\ UniverseInUse = mem["universe"]
        /\ LinkedUniverse(UniverseState)
        /\ \A name : SingletonOf(name) = UniverseState.singletons[name]
    BY <2>1, <2>2, UniverseIsReady, UniverseIsKnown DEF StepSet
  <2>4. /\ SingletonOf("feeDisbursal") = Disbursal /\ Managing = TokenController
        /\ SingletonOf("icbmEuroToken") = IcbmState.euroToken
    BY <2>1, <2>2, WiredContracts, IcbmRegistered DEF Disbursal
  <2>5. Disbursal \in OldTo /\ Disbursal \in OldFrom /\ Disbursal \in Movers
    BY <2>4 DEF VerifyDeployment, DisbursalHasRights, ControllerAllowsTransfers, ReachesIcbmNeur,
                ReachesNeur, OldTo, OldFrom, Movers
  <2>6. EuroPenalty = Disbursal /\ EtherPenalty = Disbursal
    BY <2>2, <2>5 DEF DeploymentOK, WiringOK
  <2>7. PenaltiesReachDisbursal
    BY <2>1, <2>2, <2>5, <2>6, PenaltiesReach
  <2>8. \A name \in SingletonNames \ {"votingCenter"} : SingletonOf(name) # Zero
    BY DEF VerifyDeployment
  <2>9. \A name \in UnderPolicy \ {"feeDisbursal"} : Is(SingletonOf(name), name)
    <3> SUFFICES ASSUME NEW name \in UnderPolicy \ {"feeDisbursal"}
                 PROVE  Is(SingletonOf(name), name)
      OBVIOUS
    <3>1. KindOf(name) = name /\ name \in SingletonNames \ {"votingCenter"}
      BY NamesKnown DEF UnderPolicy
    <3>2. SingletonOK(name, SingletonOf(name)) /\ SingletonOf(name) # Zero
      BY <2>3, <2>8, <3>1 DEF LinkedUniverse
    <3>3. name \notin {"feeDisbursal", "platformPortfolio"}
      BY DEF UnderPolicy
    <3> QED
      BY <3>1, <3>2, <3>3 DEF SingletonOK
  <2>10. SingletonOf("feeDisbursal") \in OnChain
    BY <2>1, <2>2, <2>4, <2>5, WiredContracts
  <2>11. \A name \in UnderPolicy :
           contracts[SingletonOf(name)].policy = contracts[UniverseInUse].policy
    <3>1. \A name \in UnderPolicy : SingletonOf(name) \in OnChain
      BY <2>9, <2>10 DEF Is
    <3> QED
      BY <2>3, <3>1 DEF LinkedUniverse, UniverseState
  <2>13. contracts[SingletonOf("euroToken")].controller = SingletonOf("euroTokenController")
    BY <2>3, <2>8, NamesKnown DEF LinkedUniverse
  <2>14. May(SingletonOf("euroLock"), "eurtDepositManager", SingletonOf("euroToken"))
         /\ DepositsAreManaged
    BY <2>2, DepositsManaged
  <2> QED
    BY <2>7, <2>11, <2>13, <2>14 DEF VerifiedMeansWired, UnderPolicy
<1> QED
  BY <1>1, DeploymentHolds, PTL

=============================================================================
