-------------------------- MODULE ETOCommitment_proofs --------------------------
(***************************************************************************)
(* The books of an offering are in order in every reachable state, for any *)
(* investors, terms, wallets, payments, rates and clock, and the offering  *)
(* is an implementation of its timed state machine.                        *)
(*                                                                         *)
(* The invariant (Inv) is one of the world w that a transaction carries    *)
(* through its steps, in a phase s: it holds of the state (Books), every   *)
(* effect of entering a phase leads from the invariant of the old phase to *)
(* that of the new one, every body of a transaction keeps it, and so the   *)
(* state after the transaction has it again.                               *)
(***************************************************************************)
EXTENDS ETOCommitment, LockRecords_proofs

-----------------------------------------------------------------------------
(***************************************************************************)
(* What holds of the terms of every offering, whatever its numbers.        *)
(***************************************************************************)

\* Division with remainder, as the provers need it.
LEMMA DivisionFacts ==
    ASSUME NEW n \in Nat, NEW d \in Nat \ {0}
    PROVE  /\ n \div d \in Nat
           /\ n % d \in 0 .. (d - 1)
           /\ n = d * (n \div d) + (n % d)
  BY Z3

\* The number that is a whole multiple and not below another one is at least the next
\* multiple above that one.
LEMMA NextMultipleFits ==
    ASSUME NEW n \in Nat, NEW m \in Nat, NEW d \in Nat \ {0},
           n <= m, m % d = 0, n % d # 0
    PROVE  n + (d - (n % d)) <= m
<1> DEFINE q == n \div d
           r == n % d
           k == m \div d
<1>1. q \in Nat /\ r \in 1 .. (d - 1) /\ n = d * q + r
  <2>1. q \in Nat /\ r \in 0 .. (d - 1) /\ n = d * q + r
    BY DivisionFacts DEF q, r
  <2>2. r # 0
    BY DEF r
  <2>. HIDE DEF q, r
  <2>. QED BY <2>1, <2>2
<1>2. k \in Nat /\ m = d * k
  BY DivisionFacts DEF q, r, k
<1>3. q + 1 <= k
  <2>1. SUFFICES ASSUME k <= q PROVE FALSE
    BY <1>1, <1>2
  <2>2. d * k <= d * q
    BY <1>1, <1>2, <2>1
  <2>. QED BY <1>1, <1>2, <2>2
<1>4. d * (q + 1) <= d * k
  BY <1>1, <1>2, <1>3
<1>5. d * (q + 1) = d * q + d
  BY <1>1
<1>. QED BY <1>1, <1>2, <1>4, <1>5

\* Adding what is missing to a multiple gives one.
LEMMA RoundedUpIsMultiple ==
    ASSUME NEW n \in Nat, NEW d \in Nat \ {0}
    PROVE  (n + (d - (n % d))) % d = 0
<1> DEFINE q == n \div d
           r == n % d
           up == n + (d - r)
<1>1. q \in Nat /\ r \in 0 .. (d - 1) /\ n = d * q + r
  BY DivisionFacts DEF q, r
<1>2. up = d * (q + 1) /\ up \in Nat
  <2>. HIDE DEF q, r
  <2>. QED BY <1>1 DEF up
<1>3. up = d * (up \div d) + (up % d) /\ up \div d \in Nat /\ up % d \in 0 .. (d - 1)
  BY <1>2, DivisionFacts
<1>4. up % d = d * ((q + 1) - (up \div d))
  <2>. DEFINE u == up \div d
              v == up % d
  <2>1. u \in Nat /\ v \in 0 .. (d - 1) /\ d * (q + 1) = d * u + v
    BY <1>2, <1>3
  <2>. HIDE DEF q, r, up, u, v
  <2>2. v = d * ((q + 1) - u)
    BY <1>1, <2>1
  <2>. QED BY <2>2 DEF u, v
<1>5. up % d = 0
  <2>. DEFINE w == (q + 1) - (up \div d)
              v == up % d
  <2>1. w \in Int /\ v \in 0 .. (d - 1) /\ v = d * w
    BY <1>1, <1>3, <1>4
  <2>. HIDE DEF w, v
  <2>2. w <= 0 => v = 0
    <3>1. CASE w = 0
      BY <3>1, <2>1
    <3>2. CASE w < 0
      <4>1. d * w <= d * (-1)
        BY <3>2, <2>1
      <4>. QED BY <4>1, <2>1
    <3>. QED BY <3>1, <3>2, <2>1
  <2>3. w > 0 => d * w >= d
    BY <2>1
  <2>4. v = 0
    BY <2>1, <2>2, <2>3
  <2>. QED BY <2>4 DEF v
<1>. QED BY <1>5 DEF up, r

\* The token terms the constructor accepts.
LEMMA Constants ==
    /\ MAX_NUMBER_OF_TOKENS \in Nat
    /\ EQUITY_TOKENS_PER_SHARE \in Nat \ {0}
    /\ MAX_NUMBER_OF_TOKENS % EQUITY_TOKENS_PER_SHARE = 0
  BY TokenTermsAssumption

\* Taking the fee off never leaves more than there was.
LEMMA AvailableTokens ==
    MAX_AVAILABLE_TOKENS \in Nat /\ MAX_AVAILABLE_TOKENS <= MAX_NUMBER_OF_TOKENS
<1>1. MAX_AVAILABLE_TOKENS = (MAX_NUMBER_OF_TOKENS * 50 + 25) \div 51
  BY Constants DEF MAX_AVAILABLE_TOKENS, CalculateAmountWithoutFee, DivRound
<1>. QED BY <1>1, Constants

\* The rounded fee of anything less than the available tokens still fits.
LEMMA FeeFits ==
    ASSUME NEW t \in Nat, t < MAX_AVAILABLE_TOKENS
    PROVE  /\ CalculatePlatformTokenFee(t) \in Nat
           /\ t + CalculatePlatformTokenFee(t) <= MAX_NUMBER_OF_TOKENS
<1>1. MAX_AVAILABLE_TOKENS = (MAX_NUMBER_OF_TOKENS * 50 + 25) \div 51
  BY Constants DEF MAX_AVAILABLE_TOKENS, CalculateAmountWithoutFee, DivRound
<1>2. CalculatePlatformTokenFee(t) = (t + 25) \div 50
  BY DEF CalculatePlatformTokenFee, DivRound
<1>. QED BY <1>1, <1>2, Constants

\* An offering that sells at most what is available issues whole shares and never more
\* tokens than the maximum, for all terms the constructors accept: the requirement
\* NF_MUST_ISSUE_WHOLE_SHARES cannot fail and the disabled NF_FEE_CROSSING_CAP is not
\* needed.  This holds although fee and amount without fee are not inverse.
THEOREM IssueFits ==
    ASSUME NEW t \in Nat, t <= MAX_AVAILABLE_TOKENS
    PROVE  /\ TokenParticipationFee(t) \in Nat
           /\ t + TokenParticipationFee(t) <= MAX_NUMBER_OF_TOKENS
           /\ (t + TokenParticipationFee(t)) % EQUITY_TOKENS_PER_SHARE = 0
<1> DEFINE d == EQUITY_TOKENS_PER_SHARE
           n == t + CalculatePlatformTokenFee(t)
<1>1. CASE t = MAX_AVAILABLE_TOKENS
  <2>1. TokenParticipationFee(t) = MAX_NUMBER_OF_TOKENS - t
    BY <1>1 DEF TokenParticipationFee
  <2>. QED BY <2>1, AvailableTokens, Constants
<1>2. CASE t # MAX_AVAILABLE_TOKENS
  <2>1. /\ CalculatePlatformTokenFee(t) \in Nat
        /\ n \in Nat /\ n <= MAX_NUMBER_OF_TOKENS
    BY <1>2, FeeFits, AvailableTokens
  <2>2. TokenParticipationFee(t) = CalculatePlatformTokenFee(t) + MissingToWholeShare(n)
    BY <1>2 DEF TokenParticipationFee
  <2>3. d \in Nat \ {0} /\ MAX_NUMBER_OF_TOKENS % d = 0 /\ MAX_NUMBER_OF_TOKENS \in Nat
    BY Constants
  <2>4. CASE n % d = 0
    <3>1. MissingToWholeShare(n) = 0
      BY <2>4 DEF MissingToWholeShare
    <3>. QED BY <3>1, <2>1, <2>2, <2>4
  <2>5. CASE n % d # 0
    <3>1. MissingToWholeShare(n) = d - (n % d)
      BY <2>5 DEF MissingToWholeShare
    <3>2. n % d \in 0 .. (d - 1)
      BY <2>1, <2>3, DivisionFacts
    <3>3. n + (d - (n % d)) <= MAX_NUMBER_OF_TOKENS
      BY <2>1, <2>3, <2>5, NextMultipleFits
    <3>4. (n + (d - (n % d))) % d = 0
      BY <2>1, <2>3, RoundedUpIsMultiple
    <3>5. t + TokenParticipationFee(t) = n + (d - (n % d)) /\ TokenParticipationFee(t) \in Nat
      BY <3>1, <3>2, <2>1, <2>2, <2>3
    <3>. QED BY <3>3, <3>4, <3>5
  <2>. QED BY <2>4, <2>5
<1>. QED BY <1>1, <1>2

-----------------------------------------------------------------------------
(***************************************************************************)
(* The record of a transaction.                                            *)
(***************************************************************************)

AWorld(e, b, n, q, l, k) ==
    [eto |-> e, bal |-> b, neu |-> n, equity |-> q, locks |-> l, ok |-> k]

IsWorld(w) == w = AWorld(w.eto, w.bal, w.neu, w.equity, w.locks, w.ok)

\* The fields of an offering, those the payments change and the others.
IsOffering(e) ==
    e = [machine |-> e.machine, tickets |-> e.tickets, agreements |-> e.agreements,
         totalEquivEurUlps |-> e.totalEquivEurUlps, totalTokenAmount |-> e.totalTokenAmount,
         totalFixedSlotsTokenAmount |-> e.totalFixedSlotsTokenAmount,
         totalInvestors |-> e.totalInvestors,
         additionalContribution |-> e.additionalContribution,
         platformFee |-> e.platformFee, newShares |-> e.newShares,
         tokenParticipationFeeAmount |-> e.tokenParticipationFeeAmount,
         signedUrl |-> e.signedUrl, nomineeSignedUrl |-> e.nomineeSignedUrl]

\* What a payment does to the record.
LEMMA PayIs ==
    ASSUME NEW w, IsWorld(w), NEW c, NEW to, NEW amount
    PROVE  /\ IsWorld(Pay(w, c, to, amount))
           /\ Pay(w, c, to, amount).eto = w.eto
           /\ Pay(w, c, to, amount).bal = [w.bal EXCEPT ![c] = Moved(w.bal[c], "eto", to, amount)]
           /\ Pay(w, c, to, amount).neu = w.neu
           /\ Pay(w, c, to, amount).equity = w.equity
           /\ Pay(w, c, to, amount).locks = w.locks
           /\ Pay(w, c, to, amount).ok <=> (w.ok /\ MayReceive(c, to) /\ w.bal[c]["eto"] >= amount)
<1> DEFINE v == Require(w, MayReceive(c, to) /\ w.bal[c]["eto"] >= amount)
           p == [v EXCEPT !.bal[c] = Moved(@, "eto", to, amount)]
<1>1. Pay(w, c, to, amount) = p
  BY DEF Pay
<1>2. v = AWorld(w.eto, w.bal, w.neu, w.equity, w.locks,
               w.ok /\ (MayReceive(c, to) /\ w.bal[c]["eto"] >= amount))
  BY DEF Require, IsWorld, AWorld
<1>3. p = AWorld(w.eto, [w.bal EXCEPT ![c] = Moved(w.bal[c], "eto", to, amount)], w.neu,
               w.equity, w.locks,
               w.ok /\ (MayReceive(c, to) /\ w.bal[c]["eto"] >= amount))
  BY <1>2 DEF AWorld
<1> QED
  BY <1>1, <1>3 DEF AWorld, IsWorld

-----------------------------------------------------------------------------
(***************************************************************************)
(* Which states one cascade of the machine enters.                         *)
(***************************************************************************)

\* The hops of the running transaction lead up to the present state.
MachineOK(m) == m \in SM!Machines /\ \A h \in m.hops : h[2] <= m.state

\* The cascade from m0 to m enters s.
Enters(m0, m, s) == \E h \in m.hops \ m0.hops : h[2] = s

\* Of the states with effects it enters exactly those of S.
EntersOnly(m0, m, S) == \A s \in 3 .. 6 : Enters(m0, m, s) <=> s \in S

\* The ways of a cascade through the states with effects.
Reaches(m0, m) ==
    /\ MachineOK(m0) /\ MachineOK(m) /\ m0.hops \subseteq m.hops
    /\ \/ m.state = m0.state /\ EntersOnly(m0, m, {})
       \/ m0.state < m.state /\ m.state <= 2 /\ EntersOnly(m0, m, {})
       \/ m0.state <= 2 /\ m.state = 3 /\ EntersOnly(m0, m, {3})
       \/ m0.state <= 2 /\ m.state = 6 /\ EntersOnly(m0, m, {6})
       \/ m0.state <= 2 /\ m.state = 6 /\ EntersOnly(m0, m, {3, 6})
       \/ m0.state = 3 /\ m.state = 6 /\ EntersOnly(m0, m, {6})
       \/ m0.state = 3 /\ m.state = 4 /\ EntersOnly(m0, m, {4})
       \/ m0.state = 4 /\ m.state = 5 /\ EntersOnly(m0, m, {5})

\* The phases and their durations.
LEMMA Phases ==
    /\ SM!Setup = 0 /\ SM!Whitelist = 1 /\ SM!Public = 2 /\ SM!Signing = 3
    /\ SM!Claim = 4 /\ SM!Payout = 5 /\ SM!Refund = 6 /\ SM!ETOStates = 0 .. 6
    /\ SM!ETO_STATE_DURATIONS \in [0 .. 6 -> Nat]
<1>1. /\ SM!Setup = 0 /\ SM!Whitelist = 1 /\ SM!Public = 2 /\ SM!Signing = 3
      /\ SM!Claim = 4 /\ SM!Payout = 5 /\ SM!Refund = 6 /\ SM!ETOStates = 0 .. 6
  BY DEF SM!Setup, SM!Whitelist, SM!Public, SM!Signing, SM!Claim, SM!Payout, SM!Refund,
         SM!ETOStates
<1>2. /\ WHITELIST_DURATION \in Nat /\ PUBLIC_DURATION \in Nat /\ SIGNING_DURATION \in Nat
      /\ CLAIM_DURATION \in Nat
  BY InputAssumption
<1> QED
  BY <1>1, <1>2 DEF SM!ETO_STATE_DURATIONS

\* The parts of a machine record.
LEMMA MachineTypes ==
    ASSUME NEW m \in SM!Machines
    PROVE  /\ m.state \in 0 .. 6 /\ m.past \in [0 .. 6 -> Nat]
           /\ m.hops \subseteq (0 .. 6) \X (0 .. 6)
           /\ m = [state |-> m.state, past |-> m.past, hops |-> m.hops]
BY Phases DEF SM!Machines

\* n is the machine m after a transition to e.
IsHop(m, n, e) ==
    /\ n = [state |-> n.state, past |-> n.past, hops |-> n.hops]
    /\ n.state = e /\ n.past \in [0 .. 6 -> Nat] /\ n.hops = m.hops \cup {<<m.state, e>>}

\* the floor criteria
Floored(s, r) == IF s = 3 /\ ~r THEN 6 ELSE s

\* One transition adds the state it leads to.
LEMMA HopEnters ==
    ASSUME NEW m0, NEW m, MachineOK(m0), MachineOK(m), m0.hops \subseteq m.hops,
           m.state >= m0.state, NEW S, EntersOnly(m0, m, S),
           NEW e \in 0 .. 6, e > m.state, NEW n, IsHop(m, n, e)
    PROVE  /\ MachineOK(n) /\ m0.hops \subseteq n.hops /\ EntersOnly(m0, n, S \cup {e})
           /\ n.state = e
<1>1. /\ m0.state \in 0 .. 6 /\ m.state \in 0 .. 6
      /\ m.hops \subseteq (0 .. 6) \X (0 .. 6)
      /\ \A h \in m0.hops : h[2] <= m0.state
      /\ \A h \in m.hops : h[2] <= m.state
      /\ m0.hops \subseteq (0 .. 6) \X (0 .. 6)
  BY MachineTypes DEF MachineOK
<1>2. n.state = e /\ n.past \in [0 .. 6 -> Nat] /\ n.hops = m.hops \cup {<<m.state, e>>}
      /\ n = [state |-> n.state, past |-> n.past, hops |-> n.hops]
  BY DEF IsHop
<1>3. n \in SM!Machines
  <2>1. <<m.state, e>> \in (0 .. 6) \X (0 .. 6)
    BY <1>1
  <2>2. n.hops \subseteq (0 .. 6) \X (0 .. 6)
    BY <1>1, <1>2, <2>1
  <2> QED
    BY <1>2, <2>2, Phases DEF SM!Machines
<1>4. \A h \in n.hops : h[2] <= n.state
  <2> SUFFICES ASSUME NEW h \in n.hops PROVE h[2] <= e
    BY <1>2
  <2>1. CASE h \in m.hops
    <3>1. h[2] <= m.state /\ h[2] \in 0 .. 6
      BY <1>1, <2>1
    <3> QED
      BY <1>1, <3>1
  <2>2. CASE h = <<m.state, e>>
    BY <2>2
  <2> QED
    BY <1>2, <2>1, <2>2
<1>5. <<m.state, e>> \notin m0.hops
  <2>1. SUFFICES ASSUME <<m.state, e>> \in m0.hops PROVE FALSE
    OBVIOUS
  <2>2. e <= m0.state
    BY <1>1, <2>1
  <2> QED
    BY <1>1, <2>2
<1>6. ASSUME NEW s \in 3 .. 6 PROVE Enters(m0, n, s) <=> s \in S \cup {e}
  <2>1. Enters(m0, n, s) <=> Enters(m0, m, s) \/ s = e
    BY <1>2, <1>5 DEF Enters
  <2> QED
    BY <2>1 DEF EntersOnly
<1> QED
  BY <1>2, <1>3, <1>4, <1>6 DEF MachineOK, EntersOnly

\* What a transition is, with the floor criteria applied.
LEMMA TransitionIs ==
    ASSUME NEW m \in SM!Machines, NEW s \in 1 .. 6, NEW t \in Nat, NEW r
    PROVE  IsHop(m, SM!TransitionTo(m, s, t, r), Floored(s, r))
<1> DEFINE e == Floored(s, r)
           d == IF t < m.past[m.state] THEN t ELSE m.past[m.state]
           p == [m.past EXCEPT ![m.state] = d, ![e] = d + SM!ETO_STATE_DURATIONS[e]]
           n == SM!TransitionTo(m, s, t, r)
<1>1. n = [state |-> e, past |-> p, hops |-> m.hops \cup {<<m.state, e>>}]
  BY Phases DEF SM!TransitionTo, Floored
<1>2. e \in 0 .. 6 /\ m.state \in 0 .. 6 /\ m.past \in [0 .. 6 -> Nat]
  BY MachineTypes DEF Floored
<1>3. d \in Nat
  BY <1>2
<1>4. d + SM!ETO_STATE_DURATIONS[e] \in Nat
  BY <1>2, <1>3, Phases
<1>5. p \in [0 .. 6 -> Nat]
  BY <1>2, <1>3, <1>4
<1> HIDE DEF n, p, e
<1> QED
  BY <1>1, <1>5 DEF IsHop, n, e

\* One line of the timed cascade keeps to the ways.
LEMMA TimedHopReaches ==
    ASSUME NEW m0, NEW m, Reaches(m0, m), NEW t \in Nat, NEW r \in BOOLEAN, NEW from, NEW to,
           <<from, to>> \in {<<0, 1>>, <<1, 2>>, <<2, 3>>, <<3, 6>>, <<4, 5>>},
           m0.state = 3 => m.state # 4
    PROVE  LET n == SM!TimedHop(m, from, to, t, r)
           IN Reaches(m0, n) /\ (m0.state = 3 => n.state # 4)
<1> DEFINE n == SM!TimedHop(m, from, to, t, r)
<1> SUFFICES Reaches(m0, n) /\ (m0.state = 3 => n.state # 4)
  OBVIOUS
<1>0. /\ MachineOK(m0) /\ MachineOK(m) /\ m0.hops \subseteq m.hops
      /\ m \in SM!Machines /\ m0.state \in 0 .. 6 /\ m.state \in 0 .. 6
  BY MachineTypes DEF Reaches, MachineOK
<1>1. CASE n = m
  BY <1>1
<1>2. CASE n # m
  <2>1. m.state = from /\ n = SM!TransitionTo(m, to, t, r)
    BY <1>2 DEF SM!TimedHop
  <2> HIDE DEF n
  <2>2. to \in 1 .. 6 /\ from \in {0, 1, 2, 3, 4}
    OBVIOUS
  <2> DEFINE e == Floored(to, r)
  <2>3. IsHop(m, n, e)
    BY <1>0, <2>1, <2>2, TransitionIs
  <2>e. e = IF to = 3 /\ ~r THEN 6 ELSE to
    BY DEF Floored
  <2> HIDE DEF e
  <2>4. e \in 0 .. 6 /\ e > m.state
    BY <2>1, <2>e
  <2>h. ASSUME NEW S, EntersOnly(m0, m, S), m.state >= m0.state
        PROVE  /\ MachineOK(n) /\ m0.hops \subseteq n.hops /\ EntersOnly(m0, n, S \cup {e})
               /\ n.state = e
    BY ONLY <1>0, <2>3, <2>4, <2>h, HopEnters
  <2>5. PICK S : EntersOnly(m0, m, S) /\ m.state >= m0.state
    BY <1>0 DEF Reaches
  <2>6. MachineOK(n) /\ m0.hops \subseteq n.hops /\ n.state = e
    BY <2>5, <2>h
  <2>7. CASE m.state = m0.state /\ EntersOnly(m0, m, {})
    <3>1. EntersOnly(m0, n, {e})
      BY <1>0, <2>7, <2>h
    <3>2. CASE to \in {1, 2}
      <4>1. EntersOnly(m0, n, {}) /\ e <= 2
        BY <2>e, <3>1, <3>2 DEF EntersOnly
      <4> QED
        BY <1>0, <2>1, <2>4, <2>6, <2>7, <4>1 DEF Reaches
    <3>3. CASE to \notin {1, 2}
      BY <1>0, <2>1, <2>e, <2>6, <2>7, <3>1, <3>3 DEF Reaches
    <3> QED
      BY <3>2, <3>3
  <2>8. CASE m0.state < m.state /\ m.state <= 2 /\ EntersOnly(m0, m, {})
    <3>1. EntersOnly(m0, n, {e})
      BY <1>0, <2>8, <2>h
    <3>2. CASE to \in {1, 2}
      <4>1. EntersOnly(m0, n, {}) /\ e <= 2
        BY <2>e, <3>1, <3>2 DEF EntersOnly
      <4> QED
        BY <1>0, <2>1, <2>4, <2>6, <2>8, <4>1 DEF Reaches
    <3>3. CASE to \notin {1, 2}
      BY <1>0, <2>1, <2>e, <2>6, <2>8, <3>1, <3>3 DEF Reaches
    <3> QED
      BY <3>2, <3>3
  <2>9. CASE m0.state <= 2 /\ m.state = 3 /\ EntersOnly(m0, m, {3})
    <3>1. to = 6 /\ e = 6
      BY <2>1, <2>e, <2>9
    <3>2. EntersOnly(m0, n, {3, 6})
      <4>1. EntersOnly(m0, n, {3} \cup {e}) /\ {3} \cup {e} = {3, 6}
        BY <1>0, <2>9, <2>h, <3>1
      <4> QED
        BY <4>1
    <3> QED
      BY <1>0, <2>6, <2>9, <3>1, <3>2 DEF Reaches
  <2>10. CASE m.state = 6 \/ m.state = 5
    BY <2>1, <2>10
  <2>11. CASE m0.state = 3 /\ m.state = 4
    BY <2>11
  <2> QED
    BY <1>0, <2>7, <2>8, <2>9, <2>10, <2>11 DEF Reaches
<1> QED
  BY <1>1, <1>2

\* The timed cascade, from a transaction's beginning.
LEMMA AdvanceTimedReaches ==
    ASSUME NEW m, MachineOK(m), NEW t \in Nat, NEW r \in BOOLEAN
    PROVE  /\ Reaches(m, SM!AdvanceTimed(m, t, r))
           /\ m.state = 3 => SM!AdvanceTimed(m, t, r).state # 4
<1>0. Reaches(m, m) /\ (m.state = 3 => m.state # 4)
  BY MachineTypes DEF Reaches, EntersOnly, Enters
<1> DEFINE m1 == SM!TimedHop(m,  0, 1, t, r)
           m2 == SM!TimedHop(m1, 1, 2, t, r)
           m3 == SM!TimedHop(m2, 2, 3, t, r)
           m4 == SM!TimedHop(m3, 3, 6, t, r)
           m5 == SM!TimedHop(m4, 4, 5, t, r)
<1>6. SM!AdvanceTimed(m, t, r) = IF m.past[0] = 0 THEN m ELSE m5
  BY Phases DEF SM!AdvanceTimed
<1>1. Reaches(m, m1) /\ (m.state = 3 => m1.state # 4)
  BY <1>0, TimedHopReaches
<1> HIDE DEF m1
<1>2. Reaches(m, m2) /\ (m.state = 3 => m2.state # 4)
  BY <1>1, TimedHopReaches
<1> HIDE DEF m2
<1>3. Reaches(m, m3) /\ (m.state = 3 => m3.state # 4)
  BY <1>2, TimedHopReaches
<1> HIDE DEF m3
<1>4. Reaches(m, m4) /\ (m.state = 3 => m4.state # 4)
  BY <1>3, TimedHopReaches
<1> HIDE DEF m4
<1>5. Reaches(m, m5) /\ (m.state = 3 => m5.state # 4)
  BY <1>4, TimedHopReaches
<1> HIDE DEF m5
<1> QED
  BY <1>0, <1>5, <1>6

\* One turn of the logic cascade keeps to the ways.
LEMMA LogicHopReaches ==
    ASSUME NEW m0, NEW m, Reaches(m0, m), NEW t \in Nat, NEW r \in BOOLEAN,
           NEW x \in BOOLEAN, NEW k \in BOOLEAN, k => m0.state >= 3,
           m0.state <= 2 \/ m.state = m0.state \/ (m0.state = 3 /\ m.state = 4)
    PROVE  LET n == SM!LogicHop(m, t, r, x, k)
           IN /\ Reaches(m0, n)
              /\ m0.state <= 2 \/ n.state = m0.state \/ (m0.state = 3 /\ n.state = 4)
              /\ m.state = 3 /\ k => n.state = 4
<1> DEFINE n == SM!LogicHop(m, t, r, x, k)
           to == SM!LogicState(m.state, x, k)
<1> SUFFICES /\ Reaches(m0, n)
             /\ m0.state <= 2 \/ n.state = m0.state \/ (m0.state = 3 /\ n.state = 4)
             /\ m.state = 3 /\ k => n.state = 4
  OBVIOUS
<1>0. /\ MachineOK(m0) /\ MachineOK(m) /\ m0.hops \subseteq m.hops
      /\ m \in SM!Machines /\ m0.state \in 0 .. 6 /\ m.state \in 0 .. 6
  BY MachineTypes DEF Reaches, MachineOK
<1>s. \/ m.state = 1 /\ to = 2
      \/ m.state = 2 /\ to = 3
      \/ m.state = 3 /\ k /\ to = 4
      \/ to = m.state /\ ~ (m.state = 3 /\ k)
  BY <1>0, Phases DEF SM!LogicState
<1> HIDE DEF to
<1>n. n = IF to = m.state THEN m ELSE SM!TransitionTo(m, to, t, r)
  BY DEF SM!LogicHop, to
<1>1. CASE to = m.state
  BY <1>1, <1>n, <1>s
<1>2. CASE to # m.state
  <2>1. n = SM!TransitionTo(m, to, t, r) /\ to \in 1 .. 6
    BY <1>2, <1>n, <1>s
  <2> HIDE DEF n
  <2> DEFINE e == Floored(to, r)
  <2>3. IsHop(m, n, e)
    BY <1>0, <2>1, TransitionIs
  <2>e. e = IF to = 3 /\ ~r THEN 6 ELSE to
    BY DEF Floored
  <2> HIDE DEF e
  <2>4. e \in 0 .. 6 /\ e > m.state
    BY <1>0, <1>2, <1>s, <2>e
  <2>h. ASSUME NEW S, EntersOnly(m0, m, S), m.state >= m0.state
        PROVE  /\ MachineOK(n) /\ m0.hops \subseteq n.hops /\ EntersOnly(m0, n, S \cup {e})
               /\ n.state = e
    BY ONLY <1>0, <2>3, <2>4, <2>h, HopEnters
  <2>5. PICK S : EntersOnly(m0, m, S) /\ m.state >= m0.state
    BY <1>0 DEF Reaches
  <2>6. MachineOK(n) /\ m0.hops \subseteq n.hops /\ n.state = e
    BY <2>5, <2>h
  <2>7. CASE m.state <= 2
    <3>1. EntersOnly(m0, m, {}) /\ m0.state <= m.state
      BY <1>0, <2>7 DEF Reaches
    <3>2. EntersOnly(m0, n, {e})
      BY <1>0, <3>1, <2>h
    <3>3. CASE e = 2
      <4>1. EntersOnly(m0, n, {})
        BY <3>2, <3>3 DEF EntersOnly
      <4> QED
        BY <1>0, <2>4, <2>6, <2>7, <3>1, <3>3, <4>1 DEF Reaches
    <3>4. CASE e \in {3, 6}
      BY <1>0, <2>6, <2>7, <3>1, <3>2, <3>4 DEF Reaches
    <3> QED
      BY <1>s, <1>2, <2>e, <2>7, <3>3, <3>4
  <2>8. CASE m.state = 3
    <3>1. k /\ e = 4 /\ m0.state = 3
      BY <1>0, <1>s, <1>2, <2>e, <2>8 DEF Reaches
    <3>2. EntersOnly(m0, m, {})
      BY <1>0, <2>8, <3>1 DEF Reaches
    <3>3. EntersOnly(m0, n, {e})
      BY <1>0, <2>8, <3>1, <3>2, <2>h
    <3> QED
      BY <1>0, <2>6, <2>8, <3>1, <3>3 DEF Reaches
  <2> QED
    BY <1>0, <1>s, <1>2, <2>7, <2>8
<1> QED
  BY <1>1, <1>2

\* The logic cascade; the agreement is only confirmed from Signing on, and then the
\* offering does not stay in Signing.
LEMMA AdvanceLogicReaches ==
    ASSUME NEW m, MachineOK(m), NEW t \in Nat, NEW r \in BOOLEAN,
           NEW x \in BOOLEAN, NEW k \in BOOLEAN, k => m.state >= 3
    PROVE  /\ Reaches(m, SM!AdvanceLogic(m, t, r, x, k))
           /\ m.state >= 3 => /\ SM!AdvanceLogic(m, t, r, x, k).state
                                    = IF m.state = 3 /\ k THEN 4 ELSE m.state
<1> DEFINE Kept(n) == m.state <= 2 \/ n.state = m.state \/ (m.state = 3 /\ n.state = 4)
           m1 == SM!LogicHop(m,  t, r, x, k)
           m2 == SM!LogicHop(m1, t, r, x, k)
           m3 == SM!LogicHop(m2, t, r, x, k)
<1>0. Reaches(m, m) /\ Kept(m) /\ m.state \in 0 .. 6
  BY MachineTypes DEF Reaches, EntersOnly, Enters, MachineOK
<1>4. SM!AdvanceLogic(m, t, r, x, k) = m3
  BY DEF SM!AdvanceLogic
<1>1. Reaches(m, m1) /\ Kept(m1) /\ (m.state = 3 /\ k => m1.state = 4)
  BY <1>0, LogicHopReaches
<1>5. \A n : n.state \in {3, 4, 5, 6} /\ ~ (n.state = 3 /\ k) => SM!LogicHop(n, t, r, x, k) = n
  BY Phases DEF SM!LogicHop, SM!LogicState
<1>6. ASSUME m.state >= 3 PROVE m3.state = IF m.state = 3 /\ k THEN 4 ELSE m.state
  <2>1. CASE m.state = 3 /\ k
    <3>1. m1.state = 4
      BY <1>1, <2>1
    <3>2. m2 = m1
      BY <1>5, <3>1
    <3>3. m3 = m2
      BY <1>5, <3>1, <3>2
    <3> QED
      BY <2>1, <3>1, <3>2, <3>3
  <2>2. CASE ~ (m.state = 3 /\ k)
    <3>1. m1 = m
      BY <1>0, <1>5, <1>6, <2>2
    <3>2. m2 = m1 /\ m3 = m2
      BY <1>0, <1>5, <1>6, <2>2, <3>1
    <3> QED
      BY <2>2, <3>1, <3>2
  <2> QED
    BY <2>1, <2>2
<1> HIDE DEF m1
<1>2. Reaches(m, m2) /\ Kept(m2)
  BY <1>1, LogicHopReaches
<1> HIDE DEF m2
<1>3. Reaches(m, m3) /\ Kept(m3)
  BY <1>2, LogicHopReaches
<1> QED
  BY <1>3, <1>4, <1>6

-----------------------------------------------------------------------------
(***************************************************************************)
(* Sums over the tickets.                                                  *)
(***************************************************************************)
IsOpen(t) == ~t.settled /\ t.equivEurUlps > 0

TokensOf(T) == SumFunction([i \in Investors |-> T[i].equityTokenAmount])
EquivOf(T) == SumFunction([i \in Investors |-> T[i].equivEurUlps])
OpenRewardsOf(T) == SumFunction([i \in Investors |-> IF IsOpen(T[i]) THEN T[i].rewardNmkUlps ELSE 0])
OpenTokensOf(T) == SumFunction([i \in Investors |-> IF IsOpen(T[i]) THEN T[i].equityTokenAmount ELSE 0])
OpenAmountOf(T, c) == SumFunction([i \in Investors |-> IF IsOpen(T[i]) THEN T[i].amount[c] ELSE 0])
Holders(T) == {i \in Investors : T[i] # NoTicket}

\* The two payment tokens.
LEMMA CurrencyFacts == "ETH" \in Currencies /\ "EUR" \in Currencies /\ Currencies = {"ETH", "EUR"}
BY DEF Currencies

\* The parts of a ticket.
LEMMA TicketTypes ==
    ASSUME NEW t \in Tickets
    PROVE  /\ t.equivEurUlps \in Nat /\ t.rewardNmkUlps \in Nat /\ t.equityTokenAmount \in Nat
           /\ t.amount \in [Currencies -> Nat] /\ \A c \in Currencies : t.amount[c] \in Nat
           /\ t.usedLockedAccount \in BOOLEAN /\ t.settled \in BOOLEAN
           /\ t = [equivEurUlps |-> t.equivEurUlps, rewardNmkUlps |-> t.rewardNmkUlps,
                   equityTokenAmount |-> t.equityTokenAmount, amount |-> t.amount,
                   usedLockedAccount |-> t.usedLockedAccount, settled |-> t.settled]
BY DEF Tickets

\* The empty ticket is a ticket, and not an open one.
LEMMA NoTicketIs ==
    /\ NoTicket \in Tickets
    /\ NoTicket.equivEurUlps = 0 /\ NoTicket.rewardNmkUlps = 0 /\ NoTicket.equityTokenAmount = 0
    /\ \A c \in Currencies : NoTicket.amount[c] = 0
    /\ ~NoTicket.settled /\ ~NoTicket.usedLockedAccount /\ ~IsOpen(NoTicket)
BY DEF NoTicket, Tickets, IsOpen

\* The sums are natural numbers, and no open ticket has more than the sum.
LEMMA TicketSums ==
    ASSUME NEW T \in [Investors -> Tickets]
    PROVE  /\ TokensOf(T) \in Nat /\ EquivOf(T) \in Nat /\ OpenRewardsOf(T) \in Nat
           /\ OpenTokensOf(T) \in Nat
           /\ \A c \in Currencies : OpenAmountOf(T, c) \in Nat
           /\ \A i \in Investors : IsOpen(T[i]) =>
                 /\ T[i].rewardNmkUlps <= OpenRewardsOf(T)
                 /\ T[i].equityTokenAmount <= OpenTokensOf(T)
                 /\ \A c \in Currencies : T[i].amount[c] <= OpenAmountOf(T, c)
<1> DEFINE tokens == [i \in Investors |-> T[i].equityTokenAmount]
           equivs == [i \in Investors |-> T[i].equivEurUlps]
           rewards == [i \in Investors |-> IF IsOpen(T[i]) THEN T[i].rewardNmkUlps ELSE 0]
           openTokens == [i \in Investors |-> IF IsOpen(T[i]) THEN T[i].equityTokenAmount ELSE 0]
           amounts(c) == [i \in Investors |-> IF IsOpen(T[i]) THEN T[i].amount[c] ELSE 0]
<1>1. /\ tokens \in [Investors -> Nat] /\ equivs \in [Investors -> Nat]
      /\ rewards \in [Investors -> Nat] /\ openTokens \in [Investors -> Nat]
  BY TicketTypes
<1>2. \A c \in Currencies : amounts(c) \in [Investors -> Nat]
  BY TicketTypes
<1>3. IsFiniteSet(Investors)
  BY LockAssumption
<1>4. /\ TokensOf(T) = SumFunction(tokens) /\ EquivOf(T) = SumFunction(equivs)
      /\ OpenRewardsOf(T) = SumFunction(rewards) /\ OpenTokensOf(T) = SumFunction(openTokens)
      /\ \A c \in Currencies : OpenAmountOf(T, c) = SumFunction(amounts(c))
  BY DEF TokensOf, EquivOf, OpenRewardsOf, OpenTokensOf, OpenAmountOf
<1>5. \A i \in Investors : IsOpen(T[i]) =>
        /\ rewards[i] = T[i].rewardNmkUlps /\ openTokens[i] = T[i].equityTokenAmount
        /\ \A c \in Currencies : amounts(c)[i] = T[i].amount[c]
  OBVIOUS
<1> HIDE DEF tokens, equivs, rewards, openTokens, amounts
<1>6. /\ TokensOf(T) \in Nat /\ EquivOf(T) \in Nat
      /\ OpenRewardsOf(T) \in Nat /\ \A i \in Investors : rewards[i] <= OpenRewardsOf(T)
      /\ OpenTokensOf(T) \in Nat /\ \A i \in Investors : openTokens[i] <= OpenTokensOf(T)
  BY <1>1, <1>3, <1>4, SumIsNatural
<1>7. \A c \in Currencies : /\ OpenAmountOf(T, c) \in Nat
                            /\ \A i \in Investors : amounts(c)[i] <= OpenAmountOf(T, c)
  BY <1>2, <1>3, <1>4, SumIsNatural
<1> QED
  BY <1>5, <1>6, <1>7

\* A changed ticket changes every sum by its own part.
LEMMA TicketChange ==
    ASSUME NEW T \in [Investors -> Tickets], NEW U \in [Investors -> Tickets],
           NEW i \in Investors, \A j \in Investors \ {i} : U[j] = T[j]
    PROVE  /\ TokensOf(U) = TokensOf(T) - T[i].equityTokenAmount + U[i].equityTokenAmount
           /\ EquivOf(U) = EquivOf(T) - T[i].equivEurUlps + U[i].equivEurUlps
           /\ OpenRewardsOf(U) = OpenRewardsOf(T) - (IF IsOpen(T[i]) THEN T[i].rewardNmkUlps ELSE 0)
                                                  + (IF IsOpen(U[i]) THEN U[i].rewardNmkUlps ELSE 0)
           /\ OpenTokensOf(U) = OpenTokensOf(T)
                                   - (IF IsOpen(T[i]) THEN T[i].equityTokenAmount ELSE 0)
                                   + (IF IsOpen(U[i]) THEN U[i].equityTokenAmount ELSE 0)
           /\ \A c \in Currencies :
                 OpenAmountOf(U, c) = OpenAmountOf(T, c)
                                         - (IF IsOpen(T[i]) THEN T[i].amount[c] ELSE 0)
                                         + (IF IsOpen(U[i]) THEN U[i].amount[c] ELSE 0)
<1> DEFINE tokens(X) == [j \in Investors |-> X[j].equityTokenAmount]
           equivs(X) == [j \in Investors |-> X[j].equivEurUlps]
           rewards(X) == [j \in Investors |-> IF IsOpen(X[j]) THEN X[j].rewardNmkUlps ELSE 0]
           openTokens(X) == [j \in Investors |-> IF IsOpen(X[j]) THEN X[j].equityTokenAmount ELSE 0]
           amounts(X, c) == [j \in Investors |-> IF IsOpen(X[j]) THEN X[j].amount[c] ELSE 0]
<1>f. IsFiniteSet(Investors)
  BY LockAssumption
<1>1. TokensOf(U) = TokensOf(T) - T[i].equityTokenAmount + U[i].equityTokenAmount
  <2>1. /\ tokens(T) \in [Investors -> Int] /\ tokens(U) \in [Investors -> Int]
        /\ \A j \in Investors \ {i} : tokens(U)[j] = tokens(T)[j]
        /\ tokens(T)[i] = T[i].equityTokenAmount /\ tokens(U)[i] = U[i].equityTokenAmount
    BY TicketTypes
  <2>2. TokensOf(U) = SumFunction(tokens(U)) /\ TokensOf(T) = SumFunction(tokens(T))
    BY DEF TokensOf
  <2> HIDE DEF tokens
  <2> QED
    BY <1>f, <2>1, <2>2, SumOfChange
<1>2. EquivOf(U) = EquivOf(T) - T[i].equivEurUlps + U[i].equivEurUlps
  <2>1. /\ equivs(T) \in [Investors -> Int] /\ equivs(U) \in [Investors -> Int]
        /\ \A j \in Investors \ {i} : equivs(U)[j] = equivs(T)[j]
        /\ equivs(T)[i] = T[i].equivEurUlps /\ equivs(U)[i] = U[i].equivEurUlps
    BY TicketTypes
  <2>2. EquivOf(U) = SumFunction(equivs(U)) /\ EquivOf(T) = SumFunction(equivs(T))
    BY DEF EquivOf
  <2> HIDE DEF equivs
  <2> QED
    BY <1>f, <2>1, <2>2, SumOfChange
<1>3. OpenRewardsOf(U) = OpenRewardsOf(T) - (IF IsOpen(T[i]) THEN T[i].rewardNmkUlps ELSE 0)
                                          + (IF IsOpen(U[i]) THEN U[i].rewardNmkUlps ELSE 0)
  <2>1. /\ rewards(T) \in [Investors -> Int] /\ rewards(U) \in [Investors -> Int]
        /\ \A j \in Investors \ {i} : rewards(U)[j] = rewards(T)[j]
        /\ rewards(T)[i] = (IF IsOpen(T[i]) THEN T[i].rewardNmkUlps ELSE 0)
        /\ rewards(U)[i] = (IF IsOpen(U[i]) THEN U[i].rewardNmkUlps ELSE 0)
    BY TicketTypes
  <2>2. OpenRewardsOf(U) = SumFunction(rewards(U)) /\ OpenRewardsOf(T) = SumFunction(rewards(T))
    BY DEF OpenRewardsOf
  <2> HIDE DEF rewards
  <2> QED
    BY <1>f, <2>1, <2>2, SumOfChange
<1>4. OpenTokensOf(U) = OpenTokensOf(T) - (IF IsOpen(T[i]) THEN T[i].equityTokenAmount ELSE 0)
                                        + (IF IsOpen(U[i]) THEN U[i].equityTokenAmount ELSE 0)
  <2>1. /\ openTokens(T) \in [Investors -> Int] /\ openTokens(U) \in [Investors -> Int]
        /\ \A j \in Investors \ {i} : openTokens(U)[j] = openTokens(T)[j]
        /\ openTokens(T)[i] = (IF IsOpen(T[i]) THEN T[i].equityTokenAmount ELSE 0)
        /\ openTokens(U)[i] = (IF IsOpen(U[i]) THEN U[i].equityTokenAmount ELSE 0)
    BY TicketTypes
  <2>2. OpenTokensOf(U) = SumFunction(openTokens(U)) /\ OpenTokensOf(T) = SumFunction(openTokens(T))
    BY DEF OpenTokensOf
  <2> HIDE DEF openTokens
  <2> QED
    BY <1>f, <2>1, <2>2, SumOfChange
<1>5. ASSUME NEW c \in Currencies
      PROVE  OpenAmountOf(U, c) = OpenAmountOf(T, c) - (IF IsOpen(T[i]) THEN T[i].amount[c] ELSE 0)
                                                     + (IF IsOpen(U[i]) THEN U[i].amount[c] ELSE 0)
  <2>1. /\ amounts(T, c) \in [Investors -> Int] /\ amounts(U, c) \in [Investors -> Int]
        /\ \A j \in Investors \ {i} : amounts(U, c)[j] = amounts(T, c)[j]
        /\ amounts(T, c)[i] = (IF IsOpen(T[i]) THEN T[i].amount[c] ELSE 0)
        /\ amounts(U, c)[i] = (IF IsOpen(U[i]) THEN U[i].amount[c] ELSE 0)
    BY TicketTypes
  <2>2. OpenAmountOf(U, c) = SumFunction(amounts(U, c)) /\ OpenAmountOf(T, c) = SumFunction(amounts(T, c))
    BY DEF OpenAmountOf
  <2> HIDE DEF amounts
  <2> QED
    BY <1>f, <2>1, <2>2, SumOfChange
<1> QED
  BY <1>1, <1>2, <1>3, <1>4, <1>5

\* Before anybody settled, the open tickets are all tickets.
LEMMA AllAreOpen ==
    ASSUME NEW T \in [Investors -> Tickets],
           \A i \in Investors : ~T[i].settled /\ (T[i].equivEurUlps = 0 => T[i] = NoTicket)
    PROVE  OpenTokensOf(T) = TokensOf(T)
<1> DEFINE tokens == [i \in Investors |-> T[i].equityTokenAmount]
           openTokens == [i \in Investors |-> IF IsOpen(T[i]) THEN T[i].equityTokenAmount ELSE 0]
<1>1. ASSUME NEW i \in Investors PROVE openTokens[i] = tokens[i]
  <2>1. CASE T[i].equivEurUlps = 0
    BY <2>1, NoTicketIs DEF IsOpen
  <2>2. CASE T[i].equivEurUlps # 0
    BY <2>2, TicketTypes DEF IsOpen
  <2> QED
    BY <2>1, <2>2
<1>2. openTokens = tokens
  BY <1>1
<1>3. OpenTokensOf(T) = SumFunction(openTokens) /\ TokensOf(T) = SumFunction(tokens)
  BY DEF OpenTokensOf, TokensOf
<1> QED
  BY <1>2, <1>3

\* A new investor is counted once.
LEMMA HolderCounted ==
    ASSUME NEW T \in [Investors -> Tickets], NEW U \in [Investors -> Tickets],
           NEW i \in Investors, \A j \in Investors \ {i} : U[j] = T[j], U[i] # NoTicket
    PROVE  /\ Cardinality(Holders(T)) \in Nat
           /\ Cardinality(Holders(U)) = IF T[i] = NoTicket THEN Cardinality(Holders(T)) + 1
                                        ELSE Cardinality(Holders(T))
<1>1. IsFiniteSet(Holders(T)) /\ Cardinality(Holders(T)) \in Nat
  <2>1. Holders(T) \subseteq Investors /\ IsFiniteSet(Investors)
    BY LockAssumption DEF Holders
  <2> QED
    BY <2>1, FS_Subset, FS_CardinalityType
<1>2. Holders(U) = Holders(T) \cup {i}
  BY DEF Holders
<1>3. i \in Holders(T) <=> T[i] # NoTicket
  BY DEF Holders
<1> QED
  BY <1>1, <1>2, <1>3, FS_AddElement

\* A settled ticket is still one.
LEMMA HolderKept ==
    ASSUME NEW T \in [Investors -> Tickets], NEW U \in [Investors -> Tickets],
           NEW i \in Investors, \A j \in Investors \ {i} : U[j] = T[j],
           U[i] # NoTicket, T[i] # NoTicket
    PROVE  Holders(U) = Holders(T)
BY DEF Holders

\* Nobody has a ticket of a new offering.
LEMMA SumsOfNoTickets ==
    ASSUME NEW T, T = [i \in Investors |-> NoTicket]
    PROVE  /\ T \in [Investors -> Tickets]
           /\ TokensOf(T) = 0 /\ EquivOf(T) = 0 /\ OpenRewardsOf(T) = 0 /\ OpenTokensOf(T) = 0
           /\ \A c \in Currencies : OpenAmountOf(T, c) = 0
           /\ Cardinality(Holders(T)) = 0
<1>1. T \in [Investors -> Tickets] /\ \A i \in Investors : T[i] = NoTicket
  BY NoTicketIs
<1>2. Holders(T) = {}
  BY <1>1 DEF Holders
<1>3. ASSUME NEW f, f = [i \in Investors |-> 0] PROVE SumFunction(f) = 0
  <2>1. f \in [Investors -> Int] /\ \A i \in Investors : f[i] = 0
    BY <1>3
  <2> QED
    BY <2>1, LockAssumption, SumOfZeros
<1>4. [i \in Investors |-> T[i].equityTokenAmount] = [i \in Investors |-> 0]
  BY <1>1, NoTicketIs
<1>5. [i \in Investors |-> T[i].equivEurUlps] = [i \in Investors |-> 0]
  BY <1>1, NoTicketIs
<1>6. [i \in Investors |-> IF IsOpen(T[i]) THEN T[i].rewardNmkUlps ELSE 0] = [i \in Investors |-> 0]
  BY <1>1, NoTicketIs
<1>7. [i \in Investors |-> IF IsOpen(T[i]) THEN T[i].equityTokenAmount ELSE 0] = [i \in Investors |-> 0]
  BY <1>1, NoTicketIs
<1>8. \A c \in Currencies : [i \in Investors |-> IF IsOpen(T[i]) THEN T[i].amount[c] ELSE 0]
                               = [i \in Investors |-> 0]
  BY <1>1, NoTicketIs
<1> QED
  BY <1>1, <1>2, <1>3, <1>4, <1>5, <1>6, <1>7, <1>8, FS_EmptySet
     DEF TokensOf, EquivOf, OpenRewardsOf, OpenTokensOf, OpenAmountOf

-----------------------------------------------------------------------------
(***************************************************************************)
(* The invariant of a transaction: what holds of its world w while the     *)
(* offering is in phase s.                                                 *)
(***************************************************************************)
Typed(w) ==
    /\ IsWorld(w)
    /\ w.eto \in Offerings /\ MachineOK(w.eto.machine)
    /\ w.bal \in [Currencies -> [Investors \cup Parties -> Nat]]
    /\ w.neu \in [Investors \cup {"eto", "operator"} -> Nat]
    /\ w.equity \in [Investors \cup {"eto", "portfolio"} -> Nat]
    /\ w.locks \in [Currencies -> Locks]
    /\ \A c \in Currencies : SoundLock(w.locks[c]) /\ w.bal[c]["lock"] = w.locks[c].total

\* A ticket without money is none, and nothing is settled before Claim.
TicketsOK(e, s) ==
    \A i \in Investors : /\ e.tickets[i].equivEurUlps = 0 => e.tickets[i] = NoTicket
                         /\ e.tickets[i].settled => s >= 4

\* The counters are the sums, within the caps.
TotalsOK(e, s) ==
    /\ e.totalTokenAmount = TokensOf(e.tickets)
    /\ e.totalEquivEurUlps = EquivOf(e.tickets)
    /\ e.totalInvestors = Cardinality(Holders(e.tickets))
    /\ e.totalTokenAmount <= MAX_AVAILABLE_TOKENS
    /\ MAX_INVESTMENT_AMOUNT_EUR_ULPS > 0 => e.totalEquivEurUlps <= MAX_INVESTMENT_AMOUNT_EUR_ULPS
    /\ e.totalFixedSlotsTokenAmount <= e.totalTokenAmount
    /\ s = 0 => e.totalTokenAmount = 0
    /\ s = 1 => e.totalTokenAmount - e.totalFixedSlotsTokenAmount
                   <= MAX_AVAILABLE_TOKENS_IN_WHITELIST

\* Shares are known from Signing on, whole and within the maximum.
SharesOK(e, s) ==
    /\ s <= 2 => e.newShares = 0 /\ e.tokenParticipationFeeAmount = 0
    /\ e.newShares > 0 => /\ IssuedTokens(e) = e.newShares * EQUITY_TOKENS_PER_SHARE
                          /\ IssuedTokens(e) <= MAX_NUMBER_OF_TOKENS

\* what the nominee holds of the nominal value
Held(b, c) == IF c = "EUR" THEN b[c]["nominee"] ELSE 0

\* The payment tokens of the offering.
MoneyOK(e, b, s) ==
    \A c \in Currencies :
       /\ s <= 2 => /\ Held(b, c) = 0
                    /\ b[c]["eto"] = OpenAmountOf(e.tickets, c)
                    /\ e.additionalContribution[c] = OpenAmountOf(e.tickets, c)
       /\ s = 3 => /\ b[c]["eto"] = e.additionalContribution[c] + e.platformFee[c]
                   /\ b[c]["eto"] = OpenAmountOf(e.tickets, c) - Held(b, c)
       /\ s = 4 => b[c]["eto"] = e.platformFee[c]
       /\ s = 5 => b[c]["eto"] = 0
       /\ s = 6 => b[c]["eto"] = OpenAmountOf(e.tickets, c) - Held(b, c)

\* The Neumarks of the offering cover the rewards.
RewardsOK(e, n, s) ==
    /\ s <= 3 => n["eto"] - PlatformNmk(n["eto"]) >= OpenRewardsOf(e.tickets)
    /\ s \in {4, 5} => n["eto"] >= OpenRewardsOf(e.tickets)

\* The equity tokens of the offering are those of the open tickets.
EquityOK(e, q, s) ==
    q["eto"] = CASE s = 4 -> OpenTokensOf(e.tickets) + e.tokenParticipationFeeAmount
                 [] s = 5 -> OpenTokensOf(e.tickets)
                 [] OTHER -> 0

\* The agreement is confirmed from Signing on, and then as signed.
AgreementOK(e, s) == Confirmed(e) => s >= 3 /\ e.nomineeSignedUrl = e.signedUrl

\* What is pending in a wallet is in an open ticket that knows it.
PendingOK(T, l) ==
    \A i \in Investors, c \in Currencies :
       l[c].commitments["eto"][i].balance > 0 =>
          /\ IsOpen(T[i]) /\ T[i].usedLockedAccount
          /\ l[c].commitments["eto"][i].balance <= T[i].amount[c]

Inv(w, s) ==
    /\ Typed(w)
    /\ TicketsOK(w.eto, s) /\ TotalsOK(w.eto, s) /\ SharesOK(w.eto, s)
    /\ MoneyOK(w.eto, w.bal, s) /\ RewardsOK(w.eto, w.neu, s) /\ EquityOK(w.eto, w.equity, s)
    /\ AgreementOK(w.eto, s) /\ PendingOK(w.eto.tickets, w.locks)

\* The parts of an offering that payments leave alone.
SameBook(e, f) ==
    /\ f.machine = e.machine /\ f.tickets = e.tickets /\ f.agreements = e.agreements
    /\ f.totalEquivEurUlps = e.totalEquivEurUlps /\ f.totalTokenAmount = e.totalTokenAmount
    /\ f.totalFixedSlotsTokenAmount = e.totalFixedSlotsTokenAmount
    /\ f.totalInvestors = e.totalInvestors
    /\ f.signedUrl = e.signedUrl /\ f.nomineeSignedUrl = e.nomineeSignedUrl

\* v follows from w by payments of the offering to others than its investors.
PaidOut(w, v) ==
    /\ SameBook(w.eto, v.eto) /\ v.locks = w.locks
    /\ \A c \in Currencies, i \in Investors : v.bal[c][i] = w.bal[c][i]

-----------------------------------------------------------------------------

\* The fields of an offering have their types, ...
LEMMA OfferingTypes ==
    ASSUME NEW e \in Offerings
    PROVE  /\ IsOffering(e)
           /\ e.machine \in SM!Machines /\ e.tickets \in [Investors -> Tickets]
           /\ e.agreements \in Nat /\ e.totalEquivEurUlps \in Nat /\ e.totalTokenAmount \in Nat
           /\ e.totalFixedSlotsTokenAmount \in Nat /\ e.totalInvestors \in Nat
           /\ e.additionalContribution \in [Currencies -> Nat]
           /\ e.platformFee \in [Currencies -> Nat] /\ e.newShares \in Nat
           /\ e.tokenParticipationFeeAmount \in Nat /\ e.signedUrl \in Urls \cup {NoUrl}
           /\ e.nomineeSignedUrl \in Urls \cup {NoUrl, "unconfirmed"}
BY DEF Offerings, IsOffering

\* ... and conversely.
LEMMA OfferingMade ==
    ASSUME NEW e, IsOffering(e),
           e.machine \in SM!Machines, e.tickets \in [Investors -> Tickets],
           e.agreements \in Nat, e.totalEquivEurUlps \in Nat, e.totalTokenAmount \in Nat,
           e.totalFixedSlotsTokenAmount \in Nat, e.totalInvestors \in Nat,
           e.additionalContribution \in [Currencies -> Nat],
           e.platformFee \in [Currencies -> Nat], e.newShares \in Nat,
           e.tokenParticipationFeeAmount \in Nat, e.signedUrl \in Urls \cup {NoUrl},
           e.nomineeSignedUrl \in Urls \cup {NoUrl, "unconfirmed"}
    PROVE  e \in Offerings
BY DEF Offerings, IsOffering

\* A transfer between two accounts.
LEMMA MovedIs ==
    ASSUME NEW P, NEW b \in [P -> Nat], NEW from \in P, NEW to \in P, from # to,
           NEW amount \in Nat, b[from] >= amount, NEW r, r = Moved(b, from, to, amount)
    PROVE  /\ r \in [P -> Nat]
           /\ r[from] = b[from] - amount /\ r[to] = b[to] + amount
           /\ \A p \in P \ {from, to} : r[p] = b[p]
BY DEF Moved

\* The accounts are different ones.
LEMMA PartyFacts ==
    /\ {"eto", "lock", "nominee", "company", "disbursal"} \subseteq Investors \cup Parties
    /\ "eto" \notin Investors /\ "lock" \notin Investors /\ "nominee" \notin Investors
    /\ "company" \notin Investors /\ "disbursal" \notin Investors
    /\ "operator" \notin Investors /\ "portfolio" \notin Investors
    /\ Commitments = {"eto"} /\ "eto" \in Commitments
BY CommitmentAssumption DEF Parties

\* A payment to somebody other than an investor and the wallet.
LEMMA PaymentIs ==
    ASSUME NEW w, Typed(w), NEW c \in Currencies, 
           NEW to \in Investors \cup Parties, to \notin Investors, to # "eto", to # "lock",
           NEW amount \in Nat, NEW v, v = Pay(w, c, to, amount), v.ok
    PROVE  /\ w.ok /\ IsWorld(v) /\ v.eto = w.eto /\ v.neu = w.neu /\ v.equity = w.equity
           /\ v.locks = w.locks
           /\ v.bal \in [Currencies -> [Investors \cup Parties -> Nat]]
           /\ v.bal[c]["eto"] = w.bal[c]["eto"] - amount
           /\ v.bal[c][to] = w.bal[c][to] + amount
           /\ \A d \in Currencies, p \in Investors \cup Parties :
                 (d # c \/ p \notin {"eto", to}) => v.bal[d][p] = w.bal[d][p]
           /\ Typed(v) /\ PaidOut(w, v)
<1> DEFINE b == w.bal[c]
           r == Moved(b, "eto", to, amount)
<1>1. /\ IsWorld(w) /\ w.bal \in [Currencies -> [Investors \cup Parties -> Nat]]
      /\ b \in [Investors \cup Parties -> Nat]
  BY DEF Typed
<1>2. /\ IsWorld(v) /\ v.eto = w.eto /\ v.neu = w.neu /\ v.equity = w.equity /\ v.locks = w.locks
      /\ v.bal = [w.bal EXCEPT ![c] = r] /\ w.ok /\ b["eto"] >= amount
  BY <1>1, PayIs
<1>3. /\ r \in [Investors \cup Parties -> Nat]
      /\ r["eto"] = b["eto"] - amount /\ r[to] = b[to] + amount
      /\ \A p \in (Investors \cup Parties) \ {"eto", to} : r[p] = b[p]
  <2>1. "eto" \in Investors \cup Parties /\ to \in Investors \cup Parties /\ "eto" # to
    BY PartyFacts
  <2>2. r = Moved(b, "eto", to, amount)
    OBVIOUS
  <2> HIDE DEF b, r
  <2>3. amount \in Nat /\ b["eto"] >= amount /\ b \in [Investors \cup Parties -> Nat]
    BY <1>1, <1>2
  <2> QED
    BY ONLY <2>1, <2>2, <2>3, MovedIs
<1> HIDE DEF r
<1>4. /\ v.bal \in [Currencies -> [Investors \cup Parties -> Nat]]
      /\ v.bal[c] = r /\ \A d \in Currencies \ {c} : v.bal[d] = w.bal[d]
  BY <1>1, <1>2, <1>3
<1>5. \A d \in Currencies, p \in Investors \cup Parties :
         (d # c \/ p \notin {"eto", to}) => v.bal[d][p] = w.bal[d][p]
  BY <1>3, <1>4
<1>6. \A d \in Currencies : v.bal[d]["lock"] = w.bal[d]["lock"]
  BY <1>5, PartyFacts
<1>7. \A d \in Currencies, i \in Investors : v.bal[d][i] = w.bal[d][i]
  BY <1>5, PartyFacts
<1>8. Typed(v)
  BY <1>2, <1>4, <1>6 DEF Typed
<1> QED
  BY <1>2, <1>3, <1>4, <1>5, <1>7, <1>8 DEF PaidOut, SameBook

\* The platform's fee is a part of what it is taken from.
LEMMA FeeIsPart ==
    ASSUME NEW x \in Nat
    PROVE  CalculatePlatformFee(x) \in 0 .. x
<1>1. Q \in Nat \ {0} /\ Q % 100 = 0
  BY QAssumption
<1>2. PLATFORM_FEE_FRACTION \in 0 .. Q
  <2>1. PLATFORM_FEE_FRACTION = 3 * (Q \div 100)
    BY DEF PLATFORM_FEE_FRACTION
  <2>2. Q \div 100 \in Nat /\ 100 * (Q \div 100) <= Q
    BY <1>1, QuotientFacts
  <2> QED
    BY <1>1, <2>1, <2>2
<1>3. Proportion(x, PLATFORM_FEE_FRACTION, Q) \in 0 .. x
  BY <1>1, <1>2, ShareIsPart
<1> QED
  BY <1>3 DEF CalculatePlatformFee, DecimalFraction

-----------------------------------------------------------------------------
(***************************************************************************)
(* The effects of entering a state.                                        *)
(***************************************************************************)
SigningTokenFee(e) == TokenParticipationFee(e.totalTokenAmount)
SigningIssued(e) == e.totalTokenAmount + SigningTokenFee(e)
SigningShares(e) == SigningIssued(e) \div EQUITY_TOKENS_PER_SHARE
SigningFee(e) == [c \in Currencies |-> CalculatePlatformFee(e.additionalContribution[c])]
SigningNet(e) == [c \in Currencies |-> e.additionalContribution[c] - SigningFee(e)[c]]
SigningCapital(e) == Least(SHARE_NOMINAL_VALUE_EUR_ULPS * SigningShares(e), SigningNet(e)["EUR"])
SigningRest(e) == [SigningNet(e) EXCEPT !["EUR"] = @ - SigningCapital(e)]

\* A requirement changes nothing else.
LEMMA RequireIs ==
    ASSUME NEW w, IsWorld(w), NEW condition \in BOOLEAN, NEW v, v = Require(w, condition)
    PROVE  /\ IsWorld(v) /\ v.eto = w.eto /\ v.bal = w.bal /\ v.neu = w.neu
           /\ v.equity = w.equity /\ v.locks = w.locks /\ (v.ok <=> w.ok /\ condition)
<1>1. v = AWorld(w.eto, w.bal, w.neu, w.equity, w.locks, w.ok /\ condition)
  BY DEF Require, IsWorld, AWorld
<1>2. /\ IsWorld(v) /\ v.eto = w.eto /\ v.bal = w.bal /\ v.neu = w.neu
      /\ v.equity = w.equity /\ v.locks = w.locks
  BY <1>1 DEF IsWorld, AWorld
<1>3. v.ok = (w.ok /\ condition)
  BY <1>1 DEF AWorld
<1> QED
  BY <1>2, <1>3

\* What onSigningTransition does to the record.
LEMMA OnSigningIs ==
    ASSUME NEW w, IsWorld(w), IsOffering(w.eto), NEW v, v = OnSigningTransition(w),
           NEW u, u = Pay(w, "EUR", "nominee", SigningCapital(w.eto))
    PROVE  /\ IsWorld(v) /\ IsOffering(v.eto) /\ SameBook(w.eto, v.eto)
           /\ v.eto.newShares = SigningShares(w.eto)
           /\ v.eto.platformFee = SigningFee(w.eto)
           /\ v.eto.tokenParticipationFeeAmount = SigningTokenFee(w.eto)
           /\ v.eto.additionalContribution = SigningRest(w.eto)
           /\ v.bal = u.bal /\ v.neu = w.neu /\ v.equity = w.equity /\ v.locks = w.locks
           /\ v.ok => u.ok
<1> DEFINE e == w.eto
           r == Require(w, SigningIssued(e) % EQUITY_TOKENS_PER_SHARE = 0)
           p == Pay(r, "EUR", "nominee", SigningCapital(e))
<1>1. v = [p EXCEPT !.eto.newShares = SigningShares(e),
                    !.eto.platformFee = SigningFee(e),
                    !.eto.tokenParticipationFeeAmount = SigningTokenFee(e),
                    !.eto.additionalContribution = SigningRest(e)]
  BY Zenon DEF OnSigningTransition, NetContribution, CapitalIncrease, SigningTokenFee, SigningIssued,
         SigningShares, SigningFee, SigningNet, SigningCapital, SigningRest
<1>2. /\ IsWorld(r) /\ r.eto = w.eto /\ r.bal = w.bal /\ r.neu = w.neu /\ r.equity = w.equity
      /\ r.locks = w.locks /\ (r.ok => w.ok)
  <2>1. r = AWorld(w.eto, w.bal, w.neu, w.equity, w.locks,
                   w.ok /\ SigningIssued(e) % EQUITY_TOKENS_PER_SHARE = 0)
    BY DEF Require, IsWorld, AWorld
  <2> HIDE DEF r
  <2>2. /\ IsWorld(r) /\ r.eto = w.eto /\ r.bal = w.bal /\ r.neu = w.neu
        /\ r.equity = w.equity /\ r.locks = w.locks
    BY <2>1 DEF IsWorld, AWorld
  <2>3. r.ok <=> (w.ok /\ SigningIssued(e) % EQUITY_TOKENS_PER_SHARE = 0)
    BY <2>1 DEF AWorld
  <2> QED
    BY <2>2, <2>3
<1> HIDE DEF r
<1>3. /\ IsWorld(p) /\ p.eto = r.eto /\ p.neu = r.neu /\ p.equity = r.equity /\ p.locks = r.locks
      /\ p.bal = [r.bal EXCEPT !["EUR"] = Moved(r.bal["EUR"], "eto", "nominee", SigningCapital(e))]
      /\ p.ok <=> (r.ok /\ MayReceive("EUR", "nominee") /\ r.bal["EUR"]["eto"] >= SigningCapital(e))
  BY <1>2, PayIs
<1>3a. /\ u.bal = [w.bal EXCEPT !["EUR"] = Moved(w.bal["EUR"], "eto", "nominee", SigningCapital(e))]
       /\ u.ok <=> (w.ok /\ MayReceive("EUR", "nominee") /\ w.bal["EUR"]["eto"] >= SigningCapital(e))
  <2>1. u.bal = [w.bal EXCEPT !["EUR"] = Moved(w.bal["EUR"], "eto", "nominee", SigningCapital(e))]
    BY PayIs
  <2>2. u.ok <=> (w.ok /\ MayReceive("EUR", "nominee") /\ w.bal["EUR"]["eto"] >= SigningCapital(e))
    BY PayIs
  <2> QED
    BY <2>1, <2>2
<1>p. p = AWorld(p.eto, p.bal, p.neu, p.equity, p.locks, p.ok)
  BY <1>3 DEF IsWorld
<1>q. p.ok => u.ok
  BY <1>2, <1>3, <1>3a
<1>b. p.bal = u.bal
  BY <1>2, <1>3, <1>3a
<1> HIDE DEF p, e
<1>v. v = AWorld([p.eto EXCEPT !.newShares = SigningShares(e), !.platformFee = SigningFee(e),
                           !.tokenParticipationFeeAmount = SigningTokenFee(e),
                           !.additionalContribution = SigningRest(e)],
                 p.bal, p.neu, p.equity, p.locks, p.ok)
  BY ONLY <1>1, <1>p DEF AWorld
<1>4. /\ IsWorld(v) /\ v.bal = p.bal /\ v.neu = p.neu /\ v.equity = p.equity /\ v.locks = p.locks
      /\ v.ok = p.ok
      /\ v.eto = [e EXCEPT !.newShares = SigningShares(e), !.platformFee = SigningFee(e),
                           !.tokenParticipationFeeAmount = SigningTokenFee(e),
                           !.additionalContribution = SigningRest(e)]
  <2>1. p.eto = e
    BY <1>2, <1>3 DEF e
  <2> QED
    BY ONLY <2>1, <1>v DEF IsWorld, AWorld
<1>5. /\ IsOffering(v.eto) /\ SameBook(e, v.eto)
      /\ v.eto.newShares = SigningShares(e) /\ v.eto.platformFee = SigningFee(e)
      /\ v.eto.tokenParticipationFeeAmount = SigningTokenFee(e)
      /\ v.eto.additionalContribution = SigningRest(e)
  BY <1>4 DEF IsOffering, SameBook, e
<1> QED
  BY <1>2, <1>3, <1>q, <1>b, <1>4, <1>5 DEF e

\* What the distribution of Neumarks does to the record.
LEMMA DistributeNeuIs ==
    ASSUME NEW w, IsWorld(w), NEW to, NEW amount, NEW v, v = DistributeNeu(w, to, amount)
    PROVE  /\ IsWorld(v) /\ v.eto = w.eto /\ v.bal = w.bal
           /\ v.neu = Moved(w.neu, "eto", to, amount)
           /\ v.equity = w.equity /\ v.locks = w.locks
           /\ v.ok => (w.ok /\ w.neu["eto"] >= amount)
<1>1. v = AWorld(w.eto, w.bal, Moved(w.neu, "eto", to, amount), w.equity, w.locks,
                 w.ok /\ w.neu["eto"] >= amount)
  <2>1. Require(w, w.neu["eto"] >= amount)
           = AWorld(w.eto, w.bal, w.neu, w.equity, w.locks, w.ok /\ w.neu["eto"] >= amount)
    BY DEF Require, IsWorld, AWorld
  <2>2. v = [Require(w, w.neu["eto"] >= amount) EXCEPT !.neu = Moved(@, "eto", to, amount)]
    BY DEF DistributeNeu
  <2> QED
    BY <2>1, <2>2 DEF AWorld
<1>2. /\ IsWorld(v) /\ v.eto = w.eto /\ v.bal = w.bal
      /\ v.neu = Moved(w.neu, "eto", to, amount)
      /\ v.equity = w.equity /\ v.locks = w.locks
  BY <1>1 DEF IsWorld, AWorld
<1>3. v.ok = (w.ok /\ w.neu["eto"] >= amount)
  BY <1>1 DEF AWorld
<1>4. v.ok => (w.ok /\ w.neu["eto"] >= amount)
  BY <1>3
<1> QED
  BY <1>2, <1>4

\* ... and that of equity tokens.
LEMMA DistributeTokensIs ==
    ASSUME NEW w, IsWorld(w), NEW to, NEW amount, NEW v, v = DistributeTokens(w, to, amount)
    PROVE  /\ IsWorld(v) /\ v.eto = w.eto /\ v.bal = w.bal /\ v.neu = w.neu
           /\ v.equity = Moved(w.equity, "eto", to, amount)
           /\ v.locks = w.locks
           /\ v.ok => (w.ok /\ w.equity["eto"] >= amount)
<1>1. v = AWorld(w.eto, w.bal, w.neu, Moved(w.equity, "eto", to, amount), w.locks,
                 w.ok /\ w.equity["eto"] >= amount)
  <2>1. Require(w, w.equity["eto"] >= amount)
           = AWorld(w.eto, w.bal, w.neu, w.equity, w.locks, w.ok /\ w.equity["eto"] >= amount)
    BY DEF Require, IsWorld, AWorld
  <2>2. v = [Require(w, w.equity["eto"] >= amount) EXCEPT !.equity = Moved(@, "eto", to, amount)]
    BY DEF DistributeTokens
  <2> QED
    BY <2>1, <2>2 DEF AWorld
<1>2. /\ IsWorld(v) /\ v.eto = w.eto /\ v.bal = w.bal /\ v.neu = w.neu
      /\ v.equity = Moved(w.equity, "eto", to, amount) /\ v.locks = w.locks
  BY <1>1 DEF IsWorld, AWorld
<1>3. v.ok = (w.ok /\ w.equity["eto"] >= amount)
  BY <1>1 DEF AWorld
<1>4. v.ok => (w.ok /\ w.equity["eto"] >= amount)
  BY <1>3
<1> QED
  BY <1>2, <1>4

\* Half of the Neumarks is the platform's.
LEMMA PlatformNmkIs ==
    ASSUME NEW n \in Nat
    PROVE  PlatformNmk(n) \in 0 .. n
BY DEF PlatformNmk, PLATFORM_NEUMARK_SHARE

\* A payment is as described, whether or not there is anything to pay.
LEMMA PaymentIfAnyIs ==
    ASSUME NEW w, Typed(w), NEW c \in Currencies,
           NEW to \in Investors \cup Parties, to \notin Investors, to # "eto", to # "lock",
           NEW amount \in Nat, NEW v, v = PayIfAny(w, c, to, amount), v.ok
    PROVE  /\ w.ok /\ IsWorld(v) /\ v.eto = w.eto /\ v.neu = w.neu /\ v.equity = w.equity
           /\ v.locks = w.locks
           /\ v.bal[c]["eto"] = w.bal[c]["eto"] - amount
           /\ \A d \in Currencies, p \in Investors \cup Parties :
                 (d # c \/ p \notin {"eto", to}) => v.bal[d][p] = w.bal[d][p]
           /\ Typed(v) /\ PaidOut(w, v)
<1>1. CASE amount > 0
  <2>1. v = Pay(w, c, to, amount)
    BY <1>1 DEF PayIfAny
  <2> QED
    BY <2>1, PaymentIs
<1>2. CASE ~ amount > 0
  <2>1. v = w /\ amount = 0
    BY <1>2 DEF PayIfAny
  <2>2. w.bal[c]["eto"] \in Nat /\ IsWorld(w)
    BY PartyFacts DEF Typed
  <2>3. PaidOut(w, w)
    BY DEF PaidOut, SameBook
  <2> QED
    BY <2>1, <2>2, <2>3
<1> QED
  BY <1>1, <1>2

\* Entering Refund burns the Neumarks.
LEMMA RefundEffect ==
    ASSUME NEW w, NEW s \in 0 .. 3, Inv(w, s), NEW v, v = OnRefundTransition(w)
    PROVE  Inv(v, 6) /\ PaidOut(w, v) /\ v.ok = w.ok
<1>1. Typed(w) /\ IsWorld(w) /\ w.neu \in [Investors \cup {"eto", "operator"} -> Nat]
  BY DEF Inv, Typed
<1>2. v = AWorld(w.eto, w.bal, [w.neu EXCEPT !["eto"] = 0], w.equity, w.locks, w.ok)
  BY <1>1 DEF OnRefundTransition, IsWorld, AWorld
<1>3. /\ IsWorld(v) /\ v.eto = w.eto /\ v.bal = w.bal /\ v.equity = w.equity /\ v.locks = w.locks
      /\ v.neu = [w.neu EXCEPT !["eto"] = 0] /\ v.ok = w.ok
  BY <1>2 DEF IsWorld, AWorld
<1>4. v.neu \in [Investors \cup {"eto", "operator"} -> Nat]
  BY <1>1, <1>3
<1>5. Typed(v)
  BY <1>1, <1>3, <1>4 DEF Typed
<1>6. w.eto.tickets \in [Investors -> Tickets] /\ \A c \in Currencies : OpenAmountOf(w.eto.tickets, c) \in Nat
  BY <1>1, OfferingTypes, TicketSums DEF Typed
<1>7. MoneyOK(v.eto, v.bal, 6)
  <2> SUFFICES ASSUME NEW c \in Currencies
               PROVE  w.bal[c]["eto"] = OpenAmountOf(w.eto.tickets, c) - Held(w.bal, c)
    BY <1>3 DEF MoneyOK
  <2>1. CASE s <= 2
    BY <2>1, <1>6 DEF Inv, MoneyOK
  <2>2. CASE s = 3
    BY <2>2, <1>6 DEF Inv, MoneyOK
  <2> QED
    BY <2>1, <2>2
<1>8. EquityOK(v.eto, v.equity, 6)
  BY <1>3 DEF Inv, EquityOK
<1>9. TicketsOK(v.eto, 6) /\ TotalsOK(v.eto, 6) /\ SharesOK(v.eto, 6) /\ AgreementOK(v.eto, 6)
  BY <1>3 DEF Inv, TicketsOK, TotalsOK, SharesOK, AgreementOK
<1>10. RewardsOK(v.eto, v.neu, 6) /\ PendingOK(v.eto.tickets, v.locks)
  BY <1>3 DEF Inv, RewardsOK, PendingOK
<1> QED
  BY <1>3, <1>5, <1>7, <1>8, <1>9, <1>10 DEF Inv, PaidOut, SameBook

\* What an offering computes when it enters Signing.
LEMMA SigningNumbers ==
    ASSUME NEW e \in Offerings, e.totalTokenAmount <= MAX_AVAILABLE_TOKENS
    PROVE  /\ SigningTokenFee(e) \in Nat
           /\ SigningIssued(e) = SigningShares(e) * EQUITY_TOKENS_PER_SHARE
           /\ SigningIssued(e) <= MAX_NUMBER_OF_TOKENS
           /\ SigningShares(e) \in Nat
           /\ SigningFee(e) \in [Currencies -> Nat] /\ SigningRest(e) \in [Currencies -> Nat]
           /\ SigningCapital(e) \in Nat
           /\ \A c \in Currencies :
                 SigningRest(e)[c] + SigningFee(e)[c]
                    = e.additionalContribution[c] - (IF c = "EUR" THEN SigningCapital(e) ELSE 0)
<1> DEFINE A == e.additionalContribution
           F == SigningFee(e)
           N == SigningNet(e)
           k == SigningCapital(e)
<1>1. A \in [Currencies -> Nat] /\ e.totalTokenAmount \in Nat
  BY OfferingTypes
<1>2. /\ SigningTokenFee(e) \in Nat /\ SigningIssued(e) <= MAX_NUMBER_OF_TOKENS
      /\ SigningIssued(e) % EQUITY_TOKENS_PER_SHARE = 0
  BY <1>1, IssueFits DEF SigningTokenFee, SigningIssued
<1>3. SigningShares(e) \in Nat /\ SigningIssued(e) = SigningShares(e) * EQUITY_TOKENS_PER_SHARE
  <2>1. SigningIssued(e) \in Nat
    BY <1>1, <1>2 DEF SigningIssued
  <2>2. PICK n \in Nat : n = SigningIssued(e)
    BY <2>1
  <2>3. PICK d \in Nat \ {0} : d = EQUITY_TOKENS_PER_SHARE
    BY Constants
  <2>4. n \div d \in Nat /\ n = d * (n \div d) + (n % d) /\ n % d = 0
    <3>1. n \div d \in Nat /\ n = d * (n \div d) + (n % d)
      BY ONLY n \in Nat, d \in Nat \ {0}, DivisionFacts
    <3>2. n % d = 0
      BY ONLY <1>2, <2>2, <2>3, Zenon
    <3> QED
      BY <3>1, <3>2
  <2>5. n = (n \div d) * d
    BY <2>4
  <2> QED
    BY <2>2, <2>3, <2>4, <2>5 DEF SigningShares
<1>4. \A c \in Currencies : CalculatePlatformFee(A[c]) \in 0 .. A[c]
  BY <1>1, FeeIsPart
<1>5. F \in [Currencies -> Nat] /\ \A c \in Currencies : F[c] <= A[c]
  BY <1>1, <1>4 DEF SigningFee
<1>6. N \in [Currencies -> Nat] /\ \A c \in Currencies : N[c] = A[c] - F[c]
  <2>1. N = [c \in Currencies |-> A[c] - F[c]]
    BY DEF SigningNet
  <2> HIDE DEF A, F, N
  <2> QED
    BY <1>1, <1>5, <2>1
<1>7. k \in Nat /\ k <= N["EUR"]
  <2>1. SHARE_NOMINAL_VALUE_EUR_ULPS * SigningShares(e) \in Nat
    BY <1>3, TokenTermsAssumption
  <2>2. k = Least(SHARE_NOMINAL_VALUE_EUR_ULPS * SigningShares(e), N["EUR"])
    BY DEF SigningCapital
  <2> HIDE DEF k, N
  <2> QED
    BY <1>6, <2>1, <2>2, CurrencyFacts DEF Least
<1>8. SigningRest(e) = [N EXCEPT !["EUR"] = @ - k]
  BY DEF SigningRest
<1> HIDE DEF A, F, N, k
<1>9. /\ SigningRest(e) \in [Currencies -> Nat]
      /\ \A c \in Currencies : SigningRest(e)[c] = IF c = "EUR" THEN N[c] - k ELSE N[c]
  <2>1. PICK x : x = "EUR"
    OBVIOUS
  <2>2. x \in Currencies /\ k \in 0 .. N[x] /\ SigningRest(e) = [N EXCEPT ![x] = @ - k]
        /\ N \in [Currencies -> Nat]
    BY <1>6, <1>7, <1>8, <2>1, CurrencyFacts
  <2>3. /\ SigningRest(e) \in [Currencies -> Nat]
        /\ \A c \in Currencies : SigningRest(e)[c] = IF c = x THEN N[c] - k ELSE N[c]
    BY ONLY <2>2
  <2> QED
    BY <2>1, <2>3
<1>10. ASSUME NEW c \in Currencies
       PROVE  SigningRest(e)[c] + F[c] = A[c] - (IF c = "EUR" THEN k ELSE 0)
  <2>1. A[c] \in Nat /\ F[c] \in Nat /\ N[c] = A[c] - F[c] /\ k \in Nat
    BY <1>1, <1>5, <1>6, <1>7
  <2> QED
    BY <1>9, <2>1
<1> QED
  BY <1>2, <1>3, <1>5, <1>7, <1>9, <1>10 DEF A, F, k

\* Entering Signing sets the platform's fee and the nominal value aside.
LEMMA SigningEffect ==
    ASSUME NEW w, NEW s \in 0 .. 2, Inv(w, s), NEW v, v = OnSigningTransition(w), v.ok
    PROVE  Inv(v, 3) /\ PaidOut(w, v) /\ w.ok
<1> DEFINE e == w.eto
           f == v.eto
           T == w.eto.tickets
           k == SigningCapital(e)
           u == Pay(w, "EUR", "nominee", k)
<1>1. /\ Typed(w) /\ IsWorld(w) /\ e \in Offerings /\ IsOffering(e)
      /\ e.totalTokenAmount <= MAX_AVAILABLE_TOKENS
  BY OfferingTypes DEF Inv, Typed, TotalsOK
<1>2. /\ IsWorld(v) /\ IsOffering(f) /\ SameBook(e, f)
      /\ f.newShares = SigningShares(e) /\ f.platformFee = SigningFee(e)
      /\ f.tokenParticipationFeeAmount = SigningTokenFee(e)
      /\ f.additionalContribution = SigningRest(e)
      /\ v.bal = u.bal /\ v.neu = w.neu /\ v.equity = w.equity /\ v.locks = w.locks /\ u.ok
  BY <1>1, OnSigningIs
<1>3. /\ SigningTokenFee(e) \in Nat
      /\ SigningIssued(e) = SigningShares(e) * EQUITY_TOKENS_PER_SHARE
      /\ SigningIssued(e) <= MAX_NUMBER_OF_TOKENS
      /\ SigningShares(e) \in Nat
      /\ SigningFee(e) \in [Currencies -> Nat] /\ SigningRest(e) \in [Currencies -> Nat]
      /\ k \in Nat
      /\ \A c \in Currencies :
            SigningRest(e)[c] + SigningFee(e)[c]
               = e.additionalContribution[c] - (IF c = "EUR" THEN k ELSE 0)
  BY <1>1, SigningNumbers
<1>p. /\ "nominee" \in Investors \cup Parties /\ "nominee" \notin Investors
      /\ "EUR" \in Currencies
  BY PartyFacts, CurrencyFacts
<1>4. /\ w.ok /\ Typed(u) /\ PaidOut(w, u)
      /\ u.bal["EUR"]["eto"] = w.bal["EUR"]["eto"] - k
      /\ u.bal["EUR"]["nominee"] = w.bal["EUR"]["nominee"] + k
      /\ \A d \in Currencies, p \in Investors \cup Parties :
            (d # "EUR" \/ p \notin {"eto", "nominee"}) => u.bal[d][p] = w.bal[d][p]
  <2>1. PICK to : to = "nominee"
    OBVIOUS
  <2>2. PICK c : c = "EUR"
    OBVIOUS
  <2>3. /\ to \in Investors \cup Parties /\ to \notin Investors /\ to # "eto" /\ to # "lock"
        /\ c \in Currencies /\ u = Pay(w, c, to, k)
    BY <1>p, <2>1, <2>2
  <2> HIDE DEF u, k
  <2>4. /\ w.ok /\ Typed(u) /\ PaidOut(w, u)
        /\ u.bal[c]["eto"] = w.bal[c]["eto"] - k
        /\ u.bal[c][to] = w.bal[c][to] + k
        /\ \A d \in Currencies, p \in Investors \cup Parties :
              (d # c \/ p \notin {"eto", to}) => u.bal[d][p] = w.bal[d][p]
    BY ONLY <1>1, <1>2, <1>3, <2>3, PaymentIs
  <2> QED
    BY ONLY <2>1, <2>2, <2>4
<1> HIDE DEF u, k, e, f
<1>5. f \in Offerings
  BY <1>1, <1>2, <1>3, OfferingTypes, OfferingMade DEF SameBook
<1>6. Typed(v)
  <2>1. MachineOK(w.eto.machine) /\ f.machine = w.eto.machine
    BY <1>1, <1>2 DEF Typed, SameBook, e
  <2>2. /\ v.bal \in [Currencies -> [Investors \cup Parties -> Nat]]
        /\ \A c \in Currencies : SoundLock(u.locks[c]) /\ v.bal[c]["lock"] = u.locks[c].total
        /\ u.locks \in [Currencies -> Locks]
    BY <1>2, <1>4 DEF Typed
  <2>3. u.locks = v.locks
    BY <1>2, <1>4 DEF PaidOut
  <2>4. /\ v.neu \in [Investors \cup {"eto", "operator"} -> Nat]
        /\ v.equity \in [Investors \cup {"eto", "portfolio"} -> Nat]
    BY <1>1, <1>2 DEF Typed
  <2> QED
    BY <1>2, <1>5, <2>1, <2>2, <2>3, <2>4 DEF Typed, f
<1>t. /\ f.tickets = e.tickets /\ e.tickets = T /\ T \in [Investors -> Tickets]
      /\ \A c \in Currencies : OpenAmountOf(T, c) \in Nat
  BY <1>1, <1>2, OfferingTypes, TicketSums DEF SameBook, e
<1>7. MoneyOK(f, v.bal, 3)
  <2> SUFFICES ASSUME NEW c \in Currencies
               PROVE  /\ v.bal[c]["eto"] = f.additionalContribution[c] + f.platformFee[c]
                      /\ v.bal[c]["eto"] = OpenAmountOf(T, c) - Held(v.bal, c)
    BY <1>t DEF MoneyOK
  <2>1. /\ Held(w.bal, c) = 0 /\ w.bal[c]["eto"] = OpenAmountOf(T, c)
        /\ e.additionalContribution[c] = OpenAmountOf(T, c) /\ OpenAmountOf(T, c) \in Nat
    BY <1>t DEF Inv, MoneyOK, e
  <2>2. f.additionalContribution[c] + f.platformFee[c]
           = OpenAmountOf(T, c) - (IF c = "EUR" THEN k ELSE 0)
    BY <1>2, <1>3, <2>1
  <2>3. CASE c = "EUR"
    <3>1. v.bal[c]["eto"] = OpenAmountOf(T, c) - k /\ Held(v.bal, c) = k
      BY <1>2, <1>3, <1>4, <2>1, <2>3 DEF Held
    <3> QED
      BY <2>2, <2>3, <3>1
  <2>4. CASE c # "EUR"
    <3>1. v.bal[c]["eto"] = OpenAmountOf(T, c) /\ Held(v.bal, c) = 0
      BY <1>2, <1>4, <2>1, <2>4, PartyFacts DEF Held
    <3> QED
      BY <2>1, <2>2, <2>4, <3>1
  <2> QED
    BY <2>3, <2>4
<1>8. SharesOK(f, 3)
  <2>1. IssuedTokens(f) = SigningIssued(e)
    BY <1>2 DEF IssuedTokens, SigningIssued, SameBook
  <2> QED
    BY <1>2, <1>3, <2>1 DEF SharesOK
<1>9. TicketsOK(f, 3) /\ TotalsOK(f, 3)
  BY <1>2 DEF Inv, TicketsOK, TotalsOK, SameBook, e
<1>10. AgreementOK(f, 3)
  BY <1>2 DEF Inv, AgreementOK, SameBook, Confirmed, e
<1>11. RewardsOK(f, v.neu, 3) /\ PendingOK(f.tickets, v.locks)
  BY <1>2, <1>t DEF Inv, RewardsOK, PendingOK, e
<1>12. EquityOK(f, v.equity, 3)
  BY <1>2 DEF Inv, EquityOK
<1>13. PaidOut(w, v)
  BY <1>2, <1>4 DEF PaidOut, e, f
<1> QED
  BY <1>4, <1>6, <1>7, <1>8, <1>9, <1>10, <1>11, <1>12, <1>13 DEF Inv, f

\* A record has the parts it was made of.
LEMMA WorldMade ==
    ASSUME NEW e, NEW b, NEW n, NEW q, NEW l, NEW k, NEW v, v = AWorld(e, b, n, q, l, k)
    PROVE  /\ IsWorld(v) /\ v.eto = e /\ v.bal = b /\ v.neu = n /\ v.equity = q /\ v.locks = l
           /\ v.ok = k
BY DEF IsWorld, AWorld

\* A distribution of Neumarks the offering can afford.
LEMMA NeuMoved ==
    ASSUME NEW w, Typed(w), NEW to \in DOMAIN w.neu, to # "eto",
           NEW amount \in Nat, NEW v, v = DistributeNeu(w, to, amount), v.ok
    PROVE  /\ w.ok /\ IsWorld(v) /\ v.eto = w.eto /\ v.bal = w.bal /\ v.equity = w.equity
           /\ v.locks = w.locks /\ v.neu["eto"] = w.neu["eto"] - amount
           /\ Typed(v) /\ PaidOut(w, v)
<1>1. /\ IsWorld(w) /\ w.neu \in [Investors \cup {"eto", "operator"} -> Nat]
      /\ "eto" \in Investors \cup {"eto", "operator"}
      /\ to \in Investors \cup {"eto", "operator"} /\ "eto" # to
  BY PartyFacts DEF Typed
<1>2. /\ IsWorld(v) /\ v.eto = w.eto /\ v.bal = w.bal /\ v.equity = w.equity /\ v.locks = w.locks
      /\ v.neu = Moved(w.neu, "eto", to, amount) /\ w.ok /\ w.neu["eto"] >= amount
  BY <1>1, DistributeNeuIs
<1>3. v.neu \in [Investors \cup {"eto", "operator"} -> Nat] /\ v.neu["eto"] = w.neu["eto"] - amount
  <2>1. PICK P : P = Investors \cup {"eto", "operator"}
    OBVIOUS
  <2>2. PICK x : x = "eto"
    OBVIOUS
  <2>3. /\ w.neu \in [P -> Nat] /\ x \in P /\ to \in P /\ x # to
        /\ v.neu = Moved(w.neu, x, to, amount) /\ w.neu[x] >= amount /\ amount \in Nat
    BY <1>1, <1>2, <2>1, <2>2
  <2>4. PICK b, r : b = w.neu /\ r = v.neu
    OBVIOUS
  <2>5. /\ b \in [P -> Nat] /\ x \in P /\ to \in P /\ x # to
        /\ r = Moved(b, x, to, amount) /\ b[x] >= amount /\ amount \in Nat
    BY ONLY <2>3, <2>4
  <2>6. r \in [P -> Nat] /\ r[x] = b[x] - amount
    BY ONLY <2>5, MovedIs
  <2> QED
    BY <2>1, <2>2, <2>4, <2>6
<1>4. Typed(v)
  BY <1>2, <1>3 DEF Typed
<1> QED
  BY <1>2, <1>3, <1>4 DEF PaidOut, SameBook

\* ... and of equity tokens.
LEMMA TokensMoved ==
    ASSUME NEW w, Typed(w), NEW to \in DOMAIN w.equity, to # "eto",
           NEW amount \in Nat, NEW v, v = DistributeTokens(w, to, amount), v.ok
    PROVE  /\ w.ok /\ IsWorld(v) /\ v.eto = w.eto /\ v.bal = w.bal /\ v.neu = w.neu
           /\ v.locks = w.locks /\ v.equity["eto"] = w.equity["eto"] - amount
           /\ Typed(v) /\ PaidOut(w, v)
<1>1. /\ IsWorld(w) /\ w.equity \in [Investors \cup {"eto", "portfolio"} -> Nat]
      /\ "eto" \in Investors \cup {"eto", "portfolio"}
      /\ to \in Investors \cup {"eto", "portfolio"} /\ "eto" # to
  BY PartyFacts DEF Typed
<1>2. /\ IsWorld(v) /\ v.eto = w.eto /\ v.bal = w.bal /\ v.neu = w.neu /\ v.locks = w.locks
      /\ v.equity = Moved(w.equity, "eto", to, amount) /\ w.ok /\ w.equity["eto"] >= amount
  BY <1>1, DistributeTokensIs
<1>3. /\ v.equity \in [Investors \cup {"eto", "portfolio"} -> Nat]
      /\ v.equity["eto"] = w.equity["eto"] - amount
  <2>1. PICK P : P = Investors \cup {"eto", "portfolio"}
    OBVIOUS
  <2>2. PICK x : x = "eto"
    OBVIOUS
  <2>3. /\ w.equity \in [P -> Nat] /\ x \in P /\ to \in P /\ x # to
        /\ v.equity = Moved(w.equity, x, to, amount) /\ w.equity[x] >= amount /\ amount \in Nat
    BY <1>1, <1>2, <2>1, <2>2
  <2>4. v.equity \in [P -> Nat] /\ v.equity[x] = w.equity[x] - amount
    BY ONLY <2>3 DEF Moved
  <2> QED
    BY <2>1, <2>2, <2>4
<1>4. Typed(v)
  BY <1>2, <1>3 DEF Typed
<1> QED
  BY <1>2, <1>3, <1>4 DEF PaidOut, SameBook

\* Payments add up.
LEMMA PaidOutTwice ==
    ASSUME NEW w, NEW v, NEW u, PaidOut(w, v), PaidOut(v, u)
    PROVE  PaidOut(w, u)
BY DEF PaidOut, SameBook

\* A payment that may be of nothing makes a record, and fails if the transaction failed
\* before.
LEMMA PayIfAnyShape ==
    ASSUME NEW w, IsWorld(w), NEW c, NEW to, NEW amount, NEW v, v = PayIfAny(w, c, to, amount)
    PROVE  IsWorld(v) /\ (v.ok => w.ok)
<1>1. v = Pay(w, c, to, amount) \/ v = w
  BY DEF PayIfAny
<1>2. CASE v = Pay(w, c, to, amount)
  <2>1. IsWorld(Pay(w, c, to, amount))
    BY PayIs
  <2>2. Pay(w, c, to, amount).ok => w.ok
    BY PayIs
  <2> QED
    BY <1>2, <2>1, <2>2
<1>3. CASE v = w
  BY <1>3
<1> QED
  BY <1>1, <1>2, <1>3

\* Both currencies are paid to the same account.
LEMMA BothPaid ==
    ASSUME NEW w, Typed(w),
           NEW to \in Investors \cup Parties, to \notin Investors, to # "eto", to # "lock",
           NEW A \in [Currencies -> Nat], NEW u, NEW v,
           u = PayIfAny(w, "ETH", to, A["ETH"]), v = PayIfAny(u, "EUR", to, A["EUR"]), v.ok
    PROVE  /\ w.ok /\ v.eto = w.eto /\ v.neu = w.neu /\ v.equity = w.equity
           /\ v.locks = w.locks
           /\ \A c \in Currencies : v.bal[c]["eto"] = w.bal[c]["eto"] - A[c]
           /\ Typed(v) /\ PaidOut(w, v)
<1>1. PICK x, y : x = "ETH" /\ y = "EUR"
  OBVIOUS
<1>2. x \in Currencies /\ y \in Currencies /\ x # y /\ Currencies = {x, y}
  BY <1>1, CurrencyFacts
<1>3. A[x] \in Nat /\ A[y] \in Nat
  BY <1>2
<1>4. u = PayIfAny(w, x, to, A[x]) /\ v = PayIfAny(u, y, to, A[y])
  BY <1>1
<1>w. IsWorld(w)
  BY DEF Typed
<1>5. IsWorld(u)
  BY <1>w, <1>4, PayIfAnyShape
<1>6. u.ok
  BY <1>4, <1>5, PayIfAnyShape
<1>7. /\ w.ok /\ u.eto = w.eto /\ u.neu = w.neu /\ u.equity = w.equity
      /\ u.locks = w.locks
      /\ u.bal[x]["eto"] = w.bal[x]["eto"] - A[x]
      /\ u.bal[y]["eto"] = w.bal[y]["eto"]
      /\ Typed(u) /\ PaidOut(w, u)
  BY <1>2, <1>3, <1>4, <1>6, PaymentIfAnyIs, PartyFacts
<1>8. /\ v.eto = u.eto /\ v.neu = u.neu /\ v.equity = u.equity
      /\ v.locks = u.locks
      /\ v.bal[y]["eto"] = u.bal[y]["eto"] - A[y]
      /\ v.bal[x]["eto"] = u.bal[x]["eto"]
      /\ Typed(v) /\ PaidOut(u, v)
  BY <1>2, <1>3, <1>4, <1>7, PaymentIfAnyIs, PartyFacts
<1> QED
  BY <1>2, <1>7, <1>8, PaidOutTwice

\* Entering Claim pays the contribution out, keeps the platform's half of the Neumarks
\* and issues the equity tokens.
LEMMA ClaimEffect ==
    ASSUME NEW w, Inv(w, 3), NEW v, v = OnClaimTransition(w), v.ok
    PROVE  Inv(v, 4) /\ PaidOut(w, v) /\ w.ok
<1> DEFINE e == w.eto
           T == w.eto.tickets
           A == w.eto.additionalContribution
           n == w.neu["eto"]
           w1 == DistributeNeu(w, "operator", PlatformNmk(n))
           w2 == PayIfAny(w1, "ETH", "company", A["ETH"])
           w3 == PayIfAny(w2, "EUR", "company", A["EUR"])
<1>1. /\ Typed(w) /\ IsWorld(w) /\ e \in Offerings
      /\ n \in Nat /\ A \in [Currencies -> Nat] /\ T \in [Investors -> Tickets]
      /\ e.totalTokenAmount \in Nat /\ e.tokenParticipationFeeAmount \in Nat
  <2>1. Typed(w) /\ IsWorld(w) /\ e \in Offerings
    BY DEF Inv, Typed
  <2>2. n \in Nat
    BY <2>1, PartyFacts DEF Typed
  <2> QED
    BY <2>1, <2>2, OfferingTypes
<1>2. v = [w3 EXCEPT !.equity["eto"] = @ + IssuedTokens(e)]
  BY DEF OnClaimTransition
<1> HIDE DEF w3
<1>3. IsWorld(w1)
  BY <1>1, DistributeNeuIs
<1> HIDE DEF w1
<1>4. IsWorld(w2) /\ (w2.ok => w1.ok)
  BY <1>3, PayIfAnyShape
<1> HIDE DEF w2
<1>5. IsWorld(w3) /\ (w3.ok => w2.ok)
  BY <1>4, PayIfAnyShape DEF w3
<1>6. v = AWorld(w3.eto, w3.bal, w3.neu, [w3.equity EXCEPT !["eto"] = @ + IssuedTokens(e)],
                 w3.locks, w3.ok)
  BY <1>2, <1>5 DEF IsWorld, AWorld
<1>7. /\ IsWorld(v) /\ v.eto = w3.eto /\ v.bal = w3.bal /\ v.neu = w3.neu /\ v.locks = w3.locks
      /\ v.equity = [w3.equity EXCEPT !["eto"] = @ + IssuedTokens(e)] /\ v.ok = w3.ok
  <2>1. PICK q : q = [w3.equity EXCEPT !["eto"] = @ + IssuedTokens(e)]
    OBVIOUS
  <2>2. v = AWorld(w3.eto, w3.bal, w3.neu, q, w3.locks, w3.ok)
    BY <1>6, <2>1
  <2>3. /\ IsWorld(v) /\ v.eto = w3.eto /\ v.bal = w3.bal /\ v.neu = w3.neu /\ v.locks = w3.locks
        /\ v.equity = q
    BY ONLY <2>2, WorldMade
  <2>4. v.ok = w3.ok
    BY ONLY <2>2, WorldMade
  <2> QED
    BY <2>1, <2>3, <2>4
<1>8. w3.ok /\ w1.ok
  BY <1>4, <1>5, <1>7
<1>9. /\ w.ok /\ w1.eto = e /\ w1.bal = w.bal /\ w1.equity = w.equity
      /\ w1.locks = w.locks /\ w1.neu["eto"] = n - PlatformNmk(n)
      /\ Typed(w1) /\ PaidOut(w, w1)
  <2>1. PICK to : to = "operator"
    OBVIOUS
  <2>2. PICK k \in Nat : k = PlatformNmk(n)
    BY <1>1, PlatformNmkIs
  <2>3. to \in DOMAIN w.neu /\ to # "eto" /\ w1 = DistributeNeu(w, to, k)
    BY <1>1, <2>1, <2>2 DEF w1, Typed
  <2>4. /\ w.ok /\ w1.eto = w.eto /\ w1.bal = w.bal /\ w1.equity = w.equity
        /\ w1.locks = w.locks /\ w1.neu["eto"] = w.neu["eto"] - k
        /\ Typed(w1) /\ PaidOut(w, w1)
    BY ONLY <1>1, <1>8, <2>2, <2>3, NeuMoved
  <2> QED
    BY <2>2, <2>4
<1>10. /\ w3.eto = w1.eto /\ w3.neu = w1.neu /\ w3.equity = w1.equity
       /\ w3.locks = w1.locks
       /\ \A c \in Currencies : w3.bal[c]["eto"] = w1.bal[c]["eto"] - A[c]
       /\ Typed(w3) /\ PaidOut(w1, w3)
  <2>1. PICK to : to = "company"
    OBVIOUS
  <2>2. /\ to \in Investors \cup Parties /\ to \notin Investors /\ to # "eto" /\ to # "lock"
        /\ w2 = PayIfAny(w1, "ETH", to, A["ETH"]) /\ w3 = PayIfAny(w2, "EUR", to, A["EUR"])
    BY <2>1, PartyFacts DEF w2, w3
  <2> HIDE DEF A
  <2> QED
    BY ONLY <1>1, <1>8, <1>9, <2>2, BothPaid
<1> HIDE DEF e, A, n
<1>11. /\ OpenTokensOf(T) = e.totalTokenAmount /\ w.equity["eto"] = 0
  <2>1. \A i \in Investors : ~T[i].settled /\ (T[i].equivEurUlps = 0 => T[i] = NoTicket)
    BY DEF Inv, TicketsOK
  <2>2. OpenTokensOf(T) = TokensOf(T)
    BY <1>1, <2>1, AllAreOpen
  <2> QED
    BY <2>2 DEF Inv, TotalsOK, EquityOK, e
<1>12. /\ v.eto = e /\ v.locks = w.locks /\ v.neu["eto"] = n - PlatformNmk(n)
       /\ \A c \in Currencies : v.bal[c]["eto"] = w.bal[c]["eto"] - A[c]
       /\ \A c \in Currencies, i \in Investors : v.bal[c][i] = w.bal[c][i]
  BY <1>7, <1>9, <1>10 DEF PaidOut
<1>13. IssuedTokens(e) \in Nat /\ IssuedTokens(e) = e.totalTokenAmount + e.tokenParticipationFeeAmount
  BY <1>1 DEF IssuedTokens
<1>14. /\ v.equity \in [Investors \cup {"eto", "portfolio"} -> Nat]
       /\ v.equity["eto"] = OpenTokensOf(T) + e.tokenParticipationFeeAmount
  <2>1. PICK P, x : P = Investors \cup {"eto", "portfolio"} /\ x = "eto"
    OBVIOUS
  <2>2. /\ x \in P /\ w.equity \in [P -> Nat] /\ w.equity[x] = 0
        /\ v.equity = [w.equity EXCEPT ![x] = @ + IssuedTokens(e)]
    BY <1>1, <1>7, <1>9, <1>10, <1>11, <2>1 DEF Typed
  <2>3. v.equity \in [P -> Nat] /\ v.equity[x] = IssuedTokens(e)
    BY ONLY <1>13, <2>2
  <2> QED
    BY <1>11, <1>13, <2>1, <2>3
<1>15. Typed(v)
  <2>1. /\ v.eto = w3.eto /\ v.bal = w3.bal /\ v.neu = w3.neu /\ v.locks = w3.locks
        /\ IsWorld(v)
    BY <1>7
  <2>2. /\ w3.eto \in Offerings /\ MachineOK(w3.eto.machine)
        /\ w3.bal \in [Currencies -> [Investors \cup Parties -> Nat]]
        /\ w3.neu \in [Investors \cup {"eto", "operator"} -> Nat]
        /\ w3.locks \in [Currencies -> Locks]
        /\ \A c \in Currencies :
              SoundLock(w3.locks[c]) /\ w3.bal[c]["lock"] = w3.locks[c].total
    BY <1>10 DEF Typed
  <2> QED
    BY ONLY <1>14, <2>1, <2>2 DEF Typed
<1>16. TicketsOK(e, 4) /\ TotalsOK(e, 4) /\ SharesOK(e, 4) /\ AgreementOK(e, 4)
  BY DEF Inv, TicketsOK, TotalsOK, SharesOK, AgreementOK, e
<1>17. MoneyOK(v.eto, v.bal, 4)
  <2> SUFFICES ASSUME NEW c \in Currencies PROVE v.bal[c]["eto"] = e.platformFee[c]
    BY <1>12 DEF MoneyOK
  <2>1. w.bal[c]["eto"] = A[c] + e.platformFee[c] /\ A[c] \in Nat
    BY <1>1 DEF Inv, MoneyOK, e, A
  <2>2. e.platformFee[c] \in Nat
    BY <1>1, OfferingTypes
  <2> QED
    BY <1>12, <2>1, <2>2
<1>18. RewardsOK(v.eto, v.neu, 4)
  BY <1>12 DEF Inv, RewardsOK, e, n
<1>19. EquityOK(v.eto, v.equity, 4)
  BY <1>12, <1>14 DEF EquityOK, e
<1>20. PendingOK(v.eto.tickets, v.locks)
  BY <1>12 DEF Inv, e
<1> QED
  BY <1>9, <1>12, <1>15, <1>16, <1>17, <1>18, <1>19, <1>20 DEF Inv, PaidOut, SameBook, e

-----------------------------------------------------------------------------
(***************************************************************************)
(* What the steps of a transaction leave alone, sound or not.              *)
(***************************************************************************)
Shaped(w) == IsWorld(w) /\ IsOffering(w.eto)

\* v is a later world of the same transaction, in the same state of the machine.
Later(w, v) == Shaped(v) /\ v.eto.machine = w.eto.machine /\ (v.ok => w.ok)

\* Steps of a transaction add up.
LEMMA LaterTwice ==
    ASSUME NEW w, NEW v, NEW u, Later(w, v), Later(v, u)
    PROVE  Later(w, u)
BY DEF Later

\* A payment, ...
LEMMA PayShape ==
    ASSUME NEW w, Shaped(w), NEW c, NEW to, NEW amount
    PROVE  Later(w, Pay(w, c, to, amount))
<1> DEFINE v == Pay(w, c, to, amount)
<1>1. v.eto = w.eto
  <2>1. Require(w, MayReceive(c, to) /\ w.bal[c]["eto"] >= amount).eto = w.eto
    BY DEF Shaped, IsWorld, AWorld, Require
  <2>2. v = [Require(w, MayReceive(c, to) /\ w.bal[c]["eto"] >= amount)
                EXCEPT !.bal[c] = Moved(@, "eto", to, amount)]
    BY DEF Pay
  <2>3. Require(w, MayReceive(c, to) /\ w.bal[c]["eto"] >= amount)
           = AWorld(w.eto, w.bal, w.neu, w.equity, w.locks,
                    w.ok /\ (MayReceive(c, to) /\ w.bal[c]["eto"] >= amount))
    BY DEF Shaped, IsWorld, AWorld, Require
  <2>4. v = AWorld(w.eto, [w.bal EXCEPT ![c] = Moved(@, "eto", to, amount)], w.neu, w.equity, w.locks,
                    w.ok /\ (MayReceive(c, to) /\ w.bal[c]["eto"] >= amount))
    BY <2>2, <2>3 DEF AWorld
  <2> HIDE DEF v
  <2> QED
    BY <2>4, WorldMade
<1>2. IsWorld(v)
  BY PayIs DEF Shaped
<1>3. v.ok => w.ok
  BY PayIs DEF Shaped
<1> QED
  BY <1>1, <1>2, <1>3 DEF Shaped, Later

\* ... one that may be of nothing, ...
LEMMA PayIfAnyIsLater ==
    ASSUME NEW w, Shaped(w), NEW c, NEW to, NEW amount
    PROVE  Later(w, PayIfAny(w, c, to, amount))
<1>1. CASE amount > 0
  BY <1>1, PayShape DEF PayIfAny
<1>2. CASE ~ amount > 0
  BY <1>2 DEF PayIfAny, Later
<1> QED
  BY <1>1, <1>2

\* ... a distribution of Neumarks, ...
LEMMA NeuIsLater ==
    ASSUME NEW w, Shaped(w), NEW to, NEW amount
    PROVE  Later(w, DistributeNeu(w, to, amount))
<1>1. PICK v : v = DistributeNeu(w, to, amount)
  OBVIOUS
<1>2. IsWorld(v) /\ v.eto = w.eto
  BY <1>1, DistributeNeuIs DEF Shaped
<1>3. v.ok => w.ok
  BY <1>1, DistributeNeuIs DEF Shaped
<1> QED
  BY <1>1, <1>2, <1>3 DEF Shaped, Later

\* ... one of equity tokens, ...
LEMMA TokensAreLater ==
    ASSUME NEW w, Shaped(w), NEW to, NEW amount
    PROVE  Later(w, DistributeTokens(w, to, amount))
<1>1. PICK v : v = DistributeTokens(w, to, amount)
  OBVIOUS
<1>2. IsWorld(v) /\ v.eto = w.eto
  BY <1>1, DistributeTokensIs DEF Shaped
<1>3. v.ok => w.ok
  BY <1>1, DistributeTokensIs DEF Shaped
<1> QED
  BY <1>1, <1>2, <1>3 DEF Shaped, Later

\* ... and the effects of entering Signing, ...
LEMMA SigningIsLater ==
    ASSUME NEW w, Shaped(w)
    PROVE  Later(w, OnSigningTransition(w))
<1>1. PICK v : v = OnSigningTransition(w)
  OBVIOUS
<1>2. PICK u : u = Pay(w, "EUR", "nominee", SigningCapital(w.eto))
  OBVIOUS
<1>3. IsWorld(v) /\ IsOffering(v.eto) /\ SameBook(w.eto, v.eto)
  BY <1>1, <1>2, OnSigningIs DEF Shaped
<1>4. v.ok => u.ok
  BY <1>1, <1>2, OnSigningIs DEF Shaped
<1>5. u.ok => w.ok
  BY <1>2, PayShape DEF Later
<1> QED
  BY <1>1, <1>3, <1>4, <1>5 DEF Shaped, Later, SameBook

\* ... Claim, ...
LEMMA ClaimIsLater ==
    ASSUME NEW w, Shaped(w)
    PROVE  Later(w, OnClaimTransition(w))
<1> DEFINE w1 == DistributeNeu(w, "operator", PlatformNmk(w.neu["eto"]))
           w2 == PayIfAny(w1, "ETH", "company", w.eto.additionalContribution["ETH"])
           w3 == PayIfAny(w2, "EUR", "company", w.eto.additionalContribution["EUR"])
           v == OnClaimTransition(w)
<1>1. v = [w3 EXCEPT !.equity["eto"] = @ + IssuedTokens(w.eto)]
  BY DEF OnClaimTransition
<1>2. Later(w, w1)
  BY NeuIsLater
<1> HIDE DEF w1
<1>3. Later(w1, w2)
  BY <1>2, PayIfAnyIsLater DEF Later
<1> HIDE DEF w2
<1>4. Later(w2, w3)
  BY <1>3, PayIfAnyIsLater DEF Later
<1> HIDE DEF w3, v
<1>5. Later(w3, v)
  <2>1. PICK q : q = [w3.equity EXCEPT !["eto"] = @ + IssuedTokens(w.eto)]
    OBVIOUS
  <2>2. v = AWorld(w3.eto, w3.bal, w3.neu, q, w3.locks, w3.ok)
    BY <1>1, <1>4, <2>1 DEF Later, Shaped, IsWorld, AWorld
  <2>3. IsWorld(v) /\ v.eto = w3.eto
    BY ONLY <2>2, WorldMade
  <2>4. v.ok = w3.ok
    BY ONLY <2>2, WorldMade
  <2> QED
    BY <1>4, <2>3, <2>4 DEF Later, Shaped
<1> QED
  BY <1>2, <1>3, <1>4, <1>5, LaterTwice DEF v

\* ... Payout ...
LEMMA PayoutIsLater ==
    ASSUME NEW w, Shaped(w)
    PROVE  Later(w, OnPayoutTransition(w))
<1> DEFINE w1 == PayIfAny(w,  "ETH", "disbursal", w.eto.platformFee["ETH"])
           w2 == PayIfAny(w1, "EUR", "disbursal", w.eto.platformFee["EUR"])
           v == DistributeTokens(w2, "portfolio", w.eto.tokenParticipationFeeAmount)
<1>1. v = OnPayoutTransition(w)
  BY DEF OnPayoutTransition
<1>2. Later(w, w1)
  BY PayIfAnyIsLater
<1> HIDE DEF w1
<1>3. Later(w1, w2)
  BY <1>2, PayIfAnyIsLater DEF Later
<1> HIDE DEF w2
<1>4. Later(w2, v)
  BY <1>3, TokensAreLater DEF Later
<1> QED
  BY <1>1, <1>2, <1>3, <1>4, LaterTwice

\* ... and Refund are steps of this kind.
LEMMA RefundIsLater ==
    ASSUME NEW w, Shaped(w)
    PROVE  Later(w, OnRefundTransition(w))
<1>1. PICK v, q : v = OnRefundTransition(w) /\ q = [w.neu EXCEPT !["eto"] = 0]
  OBVIOUS
<1>2. v = AWorld(w.eto, w.bal, q, w.equity, w.locks, w.ok)
  BY <1>1 DEF OnRefundTransition, Shaped, IsWorld, AWorld
<1>3. IsWorld(v) /\ v.eto = w.eto
  BY ONLY <1>2, WorldMade
<1>4. v.ok = w.ok
  BY ONLY <1>2, WorldMade
<1> QED
  BY <1>1, <1>3, <1>4 DEF Later, Shaped

\* w with another machine record.
WithMachine(w, m) == [w EXCEPT !.eto.machine = m]

\* Nothing else changes, ...
LEMMA WithMachineIs ==
    ASSUME NEW w, Shaped(w), NEW m, NEW v, v = WithMachine(w, m)
    PROVE  /\ Shaped(v) /\ v.bal = w.bal /\ v.neu = w.neu /\ v.equity = w.equity /\ v.locks = w.locks
           /\ v.eto = [w.eto EXCEPT !.machine = m]
<1>1. PICK e : e = [w.eto EXCEPT !.machine = m]
  OBVIOUS
<1>2. v = AWorld(e, w.bal, w.neu, w.equity, w.locks, w.ok)
  BY <1>1 DEF WithMachine, Shaped, IsWorld, AWorld
<1>3. /\ IsWorld(v) /\ v.eto = e /\ v.bal = w.bal /\ v.neu = w.neu /\ v.equity = w.equity
      /\ v.locks = w.locks
  BY ONLY <1>2, WorldMade
<1>5. IsOffering(e)
  BY <1>1 DEF Shaped, IsOffering
<1> QED
  BY <1>1, <1>3, <1>5 DEF Shaped

\* ... and nothing fails.
LEMMA WithMachineSucceeds ==
    ASSUME NEW w, Shaped(w), NEW m
    PROVE  WithMachine(w, m).ok = w.ok
<1>1. PICK e, v : e = [w.eto EXCEPT !.machine = m] /\ v = WithMachine(w, m)
  OBVIOUS
<1>2. v = AWorld(e, w.bal, w.neu, w.equity, w.locks, w.ok)
  BY <1>1 DEF WithMachine, Shaped, IsWorld, AWorld
<1>3. v.ok = w.ok
  BY ONLY <1>2, WorldMade
<1> QED
  BY <1>1, <1>3

\* the fields of an offering with another machine
LEMMA OfferingWithMachine ==
    ASSUME NEW e, IsOffering(e), NEW m, NEW f, f = [e EXCEPT !.machine = m]
    PROVE  /\ IsOffering(f) /\ f.machine = m /\ f.tickets = e.tickets /\ f.agreements = e.agreements
           /\ f.totalEquivEurUlps = e.totalEquivEurUlps
           /\ f.totalTokenAmount = e.totalTokenAmount
           /\ f.totalFixedSlotsTokenAmount = e.totalFixedSlotsTokenAmount
           /\ f.totalInvestors = e.totalInvestors
           /\ f.additionalContribution = e.additionalContribution
           /\ f.platformFee = e.platformFee /\ f.newShares = e.newShares
           /\ f.tokenParticipationFeeAmount = e.tokenParticipationFeeAmount
           /\ f.signedUrl = e.signedUrl /\ f.nomineeSignedUrl = e.nomineeSignedUrl
BY DEF IsOffering

\* Entering Payout gives the fee to the fee disbursal and the platform its tokens.
LEMMA PayoutEffect ==
    ASSUME NEW w, Inv(w, 4), NEW v, v = OnPayoutTransition(w), v.ok
    PROVE  Inv(v, 5) /\ PaidOut(w, v) /\ w.ok
<1> DEFINE e == w.eto
           F == w.eto.platformFee
           k == w.eto.tokenParticipationFeeAmount
           w1 == PayIfAny(w,  "ETH", "disbursal", F["ETH"])
           w2 == PayIfAny(w1, "EUR", "disbursal", F["EUR"])
<1>1. /\ Typed(w) /\ Shaped(w) /\ e \in Offerings
      /\ F \in [Currencies -> Nat] /\ e.tickets \in [Investors -> Tickets] /\ k \in Nat
  BY OfferingTypes DEF Inv, Typed, Shaped
<1>2. v = DistributeTokens(w2, "portfolio", k)
  BY DEF OnPayoutTransition
<1>3. Shaped(w2)
  <2>1. Shaped(w1)
    BY <1>1, PayIfAnyIsLater DEF Later
  <2> HIDE DEF w1
  <2> QED
    BY <2>1, PayIfAnyIsLater DEF Later
<1>4. w2.ok
  BY <1>2, <1>3, TokensAreLater DEF Later
<1>5. /\ w.ok /\ w2.eto = w.eto /\ w2.neu = w.neu /\ w2.equity = w.equity
      /\ w2.locks = w.locks
      /\ \A c \in Currencies : w2.bal[c]["eto"] = w.bal[c]["eto"] - F[c]
      /\ Typed(w2) /\ PaidOut(w, w2)
  <2>1. PICK to : to = "disbursal"
    OBVIOUS
  <2>2. PICK u : u = w1
    OBVIOUS
  <2>3. /\ to \in Investors \cup Parties /\ to \notin Investors /\ to # "eto" /\ to # "lock"
        /\ u = PayIfAny(w, "ETH", to, F["ETH"]) /\ w2 = PayIfAny(u, "EUR", to, F["EUR"])
    BY <2>1, <2>2, PartyFacts
  <2> HIDE DEF F, w1, w2
  <2> QED
    BY ONLY <1>1, <1>4, <2>3, BothPaid
<1> HIDE DEF w1, w2, e, F, k
<1>6. /\ v.eto = w2.eto /\ v.bal = w2.bal /\ v.neu = w2.neu
      /\ v.locks = w2.locks /\ v.equity["eto"] = w2.equity["eto"] - k
      /\ Typed(v) /\ PaidOut(w2, v)
  <2>1. PICK to : to = "portfolio"
    OBVIOUS
  <2>2. to \in DOMAIN w2.equity /\ to # "eto" /\ v = DistributeTokens(w2, to, k)
    BY <1>2, <1>5, <2>1 DEF Typed
  <2> QED
    BY ONLY <1>1, <1>5, <2>2, v.ok, TokensMoved
<1>7. v.eto = e /\ v.locks = w.locks /\ v.neu = w.neu
  BY <1>5, <1>6 DEF e
<1>8. MoneyOK(e, v.bal, 5)
  <2> SUFFICES ASSUME NEW c \in Currencies PROVE v.bal[c]["eto"] = 0
    BY DEF MoneyOK
  <2>1. w.bal[c]["eto"] = F[c] /\ F[c] \in Nat
    BY <1>1 DEF Inv, MoneyOK, F
  <2> QED
    BY <1>5, <1>6, <2>1
<1>9. EquityOK(e, v.equity, 5)
  <2>1. w.equity["eto"] = OpenTokensOf(e.tickets) + k /\ OpenTokensOf(e.tickets) \in Nat
    BY <1>1, TicketSums DEF Inv, EquityOK, e, k
  <2> QED
    BY <1>1, <1>5, <1>6, <2>1 DEF EquityOK
<1>10. TicketsOK(e, 5) /\ TotalsOK(e, 5) /\ SharesOK(e, 5) /\ AgreementOK(e, 5)
  BY DEF Inv, TicketsOK, TotalsOK, SharesOK, AgreementOK, e
<1>11. RewardsOK(e, v.neu, 5) /\ PendingOK(e.tickets, v.locks)
  BY <1>7 DEF Inv, RewardsOK, e
<1>12. PaidOut(w, v)
  BY <1>5, <1>6, PaidOutTwice
<1> QED
  BY <1>5, <1>6, <1>7, <1>8, <1>9, <1>10, <1>11, <1>12 DEF Inv

\* Another machine record leaves the books as they are.
LEMMA WithMachineKeeps ==
    ASSUME NEW w, NEW s, Inv(w, s), NEW m, MachineOK(m), NEW v, v = WithMachine(w, m)
    PROVE  Inv(v, s) /\ v.ok = w.ok
<1> DEFINE e == w.eto
           f == v.eto
<1>1. Typed(w) /\ Shaped(w) /\ e \in Offerings /\ IsOffering(e) /\ m \in SM!Machines
  BY OfferingTypes DEF Inv, Typed, Shaped, MachineOK
<1>2. /\ Shaped(v) /\ v.bal = w.bal /\ v.neu = w.neu /\ v.equity = w.equity /\ v.locks = w.locks
      /\ f = [e EXCEPT !.machine = m]
  BY <1>1, WithMachineIs
<1>3. v.ok = w.ok
  BY <1>1, WithMachineSucceeds
<1> HIDE DEF e, f
<1>4. /\ IsOffering(f) /\ f.machine = m /\ f.tickets = e.tickets /\ f.agreements = e.agreements
      /\ f.totalEquivEurUlps = e.totalEquivEurUlps
      /\ f.totalTokenAmount = e.totalTokenAmount
      /\ f.totalFixedSlotsTokenAmount = e.totalFixedSlotsTokenAmount
      /\ f.totalInvestors = e.totalInvestors
      /\ f.additionalContribution = e.additionalContribution
      /\ f.platformFee = e.platformFee /\ f.newShares = e.newShares
      /\ f.tokenParticipationFeeAmount = e.tokenParticipationFeeAmount
      /\ f.signedUrl = e.signedUrl /\ f.nomineeSignedUrl = e.nomineeSignedUrl
  BY <1>1, <1>2, OfferingWithMachine
<1>5. f \in Offerings
  BY <1>1, <1>4, OfferingTypes, OfferingMade
<1>6. Typed(v)
  BY <1>1, <1>2, <1>4, <1>5 DEF Typed, Shaped, f
<1>7. TicketsOK(f, s) /\ TotalsOK(f, s) /\ SharesOK(f, s) /\ AgreementOK(f, s)
  BY <1>4 DEF Inv, TicketsOK, TotalsOK, SharesOK, AgreementOK, IssuedTokens, Confirmed, e
<1>8. /\ MoneyOK(f, v.bal, s) /\ RewardsOK(f, v.neu, s) /\ EquityOK(f, v.equity, s)
      /\ PendingOK(f.tickets, v.locks)
  BY <1>2, <1>4 DEF Inv, MoneyOK, RewardsOK, EquityOK, e
<1> QED
  BY <1>3, <1>6, <1>7, <1>8 DEF Inv, f

-----------------------------------------------------------------------------

\* The four ways through the effects.
LEMMA MoveToIs ==
    ASSUME NEW w, Shaped(w), NEW m, Reaches(w.eto.machine, m),
           NEW v, v = MoveTo(w, m), NEW u, u = WithMachine(w, m)
    PROVE  LET s == w.eto.machine.state
           IN \/ s = m.state /\ v = u
              \/ s <= m.state /\ m.state <= 2 /\ v = u
              \/ s <= 2 /\ m.state = 3 /\ v = OnSigningTransition(u)
              \/ s <= 3 /\ m.state = 6 /\ v = OnRefundTransition(u)
              \/ s <= 2 /\ m.state = 6 /\ v = OnRefundTransition(OnSigningTransition(u))
              \/ s = 3 /\ m.state = 4 /\ v = OnClaimTransition(u)
              \/ s = 4 /\ m.state = 5 /\ v = OnPayoutTransition(u)
<1> DEFINE m0 == w.eto.machine
           entered == {hop[2] : hop \in m.hops \ m0.hops}
           w0 == [w EXCEPT !.eto.machine = m]
           w1 == IF SM!Signing \in entered THEN OnSigningTransition(w0) ELSE w0
           w2 == IF SM!Claim   \in entered THEN OnClaimTransition(w1)   ELSE w1
           w3 == IF SM!Payout  \in entered THEN OnPayoutTransition(w2)  ELSE w2
<1>1. v = IF SM!Refund \in entered THEN OnRefundTransition(w3) ELSE w3
  BY DEF MoveTo
<1>2. w0 = u
  BY DEF WithMachine
<1>3. \A x : x \in entered <=> Enters(m0, m, x)
  BY DEF Enters
<1> HIDE DEF entered, m0
<1>4. /\ SM!Signing \in entered <=> Enters(m0, m, 3)
      /\ SM!Claim \in entered <=> Enters(m0, m, 4)
      /\ SM!Payout \in entered <=> Enters(m0, m, 5)
      /\ SM!Refund \in entered <=> Enters(m0, m, 6)
  BY <1>3, Phases
<1>5. v = LET v1 == IF Enters(m0, m, 3) THEN OnSigningTransition(u) ELSE u
              v2 == IF Enters(m0, m, 4) THEN OnClaimTransition(v1) ELSE v1
              v3 == IF Enters(m0, m, 5) THEN OnPayoutTransition(v2) ELSE v2
          IN IF Enters(m0, m, 6) THEN OnRefundTransition(v3) ELSE v3
  BY <1>1, <1>2, <1>4
<1>6. ASSUME NEW S, EntersOnly(m0, m, S)
      PROVE  /\ Enters(m0, m, 3) <=> 3 \in S
             /\ Enters(m0, m, 4) <=> 4 \in S
             /\ Enters(m0, m, 5) <=> 5 \in S
             /\ Enters(m0, m, 6) <=> 6 \in S
  BY <1>6 DEF EntersOnly
<1>7. m0.state \in 0 .. 6 /\ m.state \in 0 .. 6 /\ m0 = w.eto.machine
  BY MachineTypes DEF Reaches, MachineOK, m0
<1> HIDE DEF w0, w1, w2, w3
<1>10. CASE m.state = m0.state /\ EntersOnly(m0, m, {})
  <2>1. v = u
    BY <1>5, <1>6, <1>10
  <2> QED
    BY <1>7, <1>10, <2>1
<1>11. CASE m0.state < m.state /\ m.state <= 2 /\ EntersOnly(m0, m, {})
  <2>1. v = u
    BY <1>5, <1>6, <1>11
  <2> QED
    BY <1>7, <1>11, <2>1
<1>12. CASE m0.state <= 2 /\ m.state = 3 /\ EntersOnly(m0, m, {3})
  <2>1. v = OnSigningTransition(u)
    BY <1>5, <1>6, <1>12
  <2> QED
    BY <1>7, <1>12, <2>1
<1>13. CASE m0.state <= 3 /\ m.state = 6 /\ EntersOnly(m0, m, {6})
  <2>1. v = OnRefundTransition(u)
    BY <1>5, <1>6, <1>13
  <2> QED
    BY <1>7, <1>13, <2>1
<1>14. CASE m0.state <= 2 /\ m.state = 6 /\ EntersOnly(m0, m, {3, 6})
  <2>1. v = OnRefundTransition(OnSigningTransition(u))
    BY <1>5, <1>6, <1>14
  <2> QED
    BY <1>7, <1>14, <2>1
<1>15. CASE m0.state = 3 /\ m.state = 4 /\ EntersOnly(m0, m, {4})
  <2>1. v = OnClaimTransition(u)
    BY <1>5, <1>6, <1>15
  <2> QED
    BY <1>7, <1>15, <2>1
<1>16. CASE m0.state = 4 /\ m.state = 5 /\ EntersOnly(m0, m, {5})
  <2>1. v = OnPayoutTransition(u)
    BY <1>5, <1>6, <1>16
  <2> QED
    BY <1>7, <1>16, <2>1
<1> QED
  BY <1>7, <1>10, <1>11, <1>12, <1>13, <1>14, <1>15, <1>16 DEF Reaches

\* Nothing happens to a book that is open.
LEMMA StillOpen ==
    ASSUME NEW w, NEW s \in 0 .. 2, NEW t \in s .. 2, Inv(w, s)
    PROVE  Inv(w, t)
<1>1. /\ Typed(w) /\ w.eto.totalFixedSlotsTokenAmount \in Nat /\ w.eto.totalTokenAmount \in Nat
      /\ MAX_AVAILABLE_TOKENS_IN_WHITELIST \in Nat
  <2>1. Typed(w) /\ w.eto.totalFixedSlotsTokenAmount \in Nat /\ w.eto.totalTokenAmount \in Nat
    BY OfferingTypes DEF Inv, Typed
  <2>2. MAX_AVAILABLE_TOKENS_IN_WHITELIST \in Nat
    BY AvailableTokens, TokenTermsAssumption DEF MAX_AVAILABLE_TOKENS_IN_WHITELIST, Least
  <2> QED
    BY <2>1, <2>2
<1>2. TotalsOK(w.eto, t)
  BY <1>1 DEF Inv, TotalsOK
<1>3. TicketsOK(w.eto, t) /\ SharesOK(w.eto, t) /\ AgreementOK(w.eto, t)
  BY DEF Inv, TicketsOK, SharesOK, AgreementOK
<1>4. MoneyOK(w.eto, w.bal, t)
  BY DEF Inv, MoneyOK
<1>5. RewardsOK(w.eto, w.neu, t) /\ EquityOK(w.eto, w.equity, t)
  BY DEF Inv, RewardsOK, EquityOK
<1> QED
  BY <1>1, <1>2, <1>3, <1>4, <1>5 DEF Inv

\* v follows from w by transitions of the machine and payments to others than investors.
MovedOn(w, v) ==
    /\ v.eto.tickets = w.eto.tickets /\ v.eto.agreements = w.eto.agreements
    /\ v.eto.totalEquivEurUlps = w.eto.totalEquivEurUlps
    /\ v.eto.totalTokenAmount = w.eto.totalTokenAmount
    /\ v.eto.totalFixedSlotsTokenAmount = w.eto.totalFixedSlotsTokenAmount
    /\ v.eto.totalInvestors = w.eto.totalInvestors
    /\ v.eto.signedUrl = w.eto.signedUrl /\ v.eto.nomineeSignedUrl = w.eto.nomineeSignedUrl
    /\ v.locks = w.locks
    /\ \A c \in Currencies, i \in Investors : v.bal[c][i] = w.bal[c][i]

\* Such steps add up, ...
LEMMA MovedOnTwice ==
    ASSUME NEW w, NEW v, NEW u, MovedOn(w, v), MovedOn(v, u)
    PROVE  MovedOn(w, u)
BY DEF MovedOn

\* ... payments to others are such steps ...
LEMMA PaidOutMovesOn ==
    ASSUME NEW w, NEW v, PaidOut(w, v)
    PROVE  MovedOn(w, v) /\ v.eto.machine = w.eto.machine
BY DEF MovedOn, PaidOut, SameBook

\* ... and so is a transition of the machine.
LEMMA WithMachineMovesOn ==
    ASSUME NEW w, Shaped(w), NEW m, NEW v, v = WithMachine(w, m)
    PROVE  MovedOn(w, v) /\ v.eto.machine = m
<1>1. PICK e, f : e = w.eto /\ f = v.eto
  OBVIOUS
<1>2. f = [e EXCEPT !.machine = m] /\ v.locks = w.locks /\ v.bal = w.bal
  BY <1>1, WithMachineIs
<1>3. IsOffering(e)
  BY <1>1 DEF Shaped
<1>4. /\ f.machine = m /\ f.tickets = e.tickets /\ f.agreements = e.agreements
      /\ f.totalEquivEurUlps = e.totalEquivEurUlps
      /\ f.totalTokenAmount = e.totalTokenAmount
      /\ f.totalFixedSlotsTokenAmount = e.totalFixedSlotsTokenAmount
      /\ f.totalInvestors = e.totalInvestors
      /\ f.signedUrl = e.signedUrl /\ f.nomineeSignedUrl = e.nomineeSignedUrl
  BY <1>2, <1>3, OfferingWithMachine
<1> QED
  BY <1>1, <1>2, <1>4 DEF MovedOn

\* A cascade leads from sound books to sound books.
LEMMA MoveToKeeps ==
    ASSUME NEW w, Inv(w, w.eto.machine.state), NEW m, Reaches(w.eto.machine, m),
           NEW v, v = MoveTo(w, m), v.ok
    PROVE  /\ Inv(v, m.state) /\ v.eto.machine = m /\ MovedOn(w, v) /\ w.ok
<1>1. PICK u : u = WithMachine(w, m)
  OBVIOUS
<1>2. PICK s : s = w.eto.machine.state
  OBVIOUS
<1>3. Shaped(w) /\ s \in 0 .. 6 /\ m.state \in 0 .. 6 /\ MachineOK(m)
  BY <1>2, OfferingTypes, MachineTypes DEF Inv, Typed, Shaped, Reaches, MachineOK
<1>4. /\ Inv(u, s) /\ MovedOn(w, u) /\ u.eto.machine = m
  BY <1>1, <1>2, <1>3, WithMachineKeeps, WithMachineMovesOn
<1>5. u.ok = w.ok
  BY <1>1, <1>3, WithMachineSucceeds
<1>6. \/ s = m.state /\ v = u
      \/ s <= m.state /\ m.state <= 2 /\ v = u
      \/ s <= 2 /\ m.state = 3 /\ v = OnSigningTransition(u)
      \/ s <= 3 /\ m.state = 6 /\ v = OnRefundTransition(u)
      \/ s <= 2 /\ m.state = 6 /\ v = OnRefundTransition(OnSigningTransition(u))
      \/ s = 3 /\ m.state = 4 /\ v = OnClaimTransition(u)
      \/ s = 4 /\ m.state = 5 /\ v = OnPayoutTransition(u)
  BY <1>1, <1>2, <1>3, MoveToIs
<1> SUFFICES Inv(v, m.state) /\ PaidOut(u, v) /\ u.ok
  BY <1>4, <1>5, PaidOutMovesOn, MovedOnTwice
<1>p. PaidOut(u, u)
  BY DEF PaidOut, SameBook
<1>7. CASE s = m.state /\ v = u
  BY <1>4, <1>7, <1>p
<1>8. CASE s <= m.state /\ m.state <= 2 /\ v = u
  <2>1. s \in 0 .. 2 /\ m.state \in s .. 2
    BY <1>3, <1>8
  <2> QED
    BY <1>4, <1>8, <1>p, <2>1, StillOpen
<1>9. CASE s <= 2 /\ m.state = 3 /\ v = OnSigningTransition(u)
  <2>1. s \in 0 .. 2
    BY <1>3, <1>9
  <2> QED
    BY <1>4, <1>9, <2>1, SigningEffect
<1>10. CASE s <= 3 /\ m.state = 6 /\ v = OnRefundTransition(u)
  <2>1. s \in 0 .. 3
    BY <1>3, <1>10
  <2>2. Inv(v, 6) /\ PaidOut(u, v)
    BY <1>4, <1>10, <2>1, RefundEffect
  <2>3. v.ok = u.ok
    BY <1>4, <1>10, <2>1, RefundEffect
  <2> QED
    BY <1>10, <2>2, <2>3
<1>11. CASE s <= 2 /\ m.state = 6 /\ v = OnRefundTransition(OnSigningTransition(u))
  <2>1. PICK x : x = OnSigningTransition(u)
    OBVIOUS
  <2>2. s \in 0 .. 2 /\ v = OnRefundTransition(x)
    BY <1>3, <1>11, <2>1
  <2>3. Shaped(u)
    BY <1>4, OfferingTypes DEF Inv, Typed, Shaped
  <2>4. Shaped(x)
    BY <2>1, <2>3, SigningIsLater DEF Later
  <2>5. x.ok
    BY <2>2, <2>4, RefundIsLater DEF Later
  <2>6. Inv(x, 3) /\ PaidOut(u, x) /\ u.ok
    BY <1>4, <2>1, <2>2, <2>5, SigningEffect
  <2>7. Inv(v, 6) /\ PaidOut(x, v)
    BY <2>2, <2>6, RefundEffect
  <2> QED
    BY <1>11, <2>6, <2>7, PaidOutTwice
<1>12. CASE s = 3 /\ m.state = 4 /\ v = OnClaimTransition(u)
  BY <1>4, <1>12, ClaimEffect
<1>13. CASE s = 4 /\ m.state = 5 /\ v = OnPayoutTransition(u)
  BY <1>4, <1>13, PayoutEffect
<1> QED
  BY <1>6, <1>7, <1>8, <1>9, <1>10, <1>11, <1>12, <1>13

\* The shape is kept in any case.
LEMMA MoveToShape ==
    ASSUME NEW w, Shaped(w), NEW m, Reaches(w.eto.machine, m)
    PROVE  /\ Shaped(MoveTo(w, m)) /\ MoveTo(w, m).eto.machine = m
           /\ MoveTo(w, m).ok => w.ok
           /\ m.state <= 2 => MoveTo(w, m) = WithMachine(w, m)
<1>1. PICK u, v, s : u = WithMachine(w, m) /\ v = MoveTo(w, m) /\ s = w.eto.machine.state
  OBVIOUS
<1>2. Shaped(u) /\ u.eto.machine = m
  <2>1. Shaped(u)
    BY <1>1, WithMachineIs
  <2>2. u.eto.machine = m
    BY <1>1, WithMachineMovesOn
  <2> QED
    BY <2>1, <2>2
<1>3. u.ok = w.ok
  BY <1>1, WithMachineSucceeds
<1>4. \/ v = u
      \/ m.state = 3 /\ v = OnSigningTransition(u)
      \/ m.state = 6 /\ v = OnRefundTransition(u)
      \/ m.state = 6 /\ v = OnRefundTransition(OnSigningTransition(u))
      \/ m.state = 4 /\ v = OnClaimTransition(u)
      \/ m.state = 5 /\ v = OnPayoutTransition(u)
  BY <1>1, MoveToIs
<1>5. Later(u, v)
  <2>1. CASE v = u
    BY <1>2, <2>1 DEF Later
  <2>2. CASE v = OnSigningTransition(u)
    BY <1>2, <2>2, SigningIsLater
  <2>3. CASE v = OnRefundTransition(u)
    BY <1>2, <2>3, RefundIsLater
  <2>4. CASE v = OnRefundTransition(OnSigningTransition(u))
    <3>1. PICK x : x = OnSigningTransition(u)
      OBVIOUS
    <3>2. Later(u, x)
      BY <1>2, <3>1, SigningIsLater
    <3>3. Later(x, v)
      BY <2>4, <3>1, <3>2, RefundIsLater DEF Later
    <3> QED
      BY <3>2, <3>3, LaterTwice
  <2>5. CASE v = OnClaimTransition(u)
    BY <1>2, <2>5, ClaimIsLater
  <2>6. CASE v = OnPayoutTransition(u)
    BY <1>2, <2>6, PayoutIsLater
  <2> QED
    BY <1>4, <2>1, <2>2, <2>3, <2>4, <2>5, <2>6
<1>6. m.state <= 2 => v = u
  BY <1>4
<1>7. Shaped(v) /\ v.eto.machine = m
  BY <1>2, <1>5 DEF Later
<1>8. v.ok => w.ok
  BY <1>3, <1>5 DEF Later
<1> QED
  BY <1>1, <1>6, <1>7, <1>8

\* The machine the timed transitions lead to, and the one the logic transitions lead to.
BeforeMachine(w) == SM!AdvanceTimed(SM!Begin(w.eto.machine), now, MinReached(w.eto))
AfterMachine(w) == SM!AdvanceLogic(w.eto.machine, now, MinReached(w.eto), CapExceeded(w.eto),
                                   Confirmed(w.eto))

\* A transaction begins without hops.
LEMMA BeginIs ==
    ASSUME NEW m, MachineOK(m)
    PROVE  MachineOK(SM!Begin(m)) /\ SM!Begin(m).state = m.state /\ SM!Begin(m).past = m.past
<1>1. m = [state |-> m.state, past |-> m.past, hops |-> m.hops] /\ m \in SM!Machines
  BY MachineTypes DEF MachineOK
<1>2. SM!Begin(m) = [state |-> m.state, past |-> m.past, hops |-> {}]
  BY <1>1 DEF SM!Begin
<1> QED
  BY <1>1, <1>2 DEF MachineOK, SM!Machines

\* The conditions of the machine are true or false.
LEMMA ConditionsAreBoolean ==
    ASSUME NEW e
    PROVE  MinReached(e) \in BOOLEAN /\ CapExceeded(e) \in BOOLEAN /\ Confirmed(e) \in BOOLEAN
BY DEF MinReached, CapExceeded, IsCapExceeded, Confirmed

\* The timed transitions follow the ways of a cascade, and Signing does not lead to Claim.
LEMMA BeforeReaches ==
    ASSUME NEW w, MachineOK(w.eto.machine), now \in Nat
    PROVE  /\ Reaches(SM!Begin(w.eto.machine), BeforeMachine(w))
           /\ MachineOK(BeforeMachine(w))
           /\ BeforeMachine(w).state >= w.eto.machine.state
           /\ w.eto.machine.state = 3 => BeforeMachine(w).state # 4
<1>1. PICK m, n : m = SM!Begin(w.eto.machine) /\ n = BeforeMachine(w)
  OBVIOUS
<1>2. MachineOK(m) /\ m.state = w.eto.machine.state
  BY <1>1, BeginIs
<1>3. Reaches(m, n) /\ (m.state = 3 => n.state # 4)
  BY <1>1, <1>2, ConditionsAreBoolean, AdvanceTimedReaches DEF BeforeMachine
<1>4. MachineOK(n) /\ n.state >= m.state
  BY <1>2, <1>3, MachineTypes DEF Reaches, MachineOK
<1> QED
  BY <1>1, <1>2, <1>3, <1>4

\* The last machine record counts.
LEMMA WithMachineTwice ==
    ASSUME NEW w, Shaped(w), NEW m, NEW n
    PROVE  WithMachine(WithMachine(w, m), n) = WithMachine(w, n)
<1>1. PICK u, v : u = WithMachine(w, m) /\ v = WithMachine(u, n)
  OBVIOUS
<1>2. w = AWorld(w.eto, w.bal, w.neu, w.equity, w.locks, w.ok)
  BY DEF Shaped, IsWorld
<1>3. u = AWorld([w.eto EXCEPT !.machine = m], w.bal, w.neu, w.equity, w.locks, w.ok)
  BY <1>1, <1>2 DEF WithMachine, AWorld
<1>4. v = AWorld([[w.eto EXCEPT !.machine = m] EXCEPT !.machine = n],
                 w.bal, w.neu, w.equity, w.locks, w.ok)
  BY <1>1, <1>3 DEF WithMachine, AWorld
<1>5. WithMachine(w, n) = AWorld([w.eto EXCEPT !.machine = n], w.bal, w.neu, w.equity, w.locks, w.ok)
  BY <1>2 DEF WithMachine, AWorld
<1>6. [[w.eto EXCEPT !.machine = m] EXCEPT !.machine = n] = [w.eto EXCEPT !.machine = n]
  BY DEF Shaped, IsOffering
<1> QED
  BY <1>1, <1>4, <1>5, <1>6

\* The timed transitions, in any world.
LEMMA BeforeShape ==
    ASSUME NEW w, Shaped(w), MachineOK(w.eto.machine), now \in Nat
    PROVE  /\ Shaped(Before(w)) /\ Before(w).eto.machine = BeforeMachine(w)
           /\ Before(w).ok => w.ok
           /\ BeforeMachine(w).state <= 2 => Before(w) = WithMachine(w, BeforeMachine(w))
<1>1. PICK m, n, u, v : /\ m = SM!Begin(w.eto.machine) /\ n = BeforeMachine(w)
                        /\ u = WithMachine(w, m) /\ v = Before(w)
  OBVIOUS
<1>2. Shaped(u)
  BY <1>1, WithMachineIs
<1>3. u.eto.machine = m
  BY <1>1, WithMachineMovesOn
<1>4. u.ok = w.ok
  BY <1>1, WithMachineSucceeds
<1>5. v = MoveTo(u, n)
  BY <1>1 DEF Before, WithMachine, BeforeMachine
<1>6. Reaches(m, n)
  BY <1>1, BeforeReaches
<1>7. Shaped(v) /\ v.eto.machine = n
  BY <1>2, <1>3, <1>5, <1>6, MoveToShape
<1>8. v.ok => u.ok
  BY <1>2, <1>3, <1>5, <1>6, MoveToShape
<1>9. n.state <= 2 => v = WithMachine(u, n)
  BY <1>2, <1>3, <1>5, <1>6, MoveToShape
<1>10. WithMachine(u, n) = WithMachine(w, n)
  BY <1>1, WithMachineTwice
<1> QED
  BY <1>1, <1>4, <1>7, <1>8, <1>9, <1>10

\* The timed transitions keep the books sound.
LEMMA BeforeKeeps ==
    ASSUME NEW w, Inv(w, w.eto.machine.state), now \in Nat, NEW v, v = Before(w), v.ok
    PROVE  /\ Inv(v, v.eto.machine.state) /\ v.eto.machine = BeforeMachine(w)
           /\ MovedOn(w, v) /\ w.ok
<1>1. PICK m, n, u, s : /\ m = SM!Begin(w.eto.machine) /\ n = BeforeMachine(w)
                        /\ u = WithMachine(w, m) /\ s = w.eto.machine.state
  OBVIOUS
<1>0. Shaped(w) /\ MachineOK(w.eto.machine)
  BY OfferingTypes DEF Inv, Typed, Shaped
<1>2. MachineOK(m) /\ m.state = s
  BY <1>0, <1>1, BeginIs
<1>3. Inv(u, s)
  BY <1>1, <1>2, WithMachineKeeps
<1>4. u.eto.machine = m /\ MovedOn(w, u)
  BY <1>0, <1>1, WithMachineMovesOn
<1>5. u.ok = w.ok
  BY <1>0, <1>1, WithMachineSucceeds
<1>6. v = MoveTo(u, n)
  BY <1>1 DEF Before, WithMachine, BeforeMachine
<1>7. Reaches(m, n)
  BY <1>0, <1>1, BeforeReaches
<1>8. Inv(v, n.state) /\ v.eto.machine = n /\ MovedOn(u, v) /\ u.ok
  BY <1>2, <1>3, <1>4, <1>6, <1>7, MoveToKeeps
<1> QED
  BY <1>1, <1>4, <1>5, <1>8, MovedOnTwice

\* ... and so do the logic transitions.
LEMMA AfterReaches ==
    ASSUME NEW w, MachineOK(w.eto.machine), now \in Nat,
           Confirmed(w.eto) => w.eto.machine.state >= 3
    PROVE  /\ Reaches(w.eto.machine, AfterMachine(w))
           /\ w.eto.machine.state >= 3 =>
                 AfterMachine(w).state = IF w.eto.machine.state = 3 /\ Confirmed(w.eto)
                                         THEN 4 ELSE w.eto.machine.state
           /\ AfterMachine(w).state = 3 => ~Confirmed(w.eto)
           /\ MachineOK(AfterMachine(w)) /\ AfterMachine(w).state >= w.eto.machine.state
<1>1. PICK m, n : m = w.eto.machine /\ n = AfterMachine(w)
  OBVIOUS
<1>2. PICK r, x, k \in BOOLEAN : /\ r = MinReached(w.eto) /\ x = CapExceeded(w.eto)
                                 /\ k = Confirmed(w.eto)
  BY ConditionsAreBoolean
<1>3. n = SM!AdvanceLogic(m, now, r, x, k)
  BY <1>1, <1>2 DEF AfterMachine
<1>4. k => m.state >= 3
  BY <1>1, <1>2
<1>5. Reaches(m, n) /\ (m.state >= 3 => n.state = IF m.state = 3 /\ k THEN 4 ELSE m.state)
  BY <1>1, <1>3, <1>4, AdvanceLogicReaches
<1>6. MachineOK(n) /\ n.state >= m.state
  BY <1>5, MachineTypes DEF Reaches, MachineOK
<1>7. n.state = 3 => ~k
  BY <1>4, <1>5
<1> QED
  BY <1>1, <1>2, <1>5, <1>6, <1>7

\* A transaction that succeeds in the end had not failed before.
LEMMA AfterShape ==
    ASSUME NEW w, Shaped(w), MachineOK(w.eto.machine), now \in Nat,
           Confirmed(w.eto) => w.eto.machine.state >= 3, After(w).ok
    PROVE  w.ok
<1>1. After(w) = MoveTo(w, AfterMachine(w))
  BY DEF After, AfterMachine
<1>2. Reaches(w.eto.machine, AfterMachine(w))
  BY AfterReaches
<1> QED
  BY <1>1, <1>2, MoveToShape

\* The logic transitions keep the books sound and leave no confirmed offering in Signing.
LEMMA AfterKeeps ==
    ASSUME NEW w, Inv(w, w.eto.machine.state), now \in Nat, NEW v, v = After(w), v.ok
    PROVE  /\ Inv(v, v.eto.machine.state) /\ v.eto.machine = AfterMachine(w)
           /\ MovedOn(w, v) /\ w.ok
           /\ v.eto.machine.state = 3 => ~Confirmed(v.eto)
<1>1. PICK n : n = AfterMachine(w)
  OBVIOUS
<1>2. MachineOK(w.eto.machine) /\ (Confirmed(w.eto) => w.eto.machine.state >= 3)
  BY DEF Inv, Typed, AgreementOK
<1>3. Reaches(w.eto.machine, n) /\ (n.state = 3 => ~Confirmed(w.eto))
  BY <1>1, <1>2, AfterReaches
<1>4. v = MoveTo(w, n)
  BY <1>1 DEF After, AfterMachine
<1>5. Inv(v, n.state) /\ v.eto.machine = n /\ MovedOn(w, v) /\ w.ok
  BY <1>3, <1>4, MoveToKeeps
<1> QED
  BY <1>1, <1>3, <1>5 DEF MovedOn, Confirmed

-----------------------------------------------------------------------------
(***************************************************************************)
(* The numbers of a purchase.                                              *)
(***************************************************************************)
\* Rounded quotients, ...
LEMMA DivRoundIsNatural ==
    ASSUME NEW n \in Nat, NEW d \in Nat \ {0}
    PROVE  DivRound(n, d) \in Nat
<1>1. d \div 2 \in Nat
  OBVIOUS
<1>2. n + (d \div 2) \in Nat
  BY <1>1
<1> QED
  BY <1>2, QuotientFacts DEF DivRound

\* ... proportions, ...
LEMMA ProportionIsNatural ==
    ASSUME NEW n \in Nat, NEW p \in Nat, NEW d \in Nat \ {0}
    PROVE  Proportion(n, p, d) \in Nat
BY DivRoundIsNatural DEF Proportion

\* ... fractions, ...
LEMMA FractionIsNatural ==
    ASSUME NEW n \in Nat, NEW p \in Nat
    PROVE  DecimalFraction(n, p) \in Nat
BY ProportionIsNatural, QAssumption DEF DecimalFraction

\* ... the EUR equivalent of an amount, ...
LEMMA EquivalentIsNatural ==
    ASSUME NEW c, NEW amount \in Nat, NEW rate \in Nat
    PROVE  EurEquivalent(c, amount, rate) \in Nat
BY FractionIsNatural DEF EurEquivalent

\* ... prices ...
LEMMA PriceIsNatural ==
    ASSUME NEW frac \in Nat
    PROVE  CalculatePriceFraction(frac) \in Nat
BY FractionIsNatural, TokenTermsAssumption DEF CalculatePriceFraction

\* ... and the tokens bought are natural numbers.
LEMMA TokensAreNatural ==
    ASSUME NEW e \in Nat, NEW price \in Nat, price > 0
    PROVE  TokensFor(e, price) \in Nat
<1>1. e * EQUITY_TOKEN_POWER \in Nat
  BY TokenTermsAssumption
<1> QED
  BY <1>1, QuotientFacts DEF TokensFor

\* Nothing is sold for nothing outside the fixed slots.
LEMMA PricesArePositive ==
    /\ FULL_TOKEN_PRICE_FRACTION \in Nat /\ FULL_TOKEN_PRICE_FRACTION > 0
    /\ CalculatePriceFraction(Q - WHITELIST_DISCOUNT_FRAC) \in Nat
    /\ CalculatePriceFraction(Q - WHITELIST_DISCOUNT_FRAC) > 0
<1>1. Q - WHITELIST_DISCOUNT_FRAC \in Nat /\ Q - PUBLIC_DISCOUNT_FRAC \in Nat
  BY TermsAssumption, QAssumption
<1> QED
  BY <1>1, PriceIsNatural, TermsAssumption DEF FULL_TOKEN_PRICE_FRACTION

\* The tokens of a purchase: those of the slot are a part, and nothing buys none.
LEMMA ContributionIs ==
    ASSUME NEW wl \in WhitelistTickets, NEW existing \in Nat, NEW new \in Nat,
           NEW discounts \in BOOLEAN, discounts => SlotPriced(wl, existing, new),
           NEW k, k = CalculateContribution(wl, existing, new, discounts)
    PROVE  /\ k.tokens \in Nat /\ k.fixedTokens \in Nat /\ k.fixedTokens <= k.tokens
           /\ new = 0 => k.tokens = 0
<1> DEFINE discounted == IF discounts THEN DiscountedAmount(wl, existing, new) ELSE 0
           remaining == new - discounted
           fixed == IF discounted > 0
                    THEN TokensFor(discounted, CalculatePriceFraction(wl.fullTokenPriceFrac))
                    ELSE 0
           curve == IF discounts /\ WHITELIST_DISCOUNT_FRAC > 0
                    THEN TokensFor(remaining, CalculatePriceFraction(Q - WHITELIST_DISCOUNT_FRAC))
                    ELSE CalculateTokenAmount(remaining)
<1>1. wl.discountAmountEurUlps \in Nat /\ wl.fullTokenPriceFrac \in Nat
  BY DEF WhitelistTickets
<1>2. DiscountedAmount(wl, existing, new) \in 0 .. new
  BY <1>1 DEF DiscountedAmount, Least
<1>3. discounted \in 0 .. new /\ remaining \in 0 .. new
  BY <1>2
<1>4. fixed \in Nat /\ (new = 0 => fixed = 0)
  <2>1. CASE discounted > 0
    <3>1. CalculatePriceFraction(wl.fullTokenPriceFrac) > 0
      BY <2>1 DEF SlotPriced
    <3>2. CalculatePriceFraction(wl.fullTokenPriceFrac) \in Nat
      BY <1>1, PriceIsNatural
    <3> HIDE DEF discounted
    <3>3. TokensFor(discounted, CalculatePriceFraction(wl.fullTokenPriceFrac)) \in Nat
      BY <1>3, <3>1, <3>2, TokensAreNatural
    <3> QED
      BY <1>3, <2>1, <3>3
  <2>2. CASE ~ discounted > 0
    BY <2>2
  <2> QED
    BY <2>1, <2>2
<1>5. curve \in Nat
  <2> HIDE DEF remaining
  <2>1. TokensFor(remaining, CalculatePriceFraction(Q - WHITELIST_DISCOUNT_FRAC)) \in Nat
    BY <1>3, PricesArePositive, TokensAreNatural
  <2>2. CalculateTokenAmount(remaining) \in Nat
    BY <1>3, PricesArePositive, TokensAreNatural DEF CalculateTokenAmount
  <2> QED
    BY <2>1, <2>2
<1>6. k.tokens = fixed + (IF remaining > 0 THEN curve ELSE 0) /\ k.fixedTokens = fixed
  BY DEF CalculateContribution
<1> HIDE DEF discounted, remaining, fixed, curve
<1> QED
  BY <1>3, <1>4, <1>5, <1>6

\* The rounding of the rewards is in the offering's favour.
LEMMA RewardsFit ==
    ASSUME NEW n \in Nat, NEW r \in Nat
    PROVE  /\ RewardOf(r) \in Nat
           /\ (n + r) - PlatformNmk(n + r) >= n - PlatformNmk(n) + RewardOf(r)
BY DEF RewardOf, InvestorNmk, PlatformNmk, PLATFORM_NEUMARK_SHARE

-----------------------------------------------------------------------------
(***************************************************************************)
(* What tokenFallback does to the record.                                  *)
(***************************************************************************)
RewardIn(viaLock, issued) == IF viaLock THEN 0 ELSE issued

Quoted(u, i, c, amount, rate) ==
    CalculateContribution(whitelist[i], u.eto.tickets[i].equivEurUlps,
                          EurEquivalent(c, amount, rate), StateOf(u) = SM!Whitelist)

Bought(u, i, viaLock, c, amount, rate, issued) ==
    [currency |-> c, amount |-> amount, equivEurUlps |-> EurEquivalent(c, amount, rate),
     tokens |-> Quoted(u, i, c, amount, rate).tokens,
     fixedTokens |-> Quoted(u, i, c, amount, rate).fixedTokens,
     viaLock |-> viaLock, rewardNmk |-> RewardOf(RewardIn(viaLock, issued))]

Booked(e, i, p) ==
    [UpdateTotalInvestment(e, p, IsFirstInvestment(e.tickets[i])) EXCEPT
        !.tickets[i] = UpdateInvestorTicket(@, p)]

Accepted(u, i, viaLock, c, amount, rate) ==
    LET discounts == StateOf(u) = SM!Whitelist
        equiv == EurEquivalent(c, amount, rate)
        k == Quoted(u, i, c, amount, rate)
    IN /\ StateOf(u) \in {SM!Whitelist, SM!Public}
       /\ discounts => SlotPriced(whitelist[i], u.eto.tickets[i].equivEurUlps, equiv)
       /\ k.tokens >= EQUITY_TOKEN_POWER
       /\ ~IsCapExceeded(Totals(u.eto), discounts, k.tokens, k.fixedTokens, equiv)

\* v is the world u in which i bought p under a condition, and reward was issued.
Sold(u, v, reward, i, p, accepted) ==
    /\ IsWorld(v) /\ v.bal = u.bal /\ v.equity = u.equity /\ v.locks = u.locks
    /\ v.neu = [u.neu EXCEPT !["eto"] = @ + reward]
    /\ v.eto = Booked(u.eto, i, p)
    /\ v.ok => u.ok /\ accepted

\* tokenFallback books the purchase, or the transaction fails.
LEMMA TokenFallbackIs ==
    ASSUME NEW u, Shaped(u), NEW i, NEW viaLock, NEW c, NEW amount, NEW rate, NEW issued,
           NEW v, v = TokenFallback(u, i, viaLock, c, amount, rate, issued)
    PROVE  Sold(u, v, RewardIn(viaLock, issued), i, Bought(u, i, viaLock, c, amount, rate, issued),
                Accepted(u, i, viaLock, c, amount, rate))
<1> DEFINE ticket == u.eto.tickets[i]
           discounts == StateOf(u) = SM!Whitelist
           equiv     == EurEquivalent(c, amount, rate)
           k         == CalculateContribution(whitelist[i], ticket.equivEurUlps, equiv, discounts)
           reward    == IF viaLock THEN 0 ELSE issued
           p == [currency |-> c, amount |-> amount, equivEurUlps |-> equiv, tokens |-> k.tokens,
                 fixedTokens |-> k.fixedTokens, viaLock |-> viaLock, rewardNmk |-> RewardOf(reward)]
           C == /\ StateOf(u) \in {SM!Whitelist, SM!Public}
                /\ i \in verified
                /\ discounts => SlotPriced(whitelist[i], ticket.equivEurUlps, equiv)
                /\ equiv + ticket.equivEurUlps >= k.minTicket
                /\ k.tokens >= EQUITY_TOKEN_POWER
                /\ equiv + ticket.equivEurUlps <= k.maxTicket
                /\ ~IsCapExceeded(Totals(u.eto), discounts, k.tokens, k.fixedTokens, equiv)
                /\ discounts => IsWhitelisted(whitelist[i]) \/ viaLock
                /\ RewardFits(reward)
           r == Require(u, C)
           f == [UpdateTotalInvestment(u.eto, p, IsFirstInvestment(ticket)) EXCEPT
                              !.tickets[i] = UpdateInvestorTicket(@, p)]
           n == [u.neu EXCEPT !["eto"] = @ + reward]
<1>1. v = [r EXCEPT !.neu["eto"] = @ + reward, !.eto = f]
  BY DEF TokenFallback
<1>2. C => Accepted(u, i, viaLock, c, amount, rate)
  BY DEF Accepted, Quoted
<1>3. p = Bought(u, i, viaLock, c, amount, rate, issued)
  BY DEF Bought, Quoted, RewardIn
<1>4. reward = RewardIn(viaLock, issued)
  BY DEF RewardIn
<1>5. f = Booked(u.eto, i, p)
  BY DEF Booked
<1>6. PICK b \in BOOLEAN : b = C
  OBVIOUS
<1>7. r = AWorld(u.eto, u.bal, u.neu, u.equity, u.locks, u.ok /\ C)
  <2> HIDE DEF C
  <2> QED
    BY DEF Shaped, IsWorld, AWorld, Require
<1> HIDE DEF C, r, p, reward, ticket
<1>8. v = AWorld(f, u.bal, n, u.equity, u.locks, u.ok /\ C)
  <2>1. /\ r.eto = u.eto /\ r.bal = u.bal /\ r.neu = u.neu /\ r.equity = u.equity /\ r.locks = u.locks
        /\ IsWorld(r)
    BY ONLY <1>7, WorldMade
  <2>2. r.ok = (u.ok /\ C)
    BY ONLY <1>7 DEF AWorld
  <2>3. v = AWorld(f, r.bal, [r.neu EXCEPT !["eto"] = @ + reward], r.equity, r.locks, r.ok)
    <3> HIDE DEF f
    <3> QED
      BY ONLY <1>1, <2>1 DEF AWorld, IsWorld
  <2> QED
    BY ONLY <2>1, <2>2, <2>3 DEF n
<1> HIDE DEF f, n
<1>9. IsWorld(v) /\ v.eto = f /\ v.bal = u.bal /\ v.neu = n /\ v.equity = u.equity /\ v.locks = u.locks
  BY ONLY <1>8, WorldMade
<1>10. v.ok = (u.ok /\ C)
  BY ONLY <1>8 DEF AWorld
<1>11. Sold(u, v, reward, i, p, Accepted(u, i, viaLock, c, amount, rate))
  BY <1>2, <1>5, <1>9, <1>10 DEF n, Sold
<1> QED
  BY <1>3, <1>4, <1>11

Purchase(c, amount, equiv, tokens, fixed, viaLock, reward) ==
    [currency |-> c, amount |-> amount, equivEurUlps |-> equiv, tokens |-> tokens,
     fixedTokens |-> fixed, viaLock |-> viaLock, rewardNmk |-> reward]

\* t has become v, and e has become f.
TicketGrew(t, v, c, amount, equiv, tokens, viaLock, reward) ==
    /\ v.equivEurUlps = t.equivEurUlps + equiv
    /\ v.rewardNmkUlps = t.rewardNmkUlps + reward
    /\ v.equityTokenAmount = t.equityTokenAmount + tokens
    /\ v.amount[c] = t.amount[c] + amount
    /\ \A d \in Currencies \ {c} : v.amount[d] = t.amount[d]
    /\ v.settled = t.settled
    /\ v.usedLockedAccount = (t.usedLockedAccount \/ viaLock)

BookGrew(e, f, i, p) ==
    /\ f.machine = e.machine /\ f.agreements = e.agreements
    /\ f.tickets = [e.tickets EXCEPT ![i] = UpdateInvestorTicket(e.tickets[i], p)]
    /\ f.totalTokenAmount = e.totalTokenAmount + p.tokens
    /\ f.totalFixedSlotsTokenAmount = e.totalFixedSlotsTokenAmount + p.fixedTokens
    /\ f.totalInvestors = e.totalInvestors + (IF IsFirstInvestment(e.tickets[i]) THEN 1 ELSE 0)
    /\ f.totalEquivEurUlps = e.totalEquivEurUlps + p.equivEurUlps
    /\ f.additionalContribution[p.currency] = e.additionalContribution[p.currency] + p.amount
    /\ \A d \in Currencies \ {p.currency} : f.additionalContribution[d] = e.additionalContribution[d]
    /\ f.platformFee = e.platformFee /\ f.newShares = e.newShares
    /\ f.tokenParticipationFeeAmount = e.tokenParticipationFeeAmount
    /\ f.signedUrl = e.signedUrl /\ f.nomineeSignedUrl = e.nomineeSignedUrl

\* The ticket of an investor after a purchase.
LEMMA TicketAfter ==
    ASSUME NEW t, t \in Tickets, NEW c, c \in Currencies, NEW amount, amount \in Nat,
           NEW equiv, equiv \in Nat, NEW tokens, tokens \in Nat, NEW fixed, fixed \in Nat,
           NEW viaLock, viaLock \in BOOLEAN, NEW reward, reward \in Nat,
           NEW v, v = UpdateInvestorTicket(t, Purchase(c, amount, equiv, tokens, fixed, viaLock, reward))
    PROVE  v \in Tickets /\ TicketGrew(t, v, c, amount, equiv, tokens, viaLock, reward)
<1> DEFINE A == [t.amount EXCEPT ![c] = @ + amount]
<1>1. /\ t.equivEurUlps \in Nat /\ t.rewardNmkUlps \in Nat /\ t.equityTokenAmount \in Nat
      /\ t.amount \in [Currencies -> Nat]
      /\ t.usedLockedAccount \in BOOLEAN /\ t.settled \in BOOLEAN
      /\ t = [equivEurUlps |-> t.equivEurUlps, rewardNmkUlps |-> t.rewardNmkUlps,
              equityTokenAmount |-> t.equityTokenAmount, amount |-> t.amount,
              usedLockedAccount |-> t.usedLockedAccount, settled |-> t.settled]
  BY TicketTypes
<1>2. /\ A \in [Currencies -> Nat] /\ A[c] = t.amount[c] + amount
      /\ \A d \in Currencies \ {c} : A[d] = t.amount[d]
  BY <1>1
<1>3. v = [equivEurUlps |-> t.equivEurUlps + equiv, rewardNmkUlps |-> t.rewardNmkUlps + reward,
           equityTokenAmount |-> t.equityTokenAmount + tokens, amount |-> A,
           usedLockedAccount |-> (t.usedLockedAccount \/ viaLock), settled |-> t.settled]
  BY <1>1 DEF UpdateInvestorTicket, Purchase
<1> HIDE DEF A
<1>4. PICK k \in BOOLEAN : k = (t.usedLockedAccount \/ viaLock)
  BY <1>1
<1>5. v = [equivEurUlps |-> t.equivEurUlps + equiv, rewardNmkUlps |-> t.rewardNmkUlps + reward,
           equityTokenAmount |-> t.equityTokenAmount + tokens, amount |-> A,
           usedLockedAccount |-> k, settled |-> t.settled]
  BY <1>3, <1>4
<1>6. v \in Tickets
  BY <1>1, <1>2, <1>5 DEF Tickets
<1>7. /\ v.equivEurUlps = t.equivEurUlps + equiv /\ v.rewardNmkUlps = t.rewardNmkUlps + reward
      /\ v.equityTokenAmount = t.equityTokenAmount + tokens /\ v.amount = A
      /\ v.settled = t.settled /\ v.usedLockedAccount = k
  BY <1>5
<1> QED
  BY <1>2, <1>4, <1>6, <1>7 DEF TicketGrew

\* The offering after a purchase.
LEMMA BookedIs ==
    ASSUME NEW e, e \in Offerings, NEW i, i \in Investors, NEW c, c \in Currencies,
           NEW amount, amount \in Nat, NEW equiv, equiv \in Nat, NEW tokens, tokens \in Nat,
           NEW fixed, fixed \in Nat, NEW viaLock, viaLock \in BOOLEAN, NEW reward, reward \in Nat,
           NEW f, f = Booked(e, i, Purchase(c, amount, equiv, tokens, fixed, viaLock, reward))
    PROVE  f \in Offerings /\ BookGrew(e, f, i, Purchase(c, amount, equiv, tokens, fixed, viaLock, reward))
<1> DEFINE p == Purchase(c, amount, equiv, tokens, fixed, viaLock, reward)
           first == IsFirstInvestment(e.tickets[i])
           g == UpdateTotalInvestment(e, p, first)
           A == [e.additionalContribution EXCEPT ![c] = @ + amount]
           x == UpdateInvestorTicket(e.tickets[i], p)
           T == [e.tickets EXCEPT ![i] = x]
           n == IF first THEN e.totalInvestors + 1 ELSE e.totalInvestors
<1>1. /\ IsOffering(e)
      /\ e.machine \in SM!Machines /\ e.tickets \in [Investors -> Tickets]
      /\ e.agreements \in Nat /\ e.totalEquivEurUlps \in Nat /\ e.totalTokenAmount \in Nat
      /\ e.totalFixedSlotsTokenAmount \in Nat /\ e.totalInvestors \in Nat
      /\ e.additionalContribution \in [Currencies -> Nat]
      /\ e.platformFee \in [Currencies -> Nat] /\ e.newShares \in Nat
      /\ e.tokenParticipationFeeAmount \in Nat /\ e.signedUrl \in Urls \cup {NoUrl}
      /\ e.nomineeSignedUrl \in Urls \cup {NoUrl, "unconfirmed"}
  BY OfferingTypes
<1>2. x \in Tickets
  <2>1. PICK t \in Tickets : t = e.tickets[i]
    BY <1>1
  <2>2. x = UpdateInvestorTicket(t, p)
    BY <2>1
  <2> HIDE DEF x
  <2> QED
    BY <2>2, TicketAfter
<1>3. /\ T \in [Investors -> Tickets] /\ T[i] = x /\ \A j \in Investors \ {i} : T[j] = e.tickets[j]
  <2> HIDE DEF x
  <2> QED
    BY <1>1, <1>2
<1>4. /\ A \in [Currencies -> Nat] /\ A[c] = e.additionalContribution[c] + amount
      /\ \A d \in Currencies \ {c} : A[d] = e.additionalContribution[d]
  BY <1>1
<1>5. n \in Nat /\ n = e.totalInvestors + (IF first THEN 1 ELSE 0)
  <2> HIDE DEF first
  <2> QED
    BY <1>1
<1>6. g = [machine |-> e.machine, tickets |-> e.tickets, agreements |-> e.agreements,
           totalEquivEurUlps |-> e.totalEquivEurUlps + equiv,
           totalTokenAmount |-> e.totalTokenAmount + tokens,
           totalFixedSlotsTokenAmount |-> e.totalFixedSlotsTokenAmount + fixed,
           totalInvestors |-> n, additionalContribution |-> A,
           platformFee |-> e.platformFee, newShares |-> e.newShares,
           tokenParticipationFeeAmount |-> e.tokenParticipationFeeAmount,
           signedUrl |-> e.signedUrl, nomineeSignedUrl |-> e.nomineeSignedUrl]
  <2>1. /\ p.currency = c /\ p.amount = amount /\ p.equivEurUlps = equiv /\ p.tokens = tokens
        /\ p.fixedTokens = fixed
    BY DEF Purchase
  <2>2. g = [e EXCEPT !.totalTokenAmount = @ + tokens,
                      !.totalFixedSlotsTokenAmount = @ + fixed,
                      !.totalInvestors = n,
                      !.totalEquivEurUlps = @ + equiv,
                      !.additionalContribution = A]
    <3> HIDE DEF first
    <3> QED
      BY <1>1, <2>1 DEF UpdateTotalInvestment, IsOffering
  <2> HIDE DEF g, A, n
  <2> QED
    BY <1>1, <2>2 DEF IsOffering
<1>7p. f = Booked(e, i, p)
  OBVIOUS
<1> HIDE DEF g, A, x, T, n, first, p
<1>7. f = [g EXCEPT !.tickets[i] = UpdateInvestorTicket(@, p)]
  BY <1>7p DEF Booked, g, first
<1>8. g.tickets = e.tickets
  BY <1>6
<1>9. f = [g EXCEPT !.tickets = T]
  BY ONLY <1>7, <1>8 DEF T, x
<1>10. f = [machine |-> e.machine, tickets |-> T, agreements |-> e.agreements,
            totalEquivEurUlps |-> e.totalEquivEurUlps + equiv,
            totalTokenAmount |-> e.totalTokenAmount + tokens,
            totalFixedSlotsTokenAmount |-> e.totalFixedSlotsTokenAmount + fixed,
            totalInvestors |-> n, additionalContribution |-> A,
            platformFee |-> e.platformFee, newShares |-> e.newShares,
            tokenParticipationFeeAmount |-> e.tokenParticipationFeeAmount,
            signedUrl |-> e.signedUrl, nomineeSignedUrl |-> e.nomineeSignedUrl]
  BY ONLY <1>6, <1>9
<1>11. /\ f.machine = e.machine /\ f.tickets = T /\ f.agreements = e.agreements
       /\ f.totalEquivEurUlps = e.totalEquivEurUlps + equiv
       /\ f.totalTokenAmount = e.totalTokenAmount + tokens
       /\ f.totalFixedSlotsTokenAmount = e.totalFixedSlotsTokenAmount + fixed
       /\ f.totalInvestors = n /\ f.additionalContribution = A
       /\ f.platformFee = e.platformFee /\ f.newShares = e.newShares
       /\ f.tokenParticipationFeeAmount = e.tokenParticipationFeeAmount
       /\ f.signedUrl = e.signedUrl /\ f.nomineeSignedUrl = e.nomineeSignedUrl
  BY ONLY <1>10
<1>12. IsOffering(f)
  BY <1>10, <1>11 DEF IsOffering
<1>13. f \in Offerings
  <2>1. /\ e.totalEquivEurUlps + equiv \in Nat /\ e.totalTokenAmount + tokens \in Nat
        /\ e.totalFixedSlotsTokenAmount + fixed \in Nat
    BY <1>1
  <2> QED
    BY <1>1, <1>3, <1>4, <1>5, <1>11, <1>12, <2>1, OfferingMade
<1>14. /\ p.currency = c /\ p.amount = amount /\ p.equivEurUlps = equiv /\ p.tokens = tokens
       /\ p.fixedTokens = fixed
  BY DEF p, Purchase
<1>15. BookGrew(e, f, i, p)
  <2>1. f.tickets = [e.tickets EXCEPT ![i] = UpdateInvestorTicket(e.tickets[i], p)]
    BY <1>11 DEF T, x
  <2>2. f.totalInvestors = e.totalInvestors + (IF IsFirstInvestment(e.tickets[i]) THEN 1 ELSE 0)
    BY <1>5, <1>11 DEF first
  <2> QED
    BY <1>4, <1>11, <1>14, <2>1, <2>2 DEF BookGrew
<1> QED
  BY <1>13, <1>15 DEF p

\* u is the world x in which the offering received an amount from i.
Received(x, u, i, viaLock, c, amount) ==
    /\ Shaped(u) /\ u.eto = x.eto /\ u.neu = x.neu /\ u.equity = x.equity
    /\ u.bal \in [Currencies -> [Investors \cup Parties -> Nat]]
    /\ u.locks \in [Currencies -> Locks]
    /\ \A d \in Currencies : SoundLock(u.locks[d]) /\ u.bal[d]["lock"] = u.locks[d].total
    /\ u.bal[c]["eto"] = x.bal[c]["eto"] + amount
    /\ \A d \in Currencies \ {c} : u.bal[d]["eto"] = x.bal[d]["eto"]
    /\ \A d \in Currencies : u.bal[d]["nominee"] = x.bal[d]["nominee"]
    /\ \A d \in Currencies, j \in Investors :
          u.locks[d].commitments["eto"][j].balance =
             x.locks[d].commitments["eto"][j].balance
                + (IF viaLock /\ d = c /\ j = i THEN amount ELSE 0)

\* The tickets T and what they add up to, and the same after the purchase p of i.
TicketsGrew(T, U, i, p) ==
    /\ T \in [Investors -> Tickets] /\ U \in [Investors -> Tickets]
    /\ \A j \in Investors \ {i} : U[j] = T[j]
    /\ IsOpen(U[i]) /\ (T[i].usedLockedAccount \/ p.viaLock => U[i].usedLockedAccount)
    /\ U[i].amount[p.currency] = T[i].amount[p.currency] + p.amount
    /\ \A d \in Currencies \ {p.currency} : U[i].amount[d] = T[i].amount[d]
    /\ TokensOf(U) = TokensOf(T) + p.tokens
    /\ EquivOf(U) = EquivOf(T) + p.equivEurUlps
    /\ OpenRewardsOf(U) = OpenRewardsOf(T) + p.rewardNmk
    /\ OpenAmountOf(U, p.currency) = OpenAmountOf(T, p.currency) + p.amount
    /\ \A d \in Currencies \ {p.currency} : OpenAmountOf(U, d) = OpenAmountOf(T, d)
    /\ Cardinality(Holders(U)) = Cardinality(Holders(T)) + (IF IsFirstInvestment(T[i]) THEN 1 ELSE 0)

\* The books of the offering after a purchase of tokens for equiv.
LEMMA BooksAfterPurchase ==
    ASSUME NEW e \in Offerings, NEW s \in {1, 2}, TicketsOK(e, s),
           NEW i \in Investors, NEW c \in Currencies, NEW amount \in Nat,
           NEW equiv \in Nat, equiv > 0, NEW tokens \in Nat, NEW fixed \in Nat,
           NEW viaLock \in BOOLEAN, NEW reward \in Nat,
           NEW f, f = Booked(e, i, Purchase(c, amount, equiv, tokens, fixed, viaLock, reward)),
           NEW T, T = e.tickets, NEW U, U = f.tickets
    PROVE  /\ TicketsOK(f, s)
           /\ TicketsGrew(T, U, i, Purchase(c, amount, equiv, tokens, fixed, viaLock, reward))
<1>1. T \in [Investors -> Tickets]
  BY OfferingTypes
<1>2. /\ f \in Offerings
      /\ U[i] = UpdateInvestorTicket(T[i],
                  Purchase(c, amount, equiv, tokens, fixed, viaLock, reward))
      /\ \A j \in Investors \ {i} : U[j] = T[j]
  <2>1. f \in Offerings /\ BookGrew(e, f, i, Purchase(c, amount, equiv, tokens, fixed, viaLock, reward))
    BY BookedIs
  <2>2. f.tickets = [e.tickets EXCEPT ![i] = UpdateInvestorTicket(e.tickets[i],
                                     Purchase(c, amount, equiv, tokens, fixed, viaLock, reward))]
    BY <2>1 DEF BookGrew
  <2> QED
    BY ONLY <1>1, <2>1, <2>2, i \in Investors, T = e.tickets, U = f.tickets
<1>3. U \in [Investors -> Tickets]
  BY <1>2, OfferingTypes
<1>4. PICK t \in Tickets, v \in Tickets : t = T[i] /\ v = U[i]
  BY <1>1, <1>3
<1>5. /\ v.equivEurUlps = t.equivEurUlps + equiv
      /\ v.rewardNmkUlps = t.rewardNmkUlps + reward
      /\ v.equityTokenAmount = t.equityTokenAmount + tokens
      /\ v.amount[c] = t.amount[c] + amount
      /\ \A d \in Currencies \ {c} : v.amount[d] = t.amount[d]
      /\ v.settled = t.settled
      /\ v.usedLockedAccount = (t.usedLockedAccount \/ viaLock)
  <2>1. v = UpdateInvestorTicket(t, Purchase(c, amount, equiv, tokens, fixed, viaLock, reward))
    BY <1>2, <1>4
  <2>2. TicketGrew(t, v, c, amount, equiv, tokens, viaLock, reward)
    BY <2>1, TicketAfter
  <2> QED
    BY <2>2 DEF TicketGrew
<1>6. /\ t.equivEurUlps \in Nat /\ t.rewardNmkUlps \in Nat /\ t.equityTokenAmount \in Nat
      /\ \A d \in Currencies : t.amount[d] \in Nat /\ t.settled \in BOOLEAN
  BY TicketTypes
<1>7. ~t.settled /\ (t.equivEurUlps = 0 => t = NoTicket)
  BY <1>4 DEF TicketsOK
<1>8. IsOpen(v)
  BY <1>5, <1>6, <1>7 DEF IsOpen
<1>9. \/ IsOpen(t) /\ t.equivEurUlps > 0
      \/ ~IsOpen(t) /\ t = NoTicket /\ t.equivEurUlps = 0
  BY <1>6, <1>7, NoTicketIs DEF IsOpen
<1>10. /\ (IF IsOpen(t) THEN t.rewardNmkUlps ELSE 0) = t.rewardNmkUlps
       /\ \A d \in Currencies : (IF IsOpen(t) THEN t.amount[d] ELSE 0) = t.amount[d]
  BY <1>9, NoTicketIs
<1>11. TokensOf(U) = TokensOf(T) + tokens
  <2>1. TokensOf(U) = TokensOf(T) - t.equityTokenAmount + v.equityTokenAmount /\ TokensOf(T) \in Nat
    BY <1>1, <1>2, <1>3, <1>4, TicketChange, TicketSums
  <2> QED
    BY <1>5, <1>6, <2>1
<1>12. EquivOf(U) = EquivOf(T) + equiv
  <2>1. EquivOf(U) = EquivOf(T) - t.equivEurUlps + v.equivEurUlps /\ EquivOf(T) \in Nat
    BY <1>1, <1>2, <1>3, <1>4, TicketChange, TicketSums
  <2> QED
    BY <1>5, <1>6, <2>1
<1>13. OpenRewardsOf(U) = OpenRewardsOf(T) + reward
  <2>1. /\ OpenRewardsOf(U) = OpenRewardsOf(T) - (IF IsOpen(t) THEN t.rewardNmkUlps ELSE 0)
                                             + (IF IsOpen(v) THEN v.rewardNmkUlps ELSE 0)
        /\ OpenRewardsOf(T) \in Nat
    BY <1>1, <1>2, <1>3, <1>4, TicketChange, TicketSums
  <2> QED
    BY <1>5, <1>6, <1>8, <1>10, <2>1
<1>14. ASSUME NEW d \in Currencies
       PROVE  OpenAmountOf(U, d) = OpenAmountOf(T, d) + (IF d = c THEN amount ELSE 0)
  <2>1. /\ OpenAmountOf(U, d) = OpenAmountOf(T, d) - (IF IsOpen(t) THEN t.amount[d] ELSE 0)
                                                   + (IF IsOpen(v) THEN v.amount[d] ELSE 0)
        /\ OpenAmountOf(T, d) \in Nat
    <3>1. OpenAmountOf(T, d) \in Nat
      BY <1>1, TicketSums
    <3>2. OpenAmountOf(U, d) = OpenAmountOf(T, d) - (IF IsOpen(T[i]) THEN T[i].amount[d] ELSE 0)
                                                  + (IF IsOpen(U[i]) THEN U[i].amount[d] ELSE 0)
      BY ONLY <1>1, <1>2, <1>3, i \in Investors, d \in Currencies, TicketChange
    <3> QED
      BY ONLY <1>4, <3>1, <3>2
  <2>2. OpenAmountOf(U, d) = OpenAmountOf(T, d) - t.amount[d] + v.amount[d] /\ t.amount[d] \in Nat
    BY <1>6, <1>8, <1>10, <2>1
  <2> QED
    BY <1>5, <2>1, <2>2
<1>15. OpenAmountOf(T, c) \in Nat /\ \A d \in Currencies : OpenAmountOf(T, d) \in Nat
  BY <1>1, TicketSums
<1>16. Cardinality(Holders(U)) = Cardinality(Holders(T)) + (IF IsFirstInvestment(T[i]) THEN 1 ELSE 0)
  <2>1. U[i] # NoTicket
    BY <1>4, <1>5, <1>6, NoTicketIs, SMT
  <2>2. IsFirstInvestment(T[i]) <=> T[i] = NoTicket
    BY <1>4, <1>9, NoTicketIs DEF IsFirstInvestment
  <2>3. /\ Cardinality(Holders(T)) \in Nat
        /\ Cardinality(Holders(U)) = IF T[i] = NoTicket THEN Cardinality(Holders(T)) + 1
                                     ELSE Cardinality(Holders(T))
    BY <1>1, <1>2, <1>3, <2>1, HolderCounted
  <2> QED
    BY <2>2, <2>3
<1>17. TicketsOK(f, s)
  <2> SUFFICES ASSUME NEW j \in Investors
               PROVE  /\ U[j].equivEurUlps = 0 => U[j] = NoTicket
                      /\ U[j].settled => s >= 4
    BY DEF TicketsOK
  <2>1. CASE j = i
    BY <1>4, <1>5, <1>6, <1>7, <2>1
  <2>2. CASE j # i
    BY <1>2, <2>2 DEF TicketsOK
  <2> QED
    BY <2>1, <2>2
<1>18. /\ OpenAmountOf(U, c) = OpenAmountOf(T, c) + amount
       /\ \A d \in Currencies \ {c} : OpenAmountOf(U, d) = OpenAmountOf(T, d)
  BY <1>14, <1>15
<1>19. PICK p : p = Purchase(c, amount, equiv, tokens, fixed, viaLock, reward)
  OBVIOUS
<1>20. /\ p.currency = c /\ p.amount = amount /\ p.equivEurUlps = equiv /\ p.tokens = tokens
       /\ p.rewardNmk = reward
  BY <1>19 DEF Purchase
<1>21. p.viaLock = viaLock
  BY <1>19 DEF Purchase
<1>22. /\ IsOpen(U[i])
       /\ U[i].amount[p.currency] = T[i].amount[p.currency] + p.amount
       /\ \A d \in Currencies \ {p.currency} : U[i].amount[d] = T[i].amount[d]
  BY <1>4, <1>5, <1>8, <1>20
<1>23. T[i].usedLockedAccount \/ p.viaLock => U[i].usedLockedAccount
  BY <1>4, <1>5, <1>21
<1>24. TicketsGrew(T, U, i, p)
  BY <1>1, <1>2, <1>3, <1>11, <1>12, <1>13, <1>16, <1>18, <1>20, <1>22, <1>23 DEF TicketsGrew
<1> QED
  BY <1>17, <1>19, <1>24

\* The totals of an offering that sells its tokens only grow.
Grown(e, f) ==
    /\ f.machine = e.machine /\ f.agreements = e.agreements
    /\ f.signedUrl = e.signedUrl /\ f.nomineeSignedUrl = e.nomineeSignedUrl
    /\ f.totalTokenAmount >= e.totalTokenAmount
    /\ f.totalEquivEurUlps >= e.totalEquivEurUlps
    /\ \A i \in Investors : IsOpen(e.tickets[i]) => IsOpen(f.tickets[i])

\* A sold ticket is within the caps.
LEMMA CapsHold ==
    ASSUME NEW e \in Offerings, NEW s \in {1, 2}, TotalsOK(e, s),
           NEW equiv \in Nat, NEW tokens \in Nat, NEW fixed \in Nat, fixed <= tokens,
           NEW p, p.tokens = tokens, p.fixedTokens = fixed, p.equivEurUlps = equiv,
           NEW i \in Investors, NEW f \in Offerings, BookGrew(e, f, i, p),
           TicketsGrew(e.tickets, f.tickets, i, p),
           ~IsCapExceeded(Totals(e), s = 1, tokens, fixed, equiv)
    PROVE  TotalsOK(f, s) /\ Grown(e, f)
<1>1. PICK n \in Nat, x \in Nat, q \in Nat, h \in Nat :
         n = e.totalTokenAmount /\ x = e.totalFixedSlotsTokenAmount /\ q = e.totalEquivEurUlps
         /\ h = e.totalInvestors
  BY OfferingTypes
<1>2. /\ f.totalTokenAmount = n + tokens /\ f.totalFixedSlotsTokenAmount = x + fixed
      /\ f.totalEquivEurUlps = q + equiv
      /\ f.totalInvestors = h + (IF IsFirstInvestment(e.tickets[i]) THEN 1 ELSE 0)
  BY <1>1 DEF BookGrew
<1>3. /\ n + tokens <= MAX_AVAILABLE_TOKENS
      /\ s = 1 => n + tokens - x - fixed <= MAX_AVAILABLE_TOKENS_IN_WHITELIST
      /\ MAX_INVESTMENT_AMOUNT_EUR_ULPS > 0 => equiv + q <= MAX_INVESTMENT_AMOUNT_EUR_ULPS
  <2>1. /\ Totals(e).tokens = n /\ Totals(e).fixedTokens = x /\ Totals(e).equivEurUlps = q
    BY <1>1 DEF Totals
  <2>2. /\ ~(Totals(e).tokens + tokens > MAX_AVAILABLE_TOKENS)
        /\ ~(s = 1 /\ Totals(e).tokens + tokens - Totals(e).fixedTokens - fixed
                         > MAX_AVAILABLE_TOKENS_IN_WHITELIST)
        /\ ~(MAX_INVESTMENT_AMOUNT_EUR_ULPS > 0
                /\ equiv + Totals(e).equivEurUlps > MAX_INVESTMENT_AMOUNT_EUR_ULPS)
    BY DEF IsCapExceeded
  <2>3. MAX_AVAILABLE_TOKENS \in Int /\ MAX_AVAILABLE_TOKENS_IN_WHITELIST \in Int
    BY AvailableTokens, TokenTermsAssumption DEF MAX_AVAILABLE_TOKENS_IN_WHITELIST, Least
  <2>4. MAX_INVESTMENT_AMOUNT_EUR_ULPS \in Nat
    BY TermsAssumption
  <2> QED
    BY <2>1, <2>2, <2>3, <2>4
<1>4. /\ n = TokensOf(e.tickets) /\ q = EquivOf(e.tickets) /\ h = Cardinality(Holders(e.tickets))
      /\ x <= n
  BY <1>1 DEF TotalsOK
<1>5. /\ TokensOf(f.tickets) = n + tokens /\ EquivOf(f.tickets) = q + equiv
      /\ Cardinality(Holders(f.tickets)) = h + (IF IsFirstInvestment(e.tickets[i]) THEN 1 ELSE 0)
  BY <1>4 DEF TicketsGrew
<1>6. x + fixed <= n + tokens /\ n + tokens - (x + fixed) = n + tokens - x - fixed
  BY <1>4
<1>7. TotalsOK(f, s)
  <2>1. q + equiv = equiv + q
    OBVIOUS
  <2> QED
    BY <1>2, <1>3, <1>5, <1>6, <2>1 DEF TotalsOK
<1>8. Grown(e, f)
  <2>1. n + tokens >= n /\ q + equiv >= q
    OBVIOUS
  <2>2. \A j \in Investors : IsOpen(e.tickets[j]) => IsOpen(f.tickets[j])
    BY DEF TicketsGrew
  <2>3. /\ f.totalTokenAmount >= e.totalTokenAmount /\ f.totalEquivEurUlps >= e.totalEquivEurUlps
    BY <1>1, <1>2, <2>1
  <2> QED
    BY <2>2, <2>3 DEF Grown, BookGrew
<1> QED
  BY <1>7, <1>8

\* What tokenFallback keeps of the invariant.
LEMMA PurchaseKeeps ==
    ASSUME NEW x, NEW s \in {1, 2}, Inv(x, s), x.eto.machine.state = s,
           NEW i \in Investors, NEW viaLock \in BOOLEAN, NEW c \in Currencies, NEW amount \in Nat,
           NEW rate \in Nat, NEW issued \in Nat, whitelist[i] \in WhitelistTickets,
           NEW u, Received(x, u, i, viaLock, c, amount),
           NEW v, v = TokenFallback(u, i, viaLock, c, amount, rate, issued), v.ok
    PROVE  Inv(v, s) /\ Grown(x.eto, v.eto)
<1> DEFINE e == x.eto
           f == v.eto
           equiv == EurEquivalent(c, amount, rate)
           k == Quoted(u, i, c, amount, rate)
           tokens == k.tokens
           fixed == k.fixedTokens
           income == RewardIn(viaLock, issued)
           reward == RewardOf(income)
           p == Purchase(c, amount, equiv, tokens, fixed, viaLock, reward)
<1>1. /\ Typed(x) /\ TicketsOK(e, s) /\ TotalsOK(e, s) /\ SharesOK(e, s) /\ MoneyOK(e, x.bal, s)
      /\ RewardsOK(e, x.neu, s) /\ EquityOK(e, x.equity, s) /\ AgreementOK(e, s)
      /\ PendingOK(e.tickets, x.locks)
  BY DEF Inv
<1>2. /\ e \in Offerings /\ MachineOK(e.machine)
      /\ x.neu \in [Investors \cup {"eto", "operator"} -> Nat]
      /\ x.equity \in [Investors \cup {"eto", "portfolio"} -> Nat]
      /\ x.bal \in [Currencies -> [Investors \cup Parties -> Nat]]
  BY <1>1 DEF Typed
<1>3. Shaped(u) /\ u.eto = e /\ u.neu = x.neu /\ u.equity = x.equity
  BY DEF Received
<1>4. /\ IsWorld(v) /\ v.bal = u.bal /\ v.equity = x.equity /\ v.locks = u.locks
      /\ v.neu = [x.neu EXCEPT !["eto"] = @ + income]
      /\ v.eto = Booked(e, i, Bought(u, i, viaLock, c, amount, rate, issued))
      /\ u.ok /\ Accepted(u, i, viaLock, c, amount, rate)
  <2>1. Sold(u, v, income, i, Bought(u, i, viaLock, c, amount, rate, issued),
             Accepted(u, i, viaLock, c, amount, rate))
    BY <1>3, TokenFallbackIs
  <2> QED
    BY <1>3, <2>1 DEF Sold
<1>5. Bought(u, i, viaLock, c, amount, rate, issued) = p
  BY DEF Bought, Purchase
<1>6. equiv \in Nat /\ income \in Nat /\ reward \in Nat
  <2>1. income \in Nat
    BY DEF RewardIn
  <2>2. equiv \in Nat
    BY EquivalentIsNatural
  <2> HIDE DEF income
  <2> QED
    BY <2>1, <2>2, RewardsFit
<1>7. e.tickets \in [Investors -> Tickets] /\ e.tickets[i].equivEurUlps \in Nat
  BY <1>2, OfferingTypes, TicketTypes
<1>8. tokens \in Nat /\ fixed \in Nat /\ fixed <= tokens /\ equiv > 0
  <2>1. PICK wl \in WhitelistTickets, d \in BOOLEAN, y \in Nat :
           wl = whitelist[i] /\ d = (StateOf(u) = SM!Whitelist) /\ y = e.tickets[i].equivEurUlps
    BY <1>7
  <2>2. k = CalculateContribution(wl, y, equiv, d)
    BY <1>3, <2>1 DEF Quoted
  <2>3. d => SlotPriced(wl, y, equiv)
    BY <1>3, <1>4, <2>1 DEF Accepted
  <2>4. k.tokens >= EQUITY_TOKEN_POWER
    BY <1>4 DEF Accepted
  <2>5. EQUITY_TOKEN_POWER \in Nat /\ EQUITY_TOKEN_POWER > 0
    BY TokenTermsAssumption
  <2> HIDE DEF equiv, k
  <2>6. /\ k.tokens \in Nat /\ k.fixedTokens \in Nat /\ k.fixedTokens <= k.tokens
        /\ equiv = 0 => k.tokens = 0
    BY <1>6, <2>2, <2>3, ContributionIs
  <2> QED
    BY <1>6, <2>4, <2>5, <2>6
<1>9. ~IsCapExceeded(Totals(e), s = 1, tokens, fixed, equiv)
  <2>1. StateOf(u) = s
    BY <1>3 DEF StateOf
  <2>2. ~IsCapExceeded(Totals(u.eto), StateOf(u) = SM!Whitelist, tokens, fixed, equiv)
    BY <1>4 DEF Accepted
  <2> QED
    BY <1>3, <2>1, <2>2, Phases
<1> HIDE DEF equiv, k, tokens, fixed, income, reward
<1>10. f = Booked(e, i, p)
  BY <1>4, <1>5
<1>10a. PICK n, a, b, r : n = equiv /\ a = tokens /\ b = fixed /\ r = reward
  OBVIOUS
<1>10b. /\ n \in Nat /\ a \in Nat /\ b \in Nat /\ r \in Nat /\ n > 0
        /\ f = Booked(e, i, Purchase(c, amount, n, a, b, viaLock, r))
  BY <1>6, <1>8, <1>10, <1>10a
<1>10c. PICK g, h, T, U : g = e /\ h = f /\ T = e.tickets /\ U = f.tickets
  OBVIOUS
<1>10d. h = Booked(g, i, Purchase(c, amount, n, a, b, viaLock, r))
  BY <1>10b, <1>10c
<1>10e. g \in Offerings /\ TicketsOK(g, s) /\ T = g.tickets /\ U = h.tickets
  BY <1>1, <1>2, <1>10c
<1>10f. h \in Offerings /\ BookGrew(g, h, i, Purchase(c, amount, n, a, b, viaLock, r))
  BY ONLY <1>10b, <1>10d, <1>10e, i \in Investors, c \in Currencies, amount \in Nat,
          viaLock \in BOOLEAN, BookedIs
<1>10g. TicketsOK(h, s) /\ TicketsGrew(T, U, i, Purchase(c, amount, n, a, b, viaLock, r))
  BY ONLY <1>10b, <1>10d, <1>10e, i \in Investors, c \in Currencies, amount \in Nat,
          viaLock \in BOOLEAN, s \in {1, 2}, BooksAfterPurchase
<1>11. f \in Offerings /\ BookGrew(e, f, i, p)
  BY <1>10a, <1>10c, <1>10f DEF p
<1>12. TicketsOK(f, s) /\ TicketsGrew(e.tickets, f.tickets, i, p)
  BY <1>10a, <1>10c, <1>10g DEF p
<1>13. /\ p.currency = c /\ p.amount = amount /\ p.equivEurUlps = equiv /\ p.tokens = tokens
       /\ p.fixedTokens = fixed /\ p.rewardNmk = reward
  BY DEF Purchase
<1>14. p.viaLock = viaLock
  BY DEF Purchase
<1> HIDE DEF p
<1>15. TotalsOK(f, s) /\ Grown(e, f)
  BY <1>1, <1>2, <1>6, <1>8, <1>9, <1>11, <1>12, <1>13, CapsHold
<1>16. Typed(v)
  <2>1. v.neu \in [Investors \cup {"eto", "operator"} -> Nat]
    BY <1>2, <1>4, <1>6
  <2>2. MachineOK(f.machine)
    BY <1>2, <1>11 DEF BookGrew
  <2>3. /\ u.bal \in [Currencies -> [Investors \cup Parties -> Nat]]
        /\ u.locks \in [Currencies -> Locks]
        /\ \A d \in Currencies : SoundLock(u.locks[d]) /\ u.bal[d]["lock"] = u.locks[d].total
    BY DEF Received
  <2>4. /\ v.bal \in [Currencies -> [Investors \cup Parties -> Nat]]
        /\ v.locks \in [Currencies -> Locks]
        /\ \A d \in Currencies : SoundLock(v.locks[d]) /\ v.bal[d]["lock"] = v.locks[d].total
    <3>1. v.bal = u.bal /\ v.locks = u.locks
      BY <1>4
    <3> QED
      BY ONLY <2>3, <3>1
  <2>5. IsWorld(v) /\ v.equity \in [Investors \cup {"eto", "portfolio"} -> Nat]
    BY <1>2, <1>4
  <2> QED
    BY <1>11, <2>1, <2>2, <2>4, <2>5 DEF Typed
<1>17. SharesOK(f, s)
  BY <1>1, <1>11 DEF SharesOK, BookGrew
<1>18. RewardsOK(f, v.neu, s)
  <2>1. PICK m \in Nat : m = x.neu["eto"]
    BY <1>2
  <2>2. v.neu["eto"] = m + income
    BY <1>2, <1>4, <2>1
  <2>3. m - PlatformNmk(m) >= OpenRewardsOf(e.tickets)
    BY <1>1, <2>1 DEF RewardsOK
  <2>4. OpenRewardsOf(f.tickets) = OpenRewardsOf(e.tickets) + reward
    BY <1>12, <1>13 DEF TicketsGrew
  <2>5. (m + income) - PlatformNmk(m + income) >= m - PlatformNmk(m) + reward
    BY <1>6, RewardsFit DEF reward
  <2>6. PICK q \in Nat : q = OpenRewardsOf(e.tickets)
    BY <1>7, TicketSums
  <2>7. PlatformNmk(m) \in Nat /\ PlatformNmk(m + income) \in Nat
    <3>1. m + income \in Nat
      BY <1>6
    <3> QED
      BY <3>1, PlatformNmkIs
  <2>8. (m + income) - PlatformNmk(m + income) >= q + reward
    BY <1>6, <2>3, <2>5, <2>6, <2>7
  <2> QED
    BY <2>2, <2>4, <2>6, <2>8 DEF RewardsOK
<1>19. EquityOK(f, v.equity, s)
  BY <1>1, <1>4 DEF EquityOK
<1>20. AgreementOK(f, s)
  BY <1>1, <1>11 DEF AgreementOK, BookGrew, Confirmed
<1>21. MoneyOK(f, v.bal, s)
  <2> SUFFICES ASSUME NEW d \in Currencies
               PROVE  /\ Held(v.bal, d) = 0
                      /\ v.bal[d]["eto"] = OpenAmountOf(f.tickets, d)
                      /\ f.additionalContribution[d] = OpenAmountOf(f.tickets, d)
    BY DEF MoneyOK
  <2>1. /\ Held(x.bal, d) = 0 /\ x.bal[d]["eto"] = OpenAmountOf(e.tickets, d)
        /\ e.additionalContribution[d] = OpenAmountOf(e.tickets, d)
    BY <1>1 DEF MoneyOK
  <2>2. Held(v.bal, d) = 0
    BY <1>4, <2>1 DEF Held, Received
  <2>3. CASE d = c
    <3>1. v.bal[d]["eto"] = x.bal[d]["eto"] + amount
      BY <1>4, <2>3 DEF Received
    <3>2. /\ OpenAmountOf(f.tickets, d) = OpenAmountOf(e.tickets, d) + amount
      BY <1>12, <1>13, <2>3 DEF TicketsGrew
    <3>3. f.additionalContribution[d] = e.additionalContribution[d] + amount
      BY <1>11, <1>13, <2>3 DEF BookGrew
    <3> QED
      BY <2>1, <2>2, <3>1, <3>2, <3>3
  <2>4. CASE d # c
    <3>1. v.bal[d]["eto"] = x.bal[d]["eto"]
      BY <1>4, <2>4 DEF Received
    <3>2. /\ OpenAmountOf(f.tickets, d) = OpenAmountOf(e.tickets, d)
      BY <1>12, <1>13, <2>4 DEF TicketsGrew
    <3>3. f.additionalContribution[d] = e.additionalContribution[d]
      BY <1>11, <1>13, <2>4 DEF BookGrew
    <3> QED
      BY <2>1, <2>2, <3>1, <3>2, <3>3
  <2> QED
    BY <2>3, <2>4
<1>22. PendingOK(f.tickets, v.locks)
  <2> SUFFICES ASSUME NEW j \in Investors, NEW d \in Currencies,
                      v.locks[d].commitments["eto"][j].balance > 0
               PROVE  /\ IsOpen(f.tickets[j]) /\ f.tickets[j].usedLockedAccount
                      /\ v.locks[d].commitments["eto"][j].balance <= f.tickets[j].amount[d]
    BY DEF PendingOK
  <2>1. PICK m : m = x.locks[d].commitments["eto"][j].balance
    OBVIOUS
  <2>2. m \in Nat
    BY <1>1, <2>1, LockTypes, PartyFacts DEF Typed
  <2>3. v.locks[d].commitments["eto"][j].balance = m + (IF viaLock /\ d = c /\ j = i THEN amount ELSE 0)
    BY <1>4, <2>1 DEF Received
  <2>4. m > 0 => /\ IsOpen(e.tickets[j]) /\ e.tickets[j].usedLockedAccount
                 /\ m <= e.tickets[j].amount[d]
    BY <1>1, <2>1 DEF PendingOK
  <2>5. e.tickets[j].amount[d] \in Nat
    BY <1>7, TicketTypes
  <2>6. CASE j # i
    BY <1>12, <2>2, <2>3, <2>4, <2>6 DEF TicketsGrew
  <2>7. CASE j = i
    <3>1. IsOpen(f.tickets[i])
      BY <1>12 DEF TicketsGrew
    <3>2. e.tickets[i].usedLockedAccount \/ viaLock => f.tickets[i].usedLockedAccount
      BY <1>12, <1>14 DEF TicketsGrew
    <3>3. f.tickets[i].usedLockedAccount
      BY <2>2, <2>3, <2>4, <2>7, <3>2
    <3>4. f.tickets[i].amount[d] = e.tickets[i].amount[d] + (IF d = c THEN amount ELSE 0)
      <4>1. CASE d = c
        BY <1>12, <1>13, <4>1 DEF TicketsGrew
      <4>2. CASE d # c
        BY <1>12, <1>13, <2>5, <2>7, <4>2 DEF TicketsGrew
      <4> QED
        BY <4>1, <4>2
    <3>5. m <= e.tickets[i].amount[d]
      BY <2>2, <2>4, <2>5, <2>7
    <3>6. v.locks[d].commitments["eto"][i].balance <= f.tickets[i].amount[d]
      BY <2>2, <2>3, <2>5, <2>7, <3>4, <3>5
    <3> QED
      BY <2>7, <3>1, <3>3, <3>6
  <2> QED
    BY <2>6, <2>7
<1> QED
  BY <1>12, <1>15, <1>16, <1>17, <1>18, <1>19, <1>20, <1>21, <1>22 DEF Inv

\* A purchase leaves machine and agreement of the offering alone.
LEMMA BookedShape ==
    ASSUME NEW e, IsOffering(e), NEW i, NEW p, NEW f, f = Booked(e, i, p)
    PROVE  /\ IsOffering(f) /\ f.machine = e.machine /\ f.nomineeSignedUrl = e.nomineeSignedUrl
           /\ f.signedUrl = e.signedUrl
<1> DEFINE first == IsFirstInvestment(e.tickets[i])
           g == UpdateTotalInvestment(e, p, first)
           A == [e.additionalContribution EXCEPT ![p.currency] = @ + p.amount]
           T == [g.tickets EXCEPT ![i] = UpdateInvestorTicket(@, p)]
           n == IF first THEN e.totalInvestors + 1 ELSE e.totalInvestors
<1>1. g = [machine |-> e.machine, tickets |-> e.tickets, agreements |-> e.agreements,
           totalEquivEurUlps |-> e.totalEquivEurUlps + p.equivEurUlps,
           totalTokenAmount |-> e.totalTokenAmount + p.tokens,
           totalFixedSlotsTokenAmount |-> e.totalFixedSlotsTokenAmount + p.fixedTokens,
           totalInvestors |-> n, additionalContribution |-> A,
           platformFee |-> e.platformFee, newShares |-> e.newShares,
           tokenParticipationFeeAmount |-> e.tokenParticipationFeeAmount,
           signedUrl |-> e.signedUrl, nomineeSignedUrl |-> e.nomineeSignedUrl]
  <2>1. g = [e EXCEPT !.totalTokenAmount = @ + p.tokens,
                      !.totalFixedSlotsTokenAmount = @ + p.fixedTokens,
                      !.totalInvestors = n,
                      !.totalEquivEurUlps = @ + p.equivEurUlps,
                      !.additionalContribution = A]
    <3> HIDE DEF first
    <3> QED
      BY DEF UpdateTotalInvestment, IsOffering
  <2> HIDE DEF g, A, n
  <2> QED
    BY <2>1 DEF IsOffering
<1>2. f = [g EXCEPT !.tickets = T]
  BY DEF Booked
<1> HIDE DEF g, A, T, n, first
<1>3. f = [machine |-> e.machine, tickets |-> T, agreements |-> e.agreements,
           totalEquivEurUlps |-> e.totalEquivEurUlps + p.equivEurUlps,
           totalTokenAmount |-> e.totalTokenAmount + p.tokens,
           totalFixedSlotsTokenAmount |-> e.totalFixedSlotsTokenAmount + p.fixedTokens,
           totalInvestors |-> n, additionalContribution |-> A,
           platformFee |-> e.platformFee, newShares |-> e.newShares,
           tokenParticipationFeeAmount |-> e.tokenParticipationFeeAmount,
           signedUrl |-> e.signedUrl, nomineeSignedUrl |-> e.nomineeSignedUrl]
  BY ONLY <1>1, <1>2
<1> QED
  BY ONLY <1>3 DEF IsOffering

-----------------------------------------------------------------------------
(***************************************************************************)
(* The invariant between transactions.                                     *)
(***************************************************************************)
Books == /\ Inv(World, eto.machine.state)
         /\ eto.machine.state = 3 => ~Confirmed(eto)

Sides == /\ whitelist \in [Investors -> WhitelistTickets]
         /\ \A i \in Investors : ValidWhitelistTicket(whitelist[i])
         /\ verified \subseteq Investors \cup {"nominee", "company"}
         /\ now \in 0 .. MaxTime

\* A transaction starts from the state.
LEMMA WorldIs ==
    /\ IsWorld(World) /\ World.eto = eto /\ World.bal = bal /\ World.neu = neu
    /\ World.equity = equity /\ World.locks = locks /\ World.ok
BY DEF World, IsWorld, AWorld

\* What the invariant says of the shape of a world.
LEMMA InvTypes ==
    ASSUME NEW w, NEW s, Inv(w, s)
    PROVE  Shaped(w) /\ MachineOK(w.eto.machine) /\ w.eto \in Offerings
BY OfferingTypes DEF Inv, Typed, Shaped

\* The clock counts.
LEMMA ClockIsNatural ==
    ASSUME Sides
    PROVE  now \in Nat
BY InputAssumption DEF Sides

\* The books of a transaction that takes place.
LEMMA BooksAreKept ==
    ASSUME NEW w, Become(w), Inv(w, w.eto.machine.state),
           w.eto.machine.state = 3 => ~Confirmed(w.eto)
    PROVE  Books'
<1>1. PICK x : x = World'
  OBVIOUS
<1>2. /\ IsWorld(x) /\ x.eto = w.eto /\ x.bal = w.bal /\ x.neu = w.neu
      /\ x.equity = w.equity /\ x.locks = w.locks /\ eto' = w.eto
  BY <1>1 DEF Become, World, IsWorld, AWorld
<1>3. Inv(x, w.eto.machine.state)
  BY <1>2 DEF Inv, Typed
<1>4. Inv(World', eto'.machine.state)
  BY <1>1, <1>2, <1>3
<1>5. eto'.machine.state = 3 => ~Confirmed(eto')
  BY <1>2
<1> QED
  BY <1>4, <1>5 DEF Books

\* The world in which a purchase is booked.
LEMMA SaleIsOpen ==
    ASSUME Books, Sides, NEW w, Shaped(w), w.eto = eto, NEW m, m = BeforeMachine(World),
           NEW u, u = Before(w), NEW i \in Investors, NEW viaLock \in BOOLEAN, NEW c \in Currencies,
           NEW amount \in Nat, NEW rate \in Nat, NEW issued \in Nat,
           NEW v, v = TokenFallback(u, i, viaLock, c, amount, rate, issued), After(v).ok
    PROVE  /\ v.ok /\ u.ok /\ m.state \in {1, 2} /\ eto.machine.state <= m.state /\ MachineOK(m)
           /\ u = WithMachine(w, m) /\ v.eto.machine = m /\ ~Confirmed(v.eto)
<1>1. now \in Nat /\ MachineOK(eto.machine) /\ m = BeforeMachine(w)
  BY WorldIs, InvTypes, ClockIsNatural DEF Books, BeforeMachine
<1>2. /\ Shaped(u) /\ u.eto.machine = m /\ (m.state <= 2 => u = WithMachine(w, m))
      /\ MachineOK(m) /\ m.state >= eto.machine.state
  BY <1>1, BeforeShape, BeforeReaches
<1>3. /\ IsWorld(v) /\ v.eto = Booked(u.eto, i, Bought(u, i, viaLock, c, amount, rate, issued))
      /\ v.ok => u.ok /\ Accepted(u, i, viaLock, c, amount, rate)
  <2>1. Shaped(u)
    BY <1>2
  <2>2. Sold(u, v, RewardIn(viaLock, issued), i, Bought(u, i, viaLock, c, amount, rate, issued),
             Accepted(u, i, viaLock, c, amount, rate))
    BY <2>1, TokenFallbackIs
  <2> QED
    BY <2>2 DEF Sold
<1>4. /\ Shaped(v) /\ v.eto.machine = m /\ v.eto.nomineeSignedUrl = u.eto.nomineeSignedUrl
  BY <1>2, <1>3, BookedShape DEF Shaped
<1>5. m.state \in 0 .. 6 /\ eto.machine.state \in 0 .. 6
  BY <1>1, <1>2, MachineTypes DEF MachineOK
<1>6. m.state <= 2 => ~Confirmed(v.eto)
  <2> SUFFICES ASSUME m.state <= 2 PROVE ~Confirmed(v.eto)
    OBVIOUS
  <2>1. u.eto = [eto EXCEPT !.machine = m]
    BY <1>2, WithMachineIs
  <2>2. u.eto.nomineeSignedUrl = eto.nomineeSignedUrl
    BY <2>1, OfferingWithMachine DEF Shaped
  <2>3. AgreementOK(eto, eto.machine.state)
    BY WorldIs DEF Books, Inv
  <2> QED
    BY <1>2, <1>4, <1>5, <2>2, <2>3 DEF AgreementOK, Confirmed
<1>7. v.ok
  <2>1. Confirmed(v.eto) => v.eto.machine.state >= 3
    BY <1>4, <1>5, <1>6
  <2> QED
    BY <1>1, <1>2, <1>4, <2>1, AfterShape
<1>8. m.state \in {1, 2}
  BY <1>2, <1>3, <1>7, Phases DEF Accepted, StateOf
<1> QED
  BY <1>2, <1>3, <1>4, <1>6, <1>7, <1>8

\* Whatever way the money comes in, the transaction keeps the books.
LEMMA SaleKeepsBooks ==
    ASSUME Books, Sides, NEW i \in Investors, NEW viaLock \in BOOLEAN, NEW c \in Currencies,
           NEW amount \in Nat, NEW rate \in Nat, NEW issued \in Nat,
           NEW w, Received(World, w, i, viaLock, c, amount), NEW m, m = BeforeMachine(World),
           NEW u, u = Before(w),
           NEW v, v = TokenFallback(u, i, viaLock, c, amount, rate, issued),
           NEW z, z = After(v), z.ok
    PROVE  /\ Inv(z, z.eto.machine.state) /\ (z.eto.machine.state = 3 => ~Confirmed(z.eto))
           /\ m.state \in {1, 2} /\ v.eto.machine = m
           /\ Grown([eto EXCEPT !.machine = m], v.eto) /\ v.eto \in Offerings
           /\ MovedOn(v, z) /\ z.eto.machine = AfterMachine(v)
<1> DEFINE s == eto.machine.state
           x == WithMachine(World, m)
<1>1. Shaped(w) /\ w.eto = eto
  BY WorldIs DEF Received
<1>2. /\ v.ok /\ m.state \in {1, 2} /\ s <= m.state /\ MachineOK(m)
      /\ u = WithMachine(w, m) /\ v.eto.machine = m
  BY <1>1, SaleIsOpen
<1>3. /\ Inv(World, s) /\ Shaped(World) /\ MachineOK(eto.machine)
  BY WorldIs, InvTypes DEF Books
<1>4. /\ Shaped(x) /\ x.bal = bal /\ x.neu = neu /\ x.equity = equity /\ x.locks = locks
      /\ x.eto = [eto EXCEPT !.machine = m]
  BY <1>3, WorldIs, WithMachineIs
<1>5. Inv(x, m.state) /\ x.eto.machine = m
  <2>1. Inv(x, s)
    BY <1>2, <1>3, WithMachineKeeps
  <2>2. s \in 0 .. 2 /\ m.state \in s .. 2
    BY <1>2, <1>3, MachineTypes DEF MachineOK
  <2>3. x.eto.machine = m
    BY <1>3, <1>4, WorldIs, OfferingWithMachine DEF Shaped
  <2> HIDE DEF x, s
  <2> QED
    BY <2>1, <2>2, <2>3, StillOpen
<1>6. Received(x, u, i, viaLock, c, amount)
  <2>1. /\ Shaped(u) /\ u.bal = w.bal /\ u.neu = w.neu /\ u.equity = w.equity /\ u.locks = w.locks
        /\ u.eto = [eto EXCEPT !.machine = m]
    BY <1>1, <1>2, WithMachineIs
  <2>2. /\ w.neu = neu /\ w.equity = equity
        /\ w.bal \in [Currencies -> [Investors \cup Parties -> Nat]]
        /\ w.locks \in [Currencies -> Locks]
        /\ \A d \in Currencies : SoundLock(w.locks[d]) /\ w.bal[d]["lock"] = w.locks[d].total
        /\ w.bal[c]["eto"] = bal[c]["eto"] + amount
        /\ \A d \in Currencies \ {c} : w.bal[d]["eto"] = bal[d]["eto"]
        /\ \A d \in Currencies : w.bal[d]["nominee"] = bal[d]["nominee"]
        /\ \A d \in Currencies, j \in Investors :
              w.locks[d].commitments["eto"][j].balance =
                 locks[d].commitments["eto"][j].balance
                    + (IF viaLock /\ d = c /\ j = i THEN amount ELSE 0)
    <3>1. World.eto = eto /\ World.neu = neu /\ World.equity = equity /\ World.bal = bal
          /\ World.locks = locks
      BY WorldIs
    <3> QED
      BY ONLY <3>1, Received(World, w, i, viaLock, c, amount) DEF Received
  <2> HIDE DEF x
  <2>3. /\ Shaped(u) /\ u.eto = x.eto /\ u.neu = x.neu /\ u.equity = x.equity
    BY <1>4, <2>1, <2>2
  <2>4. /\ u.bal \in [Currencies -> [Investors \cup Parties -> Nat]]
        /\ u.locks \in [Currencies -> Locks]
        /\ \A d \in Currencies : SoundLock(u.locks[d]) /\ u.bal[d]["lock"] = u.locks[d].total
    <3>1. u.bal = w.bal /\ u.locks = w.locks
      BY <2>1
    <3> QED
      BY ONLY <3>1, <2>2
  <2>5. /\ u.bal[c]["eto"] = x.bal[c]["eto"] + amount
        /\ \A d \in Currencies \ {c} : u.bal[d]["eto"] = x.bal[d]["eto"]
        /\ \A d \in Currencies : u.bal[d]["nominee"] = x.bal[d]["nominee"]
    BY <1>4, <2>1, <2>2
  <2>6. \A d \in Currencies, j \in Investors :
              u.locks[d].commitments["eto"][j].balance =
                 x.locks[d].commitments["eto"][j].balance
                    + (IF viaLock /\ d = c /\ j = i THEN amount ELSE 0)
    BY <1>4, <2>1, <2>2
  <2> QED
    BY ONLY <2>3, <2>4, <2>5, <2>6 DEF Received
<1> HIDE DEF x, s
<1>7. whitelist[i] \in WhitelistTickets
  BY DEF Sides
<1>8. Inv(v, m.state) /\ Grown(x.eto, v.eto)
  BY <1>2, <1>5, <1>6, <1>7, PurchaseKeeps
<1>9. /\ Inv(z, z.eto.machine.state) /\ z.eto.machine = AfterMachine(v)
      /\ MovedOn(v, z)
      /\ z.eto.machine.state = 3 => ~Confirmed(z.eto)
  BY <1>2, <1>8, ClockIsNatural, AfterKeeps
<1> QED
  BY <1>2, <1>4, <1>8, <1>9, InvTypes

-----------------------------------------------------------------------------
(***************************************************************************)
(* The two ways to invest.                                                 *)
(***************************************************************************)
\* The types of the variables.
LEMMA BooksTypes ==
    ASSUME Books
    PROVE  /\ Shaped(World) /\ eto \in Offerings /\ MachineOK(eto.machine)
           /\ bal \in [Currencies -> [Investors \cup Parties -> Nat]]
           /\ neu \in [Investors \cup {"eto", "operator"} -> Nat]
           /\ equity \in [Investors \cup {"eto", "portfolio"} -> Nat]
           /\ locks \in [Currencies -> Locks]
           /\ \A c \in Currencies : SoundLock(locks[c]) /\ bal[c]["lock"] = locks[c].total
BY WorldIs, InvTypes DEF Books, Inv, Typed

\* A transfer of the investor's own tokens, ...
LEMMA TransferArrives ==
    ASSUME Books, NEW i \in Investors, NEW c \in Currencies, NEW amount \in Nat,
           bal[c][i] >= amount,
           NEW w, w = [World EXCEPT !.bal[c] = Moved(@, i, "eto", amount)]
    PROVE  Received(World, w, i, FALSE, c, amount)
<1> DEFINE b == bal[c]
           r == Moved(b, i, "eto", amount)
<1>1. /\ Shaped(World) /\ bal \in [Currencies -> [Investors \cup Parties -> Nat]]
      /\ b \in [Investors \cup Parties -> Nat]
      /\ locks \in [Currencies -> Locks]
      /\ \A d \in Currencies : SoundLock(locks[d]) /\ bal[d]["lock"] = locks[d].total
  BY BooksTypes
<1>2. /\ r \in [Investors \cup Parties -> Nat]
      /\ r["eto"] = b["eto"] + amount
      /\ \A p \in (Investors \cup Parties) \ {i, "eto"} : r[p] = b[p]
  <2>1. "eto" \in Investors \cup Parties /\ i \in Investors \cup Parties /\ "eto" # i
    BY PartyFacts
  <2>2. r = Moved(b, i, "eto", amount) /\ b[i] >= amount
    OBVIOUS
  <2> HIDE DEF b, r
  <2>3. PICK P, x : P = Investors \cup Parties /\ x = "eto"
    OBVIOUS
  <2>4. x \in P /\ i \in P /\ x # i /\ b \in [P -> Nat] /\ amount \in Nat /\ b[i] >= amount
        /\ r = Moved(b, i, x, amount)
    BY <1>1, <2>1, <2>2, <2>3
  <2>5. r \in [P -> Nat] /\ r[x] = b[x] + amount /\ \A p \in P \ {i, x} : r[p] = b[p]
    BY ONLY <2>4, MovedIs
  <2> QED
    BY <2>3, <2>5
<1> HIDE DEF r
<1>3. w = AWorld(eto, [bal EXCEPT ![c] = r], neu, equity, locks, World.ok)
  BY DEF World, AWorld, r
<1>4. /\ IsWorld(w) /\ w.eto = eto /\ w.bal = [bal EXCEPT ![c] = r] /\ w.neu = neu
      /\ w.equity = equity /\ w.locks = locks
  BY ONLY <1>3, WorldMade
<1>5. /\ w.bal \in [Currencies -> [Investors \cup Parties -> Nat]]
      /\ w.bal[c] = r /\ \A d \in Currencies \ {c} : w.bal[d] = bal[d]
  <2>1. PICK R, f, g : R = [Investors \cup Parties -> Nat] /\ f = bal /\ g = w.bal
    OBVIOUS
  <2>2. f \in [Currencies -> R] /\ r \in R /\ g = [f EXCEPT ![c] = r]
    BY <1>1, <1>2, <1>4, <2>1
  <2>3. g \in [Currencies -> R] /\ g[c] = r /\ \A d \in Currencies \ {c} : g[d] = f[d]
    BY ONLY <2>2, c \in Currencies
  <2> QED
    BY <2>1, <2>3
<1>6. r["lock"] = b["lock"] /\ r["nominee"] = b["nominee"]
  BY <1>2, PartyFacts
<1>7. Shaped(w)
  BY <1>1, <1>4, WorldIs DEF Shaped
<1>8. \A d \in Currencies : w.bal[d]["lock"] = bal[d]["lock"] /\ w.bal[d]["nominee"] = bal[d]["nominee"]
  BY <1>5, <1>6
<1>9. \A d \in Currencies, j \in Investors :
         /\ locks[d].commitments["eto"][j].balance \in Nat
         /\ w.locks[d].commitments["eto"][j].balance = locks[d].commitments["eto"][j].balance + 0
  BY <1>1, <1>4, LockTypes, PartyFacts
<1>10. w.bal[c]["eto"] = bal[c]["eto"] + amount /\ \A d \in Currencies \ {c} : w.bal[d]["eto"] = bal[d]["eto"]
  BY <1>2, <1>5
<1>11. \A d \in Currencies : SoundLock(w.locks[d]) /\ w.bal[d]["lock"] = w.locks[d].total
  BY <1>1, <1>4, <1>8
<1>12. /\ World.eto = eto /\ World.neu = neu /\ World.equity = equity /\ World.bal = bal
       /\ World.locks = locks
  BY WorldIs
<1> QED
  BY ONLY <1>1, <1>4, <1>5, <1>7, <1>8, <1>9, <1>10, <1>11, <1>12 DEF Received

\* ... and one out of the ICBM wallet, which makes the funds pending.
LEMMA LockedFundsArrive ==
    ASSUME Books, NEW i \in Investors, NEW c \in Currencies, NEW amount \in Nat,
           CanInvest(locks[c], i, amount),
           NEW w, w = [World EXCEPT !.bal[c] = Moved(@, "lock", "eto", amount),
                                    !.locks[c] = InvestFunds(@, "eto", i, amount)]
    PROVE  Received(World, w, i, TRUE, c, amount)
<1> DEFINE b == bal[c]
           r == Moved(b, "lock", "eto", amount)
           l == locks[c]
           k == InvestFunds(l, "eto", i, amount)
<1>1. /\ Shaped(World) /\ bal \in [Currencies -> [Investors \cup Parties -> Nat]]
      /\ b \in [Investors \cup Parties -> Nat]
      /\ locks \in [Currencies -> Locks] /\ l \in Locks /\ SoundLock(l) /\ b["lock"] = l.total
      /\ \A d \in Currencies : SoundLock(locks[d]) /\ bal[d]["lock"] = locks[d].total
  BY BooksTypes
<1>2. SoundLock(k) /\ k \in Locks /\ k.total = l.total - amount
  <2> HIDE DEF l
  <2> QED
    BY <1>1, PartyFacts, InvestFundsIsSound, SoundLockParts DEF l
<1>3. l.total >= amount
  <2>1. l.accounts[i].balance >= amount /\ l.accounts[i].balance \in Nat
    BY <1>1, LockTypes DEF CanInvest
  <2>2. l.accounts[i].balance <= l.total /\ l.total \in Nat
    BY <1>1, SoundLockParts, LockSums
  <2> QED
    BY <2>1, <2>2
<1>4. \A d \in Commitments, j \in Investors :
         k.commitments[d][j].balance = l.commitments[d][j].balance
                                          + (IF d = "eto" /\ j = i THEN amount ELSE 0)
  BY <1>1, InvestedIs, PartyFacts
<1>5. /\ r \in [Investors \cup Parties -> Nat]
      /\ r["eto"] = b["eto"] + amount /\ r["lock"] = b["lock"] - amount
      /\ \A p \in (Investors \cup Parties) \ {"lock", "eto"} : r[p] = b[p]
  <2>1. "eto" \in Investors \cup Parties /\ "lock" \in Investors \cup Parties /\ "eto" # "lock"
    BY PartyFacts
  <2>2. r = Moved(b, "lock", "eto", amount) /\ b["lock"] >= amount
    BY <1>1, <1>3
  <2> HIDE DEF b, r, l, k
  <2>3. PICK P, x, y : P = Investors \cup Parties /\ x = "eto" /\ y = "lock"
    OBVIOUS
  <2>4. x \in P /\ y \in P /\ x # y /\ b \in [P -> Nat] /\ amount \in Nat /\ b[y] >= amount
        /\ r = Moved(b, y, x, amount)
    BY <1>1, <2>1, <2>2, <2>3
  <2>5. r \in [P -> Nat] /\ r[x] = b[x] + amount /\ r[y] = b[y] - amount
        /\ \A p \in P \ {y, x} : r[p] = b[p]
    BY ONLY <2>4, MovedIs
  <2> QED
    BY <2>3, <2>5
<1> HIDE DEF r, k
<1>6. w = AWorld(eto, [bal EXCEPT ![c] = r], neu, equity, [locks EXCEPT ![c] = k], World.ok)
  BY DEF World, AWorld, r, k
<1>7. /\ IsWorld(w) /\ w.eto = eto /\ w.bal = [bal EXCEPT ![c] = r] /\ w.neu = neu
      /\ w.equity = equity /\ w.locks = [locks EXCEPT ![c] = k]
  BY ONLY <1>6, WorldMade
<1>8. /\ w.bal \in [Currencies -> [Investors \cup Parties -> Nat]]
      /\ w.bal[c] = r /\ \A d \in Currencies \ {c} : w.bal[d] = bal[d]
      /\ w.locks \in [Currencies -> Locks]
      /\ w.locks[c] = k /\ \A d \in Currencies \ {c} : w.locks[d] = locks[d]
  <2>1. PICK R, f, g : R = [Investors \cup Parties -> Nat] /\ f = bal /\ g = w.bal
    OBVIOUS
  <2>2. f \in [Currencies -> R] /\ r \in R /\ g = [f EXCEPT ![c] = r]
    BY <1>1, <1>5, <1>7, <2>1
  <2>3. g \in [Currencies -> R] /\ g[c] = r /\ \A d \in Currencies \ {c} : g[d] = f[d]
    BY ONLY <2>2, c \in Currencies
  <2>4. /\ w.locks \in [Currencies -> Locks]
        /\ w.locks[c] = k /\ \A d \in Currencies \ {c} : w.locks[d] = locks[d]
    <3>1. PICK x, y : x = locks /\ y = w.locks
      OBVIOUS
    <3>2. x \in [Currencies -> Locks] /\ k \in Locks /\ y = [x EXCEPT ![c] = k]
      BY <1>1, <1>2, <1>7, <3>1
    <3>3. y \in [Currencies -> Locks] /\ y[c] = k /\ \A d \in Currencies \ {c} : y[d] = x[d]
      BY ONLY <3>2, c \in Currencies
    <3> QED
      BY <3>1, <3>3
  <2> QED
    BY <2>1, <2>3, <2>4
<1>9. Shaped(w)
  BY <1>1, <1>7, WorldIs DEF Shaped
<1>10. r["nominee"] = b["nominee"]
  <2>1. "nominee" \in (Investors \cup Parties) \ {"lock", "eto"}
    BY PartyFacts
  <2> QED
    BY <1>5, <2>1
<1>11. \A d \in Currencies : w.bal[d]["nominee"] = bal[d]["nominee"]
  BY <1>8, <1>10
<1>12. \A d \in Currencies : SoundLock(w.locks[d]) /\ w.bal[d]["lock"] = w.locks[d].total
  BY <1>1, <1>2, <1>5, <1>8
<1>13. ASSUME NEW d \in Currencies, NEW j \in Investors
       PROVE  w.locks[d].commitments["eto"][j].balance =
                 locks[d].commitments["eto"][j].balance + (IF d = c /\ j = i THEN amount ELSE 0)
  <2>1. locks[d].commitments["eto"][j].balance \in Nat
    BY <1>1, LockTypes, PartyFacts
  <2>2. CASE d = c
    BY <1>4, <1>8, <2>2, PartyFacts
  <2>3. CASE d # c
    BY <1>8, <2>1, <2>3
  <2> QED
    BY <2>2, <2>3
<1>14. w.bal[c]["eto"] = bal[c]["eto"] + amount /\ \A d \in Currencies \ {c} : w.bal[d]["eto"] = bal[d]["eto"]
  BY <1>5, <1>8
<1>15. /\ World.eto = eto /\ World.neu = neu /\ World.equity = equity /\ World.bal = bal
       /\ World.locks = locks
  BY WorldIs
<1> QED
  BY ONLY <1>7, <1>8, <1>9, <1>11, <1>12, <1>13, <1>14, <1>15 DEF Received

-----------------------------------------------------------------------------
(***************************************************************************)
(* The transactions as steps of the timed state machine.                   *)
(***************************************************************************)
\* Payments and transitions do not change the conditions of the machine.
LEMMA ConditionsMoved ==
    ASSUME NEW v, NEW z, MovedOn(v, z)
    PROVE  /\ MinReached(z.eto) = MinReached(v.eto) /\ CapExceeded(z.eto) = CapExceeded(v.eto)
           /\ Confirmed(z.eto) = Confirmed(v.eto)
BY DEF MovedOn, MinReached, CapExceeded, Totals, Confirmed

\* The conditions of the machine in the next state.
LEMMA ConditionsPrimed ==
    ASSUME NEW e, eto' = e
    PROVE  /\ MinReached(eto)' = MinReached(e) /\ CapExceeded(eto)' = CapExceeded(e)
           /\ Confirmed(eto)' = Confirmed(e)
BY DEF MinReached, CapExceeded, Totals, Confirmed

\* The timed transitions are those of the machine on its own, ...
LEMMA BeforeIs ==
    BeforeMachine(World) = SM!Before
BY WorldIs DEF BeforeMachine, SM!Before

\* ... and so are the logic transitions, with the conditions the body left.
LEMMA AfterIs ==
    ASSUME NEW v, NEW z, Become(z), MovedOn(v, z), z.eto.machine = AfterMachine(v)
    PROVE  eto'.machine = SM!After(v.eto.machine)
<1>1. PICK a, b, c : a = MinReached(z.eto) /\ b = CapExceeded(z.eto) /\ c = Confirmed(z.eto)
  OBVIOUS
<1>2. MinReached(eto)' = a /\ CapExceeded(eto)' = b /\ Confirmed(eto)' = c
  BY <1>1, ConditionsPrimed DEF Become
<1>3. MinReached(v.eto) = a /\ CapExceeded(v.eto) = b /\ Confirmed(v.eto) = c
  BY <1>1, ConditionsMoved
<1>4. z.eto.machine = SM!AdvanceLogic(v.eto.machine, now, a, b, c)
  BY <1>3 DEF AfterMachine
<1>5. SM!After(v.eto.machine) = SM!AdvanceLogic(v.eto.machine, now, a, b, c)
  BY <1>2 DEF SM!After
<1> QED
  BY <1>4, <1>5 DEF Become

\* More tokens and more money never make the offering less sold out.
LEMMA ConditionsGrow ==
    ASSUME NEW e \in Offerings, NEW f \in Offerings,
           f.totalTokenAmount >= e.totalTokenAmount, f.totalEquivEurUlps >= e.totalEquivEurUlps
    PROVE  /\ MinReached(f) \in {MinReached(e), TRUE}
           /\ CapExceeded(f) \in {CapExceeded(e), TRUE}
<1>1. PICK n \in Nat, q \in Nat, o \in Nat, r \in Nat :
         n = e.totalTokenAmount /\ q = e.totalEquivEurUlps /\ o = f.totalTokenAmount
         /\ r = f.totalEquivEurUlps
  BY OfferingTypes
<1>2. o >= n /\ r >= q
  BY <1>1
<1>3. MinReached(e) => MinReached(f)
  <2>1. MIN_NUMBER_OF_TOKENS \in Nat
    BY TokenTermsAssumption
  <2> QED
    BY <1>1, <1>2, <2>1 DEF MinReached
<1>4. CapExceeded(e) => CapExceeded(f)
  <2>1. PICK a \in Nat, b \in Nat, c \in Nat, d \in Nat :
           a = MIN_TICKET_TOKENS + 1 /\ b = MIN_TICKET_EUR_ULPS /\ c = MAX_AVAILABLE_TOKENS
           /\ d = MAX_INVESTMENT_AMOUNT_EUR_ULPS
    <3>1. MIN_TICKET_EUR_ULPS \in Nat /\ MAX_INVESTMENT_AMOUNT_EUR_ULPS \in Nat
      BY TermsAssumption
    <3>2. MIN_TICKET_TOKENS \in Nat
      BY <3>1, PricesArePositive, TokensAreNatural DEF MIN_TICKET_TOKENS, CalculateTokenAmount
    <3>3. MAX_AVAILABLE_TOKENS \in Nat
      BY AvailableTokens
    <3>4. MIN_TICKET_TOKENS + 1 \in Nat
      BY <3>2
    <3> QED
      BY <3>1, <3>3, <3>4
  <2>2. CapExceeded(e) <=> (n + a > c \/ (d > 0 /\ b + q > d))
    BY <1>1, <2>1 DEF CapExceeded, IsCapExceeded, Totals
  <2>3. CapExceeded(f) <=> (o + a > c \/ (d > 0 /\ b + r > d))
    BY <1>1, <2>1 DEF CapExceeded, IsCapExceeded, Totals
  <2> QED
    BY <1>2, <2>2, <2>3
<1>5. MinReached(e) \in BOOLEAN /\ MinReached(f) \in BOOLEAN /\ CapExceeded(e) \in BOOLEAN
      /\ CapExceeded(f) \in BOOLEAN
  BY ConditionsAreBoolean
<1> QED
  BY <1>3, <1>4, <1>5

\* A sale is a Commit of the machine.
LEMMA SaleCommits ==
    ASSUME eto \in Offerings, UNCHANGED now,
           NEW m, m = BeforeMachine(World), m.state \in {1, 2},
           NEW v, v.eto \in Offerings, v.eto.machine = m, Grown([eto EXCEPT !.machine = m], v.eto),
           NEW z, z.eto.machine = AfterMachine(v), MovedOn(v, z), Become(z)
    PROVE  SM!Commit
<1>1. m = SM!Before
  BY BeforeIs
<1>2. eto'.machine = SM!After(m)
  BY AfterIs
<1>3. /\ v.eto.totalTokenAmount >= eto.totalTokenAmount
      /\ v.eto.totalEquivEurUlps >= eto.totalEquivEurUlps
      /\ v.eto.nomineeSignedUrl = eto.nomineeSignedUrl
  <2>1. PICK e : e = [eto EXCEPT !.machine = m]
    OBVIOUS
  <2>2. /\ e.totalTokenAmount = eto.totalTokenAmount /\ e.totalEquivEurUlps = eto.totalEquivEurUlps
        /\ e.nomineeSignedUrl = eto.nomineeSignedUrl
    BY <2>1, OfferingTypes, OfferingWithMachine
  <2> QED
    BY <2>1, <2>2 DEF Grown
<1>4. /\ MinReached(v.eto) \in {MinReached(eto), TRUE}
      /\ CapExceeded(v.eto) \in {CapExceeded(eto), TRUE}
      /\ Confirmed(v.eto) = Confirmed(eto)
  BY <1>3, ConditionsGrow DEF Confirmed
<1>5. /\ MinReached(eto)' = MinReached(v.eto) /\ CapExceeded(eto)' = CapExceeded(v.eto)
      /\ Confirmed(eto)' = Confirmed(v.eto)
  <2>1. eto' = z.eto
    BY DEF Become
  <2> QED
    BY <2>1, ConditionsPrimed, ConditionsMoved
<1> QED
  BY <1>1, <1>2, <1>4, <1>5, Phases DEF SM!Commit, SM!Whitelist, SM!Public

-----------------------------------------------------------------------------
(***************************************************************************)
(* What every transaction keeps.                                           *)
(***************************************************************************)

\* Nobody's ticket was settled.
OpenKept == \A i \in Investors : IsOpen(eto.tickets[i]) => IsOpen(eto'.tickets[i])

\* what a step must not do to a ticket it settles in Refund
ExactRefund ==
    \A i \in Investors :
       HasOpenTicket(eto, i) /\ ~HasOpenTicket(eto', i) /\ eto'.machine.state = SM!Refund =>
          \A c \in Currencies :
             /\ Wealth(bal', locks', c, i) = Wealth(bal, locks, c, i) + Ticket(i).amount[c]
             /\ locks'[c].accounts[i].neumarksDue =
                   locks[c].accounts[i].neumarksDue + locks[c].commitments["eto"][i].neumarksDue

\* A step that settles no ticket refunds none.
LEMMA OpenIsExact ==
    ASSUME OpenKept
    PROVE  ExactRefund
BY DEF OpenKept, ExactRefund, HasOpenTicket, IsOpen

\* The variables no transaction writes.
LEMMA SidesKept ==
    ASSUME Sides, UNCHANGED <<whitelist, verified, now>>
    PROVE  Sides'
BY DEF Sides

\* Either way to invest.
LEMMA SaleStep ==
    ASSUME Books, Sides, UNCHANGED now, NEW i \in Investors, NEW viaLock \in BOOLEAN,
           NEW c \in Currencies, NEW amount \in Nat, NEW rate \in Nat, NEW issued \in Nat,
           NEW w, Received(World, w, i, viaLock, c, amount),
           Become(After(TokenFallback(Before(w), i, viaLock, c, amount, rate, issued)))
    PROVE  Books' /\ SM!Commit /\ OpenKept
<1>1. PICK m, u : m = BeforeMachine(World) /\ u = Before(w)
  OBVIOUS
<1>2. PICK v : v = TokenFallback(u, i, viaLock, c, amount, rate, issued)
  OBVIOUS
<1>3. PICK z : z = After(v)
  OBVIOUS
<1>4. Become(z) /\ z.ok
  BY <1>1, <1>2, <1>3 DEF Become
<1>5. /\ Inv(z, z.eto.machine.state) /\ (z.eto.machine.state = 3 => ~Confirmed(z.eto))
      /\ m.state \in {1, 2} /\ v.eto.machine = m
      /\ Grown([eto EXCEPT !.machine = m], v.eto) /\ v.eto \in Offerings
      /\ MovedOn(v, z) /\ z.eto.machine = AfterMachine(v)
  BY <1>1, <1>2, <1>3, <1>4, SaleKeepsBooks
<1>6. eto \in Offerings
  BY BooksTypes
<1>7. OpenKept
  <2>1. PICK e : e = [eto EXCEPT !.machine = m]
    OBVIOUS
  <2>2. e.tickets = eto.tickets
    BY <1>6, <2>1, OfferingTypes, OfferingWithMachine
  <2>3. eto'.tickets = v.eto.tickets
    BY <1>4, <1>5 DEF MovedOn, Become
  <2>4. Grown(e, v.eto)
    BY <1>5, <2>1
  <2> QED
    BY <2>2, <2>3, <2>4 DEF OpenKept, Grown
<1> QED
  BY <1>1, <1>4, <1>5, <1>6, <1>7, BooksAreKept, SaleCommits

\* An investment of the investor's own tokens, ...
LEMMA InvestKeeps ==
    ASSUME Books, Sides, NEW i \in Investors, NEW c \in Currencies, NEW amount \in Payments[c],
           NEW rate \in Rates, NEW issued \in NeuRewards, Invest(i, c, amount, rate, issued)
    PROVE  Books' /\ Sides' /\ SM!Commit /\ OpenKept
<1>1. amount \in Nat /\ rate \in Nat /\ issued \in Nat
  BY InputAssumption
<1>2. PICK w : w = [World EXCEPT !.bal[c] = Moved(@, i, "eto", amount)]
  OBVIOUS
<1>3. /\ bal[c][i] >= amount
      /\ Become(After(TokenFallback(Before(w), i, FALSE, c, amount, rate, issued)))
      /\ UNCHANGED <<whitelist, verified, now>>
  BY <1>2 DEF Invest
<1>4. Received(World, w, i, FALSE, c, amount)
  BY <1>1, <1>2, <1>3, TransferArrives
<1>5. UNCHANGED now
  BY <1>3
<1> QED
  BY <1>1, <1>3, <1>4, <1>5, SaleStep, SidesKept

\* ... or of the funds in the ICBM wallet.
LEMMA InvestLockedKeeps ==
    ASSUME Books, Sides, NEW i \in Investors, NEW c \in Currencies, NEW amount \in Payments[c],
           NEW rate \in Rates, InvestLocked(i, c, amount, rate)
    PROVE  Books' /\ Sides' /\ SM!Commit /\ OpenKept
<1>1. amount \in Nat /\ rate \in Nat
  BY InputAssumption
<1>2. PICK w : w = [World EXCEPT !.bal[c] = Moved(@, "lock", "eto", amount),
                                 !.locks[c] = InvestFunds(@, "eto", i, amount)]
  OBVIOUS
<1>3. /\ CanInvest(locks[c], i, amount)
      /\ Become(After(TokenFallback(Before(w), i, TRUE, c, amount, rate, 0)))
      /\ UNCHANGED <<whitelist, verified, now>>
  BY <1>2 DEF InvestLocked
<1>4. Received(World, w, i, TRUE, c, amount)
  BY <1>1, <1>2, <1>3, LockedFundsArrive, Zenon
<1>5. UNCHANGED now
  BY <1>3
<1> QED
  BY <1>1, <1>3, <1>4, <1>5, SaleStep, SidesKept

-----------------------------------------------------------------------------
(***************************************************************************)
(* The other transactions.                                                 *)
(***************************************************************************)

\* The world the body of a transaction runs in, once the transaction is known to happen.
LEMMA BodyRuns ==
    ASSUME Books, Sides, NEW u, u = Before(World), NEW b, Later(u, b), u.eto.machine.state >= 3,
           Become(After(b))
    PROVE  /\ b.ok /\ u.ok /\ Inv(u, u.eto.machine.state) /\ u.eto.machine = SM!Before
           /\ MovedOn(World, u) /\ b.eto.machine = SM!Before
<1>1. now \in Nat /\ Inv(World, World.eto.machine.state)
  BY ClockIsNatural, WorldIs DEF Books
<1>2. Shaped(World) /\ MachineOK(World.eto.machine)
  BY <1>1, InvTypes
<1>3. /\ Shaped(u) /\ u.eto.machine = BeforeMachine(World) /\ MachineOK(u.eto.machine)
  BY <1>1, <1>2, BeforeShape, BeforeReaches
<1>4. Shaped(b) /\ b.eto.machine = u.eto.machine /\ (b.ok => u.ok)
  BY DEF Later
<1>5. After(b).ok
  BY DEF Become
<1>6. b.ok
  BY <1>1, <1>3, <1>4, <1>5, AfterShape
<1>7. u.ok
  BY <1>4, <1>6
<1>8. Inv(u, u.eto.machine.state) /\ MovedOn(World, u)
  BY <1>1, <1>7, BeforeKeeps
<1> QED
  BY <1>3, <1>4, <1>6, <1>7, <1>8, BeforeIs

\* A body that keeps the invariant makes a transaction that does.
LEMMA BodyKept ==
    ASSUME Sides, NEW b, Inv(b, b.eto.machine.state), Become(After(b))
    PROVE  /\ Books' /\ eto'.machine = SM!After(b.eto.machine) /\ MovedOn(b, After(b))
           /\ MinReached(eto)' = MinReached(b.eto) /\ CapExceeded(eto)' = CapExceeded(b.eto)
           /\ Confirmed(eto)' = Confirmed(b.eto) /\ eto'.tickets = b.eto.tickets
           /\ After(b).eto.machine = AfterMachine(b) /\ now \in Nat
<1>1. PICK z : z = After(b)
  OBVIOUS
<1>2. Become(z) /\ z.ok /\ now \in Nat
  BY <1>1, ClockIsNatural DEF Become
<1>3. /\ Inv(z, z.eto.machine.state) /\ z.eto.machine = AfterMachine(b) /\ MovedOn(b, z)
      /\ z.eto.machine.state = 3 => ~Confirmed(z.eto)
  BY <1>1, <1>2, AfterKeeps
<1>4. Books' /\ eto'.machine = SM!After(b.eto.machine)
  BY <1>2, <1>3, BooksAreKept, AfterIs
<1>5. /\ MinReached(eto)' = MinReached(b.eto) /\ CapExceeded(eto)' = CapExceeded(b.eto)
      /\ Confirmed(eto)' = Confirmed(b.eto)
  <2>1. eto' = z.eto
    BY <1>2 DEF Become
  <2> QED
    BY <1>3, <2>1, ConditionsPrimed, ConditionsMoved
<1>6. eto'.tickets = b.eto.tickets
  BY <1>2, <1>3 DEF Become, MovedOn
<1> QED
  BY <1>1, <1>2, <1>3, <1>4, <1>5, <1>6

\* Nothing but the machine: payout, and the public handleStateTransitions.
LEMMA PayoutKeeps ==
    ASSUME Books, Sides, Payout
    PROVE  Books' /\ Sides' /\ SM!OtherCall /\ OpenKept
<1>1. PICK u : u = Before(World)
  OBVIOUS
<1>2. u.eto.machine.state = 5 /\ Become(After(u)) /\ UNCHANGED <<whitelist, verified, now>>
  BY <1>1, Phases DEF Payout, StateOf
<1>3. Shaped(u)
  BY <1>1, BooksTypes, ClockIsNatural, WorldIs, BeforeShape
<1>4. /\ u.ok /\ Inv(u, u.eto.machine.state) /\ u.eto.machine = SM!Before /\ MovedOn(World, u)
  BY <1>1, <1>2, <1>3, BodyRuns DEF Later
<1>5. /\ Books' /\ eto'.machine = SM!After(u.eto.machine)
      /\ MinReached(eto)' = MinReached(u.eto) /\ CapExceeded(eto)' = CapExceeded(u.eto)
      /\ Confirmed(eto)' = Confirmed(u.eto) /\ eto'.tickets = u.eto.tickets
  BY <1>2, <1>4, BodyKept
<1>6. /\ MinReached(u.eto) = MinReached(eto) /\ CapExceeded(u.eto) = CapExceeded(eto)
      /\ Confirmed(u.eto) = Confirmed(eto) /\ u.eto.tickets = eto.tickets
  BY <1>4, WorldIs, ConditionsMoved DEF MovedOn
<1>7. SM!OtherCall
  BY <1>2, <1>4, <1>5, <1>6, Phases DEF SM!OtherCall, SM!conditions
<1>8. OpenKept
  BY <1>5, <1>6 DEF OpenKept
<1> QED
  BY <1>2, <1>5, <1>7, <1>8, SidesKept

\* A call that only runs the timed transitions.
LEMMA HandleStateTransitionsKeeps ==
    ASSUME Books, Sides, HandleStateTransitions
    PROVE  Books' /\ Sides' /\ SM!HandleStateTransitions /\ OpenKept
<1>1. PICK u : u = Before(World)
  OBVIOUS
<1>2. Become(u) /\ u.ok /\ UNCHANGED <<whitelist, verified, now>> /\ eto' = u.eto
  BY <1>1 DEF HandleStateTransitions, Become
<1>3. now \in Nat /\ Inv(World, World.eto.machine.state) /\ MachineOK(eto.machine)
  BY ClockIsNatural, WorldIs, BooksTypes DEF Books
<1>4. /\ Inv(u, u.eto.machine.state) /\ MovedOn(World, u) /\ u.eto.machine = BeforeMachine(World)
  BY <1>1, <1>2, <1>3, BeforeKeeps
<1>5. u.eto.machine.state = 3 => ~Confirmed(u.eto)
  <2>1. Confirmed(u.eto) <=> Confirmed(eto)
    BY <1>4, WorldIs, ConditionsMoved
  <2> SUFFICES ASSUME u.eto.machine.state = 3, Confirmed(eto) PROVE FALSE
    BY <2>1
  <2>2. AgreementOK(eto, eto.machine.state)
    BY WorldIs DEF Books, Inv
  <2>3. eto.machine.state >= 3 /\ eto.machine.state # 3
    BY <2>2 DEF AgreementOK, Books
  <2>4. eto.machine.state \in 0 .. 6 /\ u.eto.machine.state >= eto.machine.state
    BY <1>3, <1>4, WorldIs, BeforeReaches, MachineTypes DEF MachineOK
  <2> QED
    BY <2>3, <2>4
<1>6. Books'
  BY <1>2, <1>4, <1>5, BooksAreKept
<1>7. /\ MinReached(eto)' = MinReached(eto) /\ CapExceeded(eto)' = CapExceeded(eto)
      /\ Confirmed(eto)' = Confirmed(eto) /\ eto'.tickets = eto.tickets
  <2>1. /\ MinReached(u.eto) = MinReached(eto) /\ CapExceeded(u.eto) = CapExceeded(eto)
        /\ Confirmed(u.eto) = Confirmed(eto) /\ u.eto.tickets = eto.tickets
    BY <1>4, WorldIs, ConditionsMoved DEF MovedOn
  <2> QED
    BY <1>2, <2>1, ConditionsPrimed
<1>8. SM!HandleStateTransitions
  BY <1>2, <1>4, <1>7, BeforeIs DEF SM!HandleStateTransitions, SM!conditions
<1> QED
  BY <1>2, <1>6, <1>7, <1>8, SidesKept DEF OpenKept

-----------------------------------------------------------------------------

\* f is the offering e with other signatures.
Signed(e, f) ==
    /\ IsOffering(f) /\ f.machine = e.machine /\ f.tickets = e.tickets
    /\ f.agreements = e.agreements /\ f.totalEquivEurUlps = e.totalEquivEurUlps
    /\ f.totalTokenAmount = e.totalTokenAmount
    /\ f.totalFixedSlotsTokenAmount = e.totalFixedSlotsTokenAmount
    /\ f.totalInvestors = e.totalInvestors
    /\ f.additionalContribution = e.additionalContribution
    /\ f.platformFee = e.platformFee /\ f.newShares = e.newShares
    /\ f.tokenParticipationFeeAmount = e.tokenParticipationFeeAmount

\* A signature in Signing keeps the invariant.
LEMMA SignedKeeps ==
    ASSUME NEW u, Inv(u, 3), NEW f, Signed(u.eto, f), AgreementOK(f, 3),
           f.signedUrl \in Urls \cup {NoUrl}, f.nomineeSignedUrl \in Urls \cup {NoUrl, "unconfirmed"},
           NEW b, b = AWorld(f, u.bal, u.neu, u.equity, u.locks, u.ok)
    PROVE  Inv(b, 3)
<1>1. Typed(u) /\ u.eto \in Offerings /\ TicketsOK(u.eto, 3) /\ PendingOK(u.eto.tickets, u.locks)
  BY DEF Inv, Typed
<1>2. /\ IsWorld(b) /\ b.eto = f /\ b.bal = u.bal /\ b.neu = u.neu /\ b.equity = u.equity
      /\ b.locks = u.locks
  BY WorldMade
<1>3. f \in Offerings
  BY <1>1, OfferingTypes, OfferingMade DEF Signed
<1>4. Typed(b)
  BY <1>1, <1>2, <1>3 DEF Typed, Signed
<1>5. TicketsOK(f, 3) /\ PendingOK(f.tickets, b.locks)
  BY <1>1, <1>2 DEF TicketsOK, Signed
<1>6. TotalsOK(f, 3) /\ SharesOK(f, 3)
  BY DEF Inv, TotalsOK, SharesOK, IssuedTokens, Signed
<1>7. MoneyOK(f, b.bal, 3) /\ RewardsOK(f, b.neu, 3)
  BY <1>2 DEF Inv, MoneyOK, RewardsOK, Signed
<1>8. EquityOK(f, b.equity, 3)
  BY <1>2 DEF Inv, EquityOK, Signed
<1> QED
  BY <1>2, <1>4, <1>5, <1>6, <1>7, <1>8 DEF Inv

\* The transaction around a signature.
LEMMA SignatureRuns ==
    ASSUME Books, Sides, NEW u, u = Before(World), u.eto.machine.state = 3,
           NEW f, Shaped(u) => Signed(u.eto, f),
           NEW b, Shaped(u) => b = AWorld(f, u.bal, u.neu, u.equity, u.locks, u.ok),
           Become(After(b))
    PROVE  /\ Inv(u, 3) /\ Signed(u.eto, f) /\ ~Confirmed(u.eto) /\ ~Confirmed(eto)
           /\ b = AWorld(f, u.bal, u.neu, u.equity, u.locks, u.ok)
           /\ SM!Before.state = 3 /\ b.eto = f /\ b.eto.machine = SM!Before
           /\ MinReached(f) = MinReached(eto) /\ CapExceeded(f) = CapExceeded(eto)
           /\ f.tickets = eto.tickets
<1>1. Shaped(u) /\ MachineOK(u.eto.machine)
  BY BooksTypes, ClockIsNatural, WorldIs, BeforeShape, BeforeReaches
<1>2. Signed(u.eto, f) /\ b = AWorld(f, u.bal, u.neu, u.equity, u.locks, u.ok)
  BY <1>1
<1>3. IsWorld(b) /\ b.eto = f /\ b.ok = u.ok
  BY <1>2, WorldMade
<1>4. Later(u, b) /\ u.eto.machine.state >= 3
  BY <1>2, <1>3 DEF Later, Shaped, Signed
<1>5. Inv(u, 3) /\ u.eto.machine = SM!Before /\ MovedOn(World, u)
  BY <1>4, BodyRuns
<1>6. /\ MinReached(u.eto) = MinReached(eto) /\ CapExceeded(u.eto) = CapExceeded(eto)
      /\ Confirmed(u.eto) = Confirmed(eto) /\ u.eto.tickets = eto.tickets
  BY <1>5, WorldIs, ConditionsMoved DEF MovedOn
<1>7. ~Confirmed(eto)
  <2> SUFFICES ASSUME Confirmed(eto) PROVE FALSE
    OBVIOUS
  <2>1. AgreementOK(eto, eto.machine.state)
    BY WorldIs DEF Books, Inv
  <2>2. eto.machine.state >= 3 /\ eto.machine.state # 3
    BY <2>1 DEF AgreementOK, Books
  <2>3. eto.machine.state \in 0 .. 6 /\ BeforeMachine(World).state >= eto.machine.state
    BY BooksTypes, ClockIsNatural, WorldIs, BeforeReaches, MachineTypes DEF MachineOK
  <2> QED
    BY <1>5, <2>2, <2>3, BeforeIs
<1>8. MinReached(f) = MinReached(u.eto) /\ CapExceeded(f) = CapExceeded(u.eto) /\ f.tickets = u.eto.tickets
  BY <1>2 DEF MinReached, CapExceeded, Totals, Signed
<1> QED
  BY <1>2, <1>3, <1>4, <1>5, <1>6, <1>7, <1>8 DEF Later

\* The company signs while nobody confirmed.
LEMMA CompanySigns ==
    ASSUME Books, Sides, NEW url \in Urls, CompanySignsInvestmentAgreement(url)
    PROVE  Books' /\ Sides' /\ SM!OtherCall /\ OpenKept
<1>1. PICK u : u = Before(World)
  OBVIOUS
<1>2. PICK b, f : b = [u EXCEPT !.eto.signedUrl = url] /\ f = [u.eto EXCEPT !.signedUrl = url]
  OBVIOUS
<1>3. u.eto.machine.state = 3 /\ Become(After(b)) /\ UNCHANGED <<whitelist, verified, now>>
  BY <1>1, <1>2, Phases DEF CompanySignsInvestmentAgreement, CompanyMaySign, StateOf
<1>4. Shaped(u) => /\ Signed(u.eto, f) /\ f.signedUrl = url
                   /\ f.nomineeSignedUrl = u.eto.nomineeSignedUrl
  BY <1>2 DEF Shaped, IsOffering, Signed
<1>5. Shaped(u) => b = AWorld(f, u.bal, u.neu, u.equity, u.locks, u.ok)
  BY <1>2 DEF Shaped, IsWorld, AWorld
<1>6. /\ Inv(u, 3) /\ Signed(u.eto, f) /\ ~Confirmed(u.eto) /\ ~Confirmed(eto)
      /\ b = AWorld(f, u.bal, u.neu, u.equity, u.locks, u.ok)
      /\ SM!Before.state = 3 /\ b.eto = f /\ b.eto.machine = SM!Before
      /\ MinReached(f) = MinReached(eto) /\ CapExceeded(f) = CapExceeded(eto)
      /\ f.tickets = eto.tickets
  BY <1>1, <1>3, <1>4, <1>5, SignatureRuns
<1>7. f.signedUrl = url /\ f.nomineeSignedUrl = u.eto.nomineeSignedUrl /\ u.eto \in Offerings
  BY <1>4, <1>6, InvTypes
<1>8. ~Confirmed(f)
  BY <1>6, <1>7 DEF Confirmed
<1>9. Inv(b, 3)
  BY <1>6, <1>7, <1>8, OfferingTypes, SignedKeeps DEF AgreementOK
<1>10. /\ Books' /\ eto'.machine = SM!After(SM!Before)
       /\ MinReached(eto)' = MinReached(f) /\ CapExceeded(eto)' = CapExceeded(f)
       /\ Confirmed(eto)' = Confirmed(f) /\ eto'.tickets = f.tickets
  BY <1>3, <1>6, <1>9, BodyKept
<1>11. Confirmed(eto)' = Confirmed(eto)
  BY <1>6, <1>8, <1>10, ConditionsAreBoolean
<1>12. SM!OtherCall
  BY <1>3, <1>6, <1>10, <1>11, Phases DEF SM!OtherCall, SM!conditions
<1>13. OpenKept
  BY <1>6, <1>10 DEF OpenKept
<1> QED
  BY <1>3, <1>10, <1>12, <1>13, SidesKept

\* The nominee names the agreement that is stored, and the offering leaves Signing.
LEMMA NomineeSigns ==
    ASSUME Books, Sides, NEW url \in Urls \cup {NoUrl}, NomineeConfirmsInvestmentAgreement(url)
    PROVE  Books' /\ Sides' /\ SM!NomineeConfirms /\ OpenKept
<1>1. PICK u : u = Before(World)
  OBVIOUS
<1>2. PICK b, f : b = [u EXCEPT !.eto.nomineeSignedUrl = url] /\ f = [u.eto EXCEPT !.nomineeSignedUrl = url]
  OBVIOUS
<1>3. u.eto.machine.state = 3 /\ url = u.eto.signedUrl /\ Become(After(b))
      /\ UNCHANGED <<whitelist, verified, now>>
  BY <1>1, <1>2, Phases DEF NomineeConfirmsInvestmentAgreement, StateOf
<1>4. Shaped(u) => /\ Signed(u.eto, f) /\ f.signedUrl = url /\ f.nomineeSignedUrl = url
  BY <1>2, <1>3 DEF Shaped, IsOffering, Signed
<1>5. Shaped(u) => b = AWorld(f, u.bal, u.neu, u.equity, u.locks, u.ok)
  BY <1>2 DEF Shaped, IsWorld, AWorld
<1>6. /\ Inv(u, 3) /\ Signed(u.eto, f)
      /\ b = AWorld(f, u.bal, u.neu, u.equity, u.locks, u.ok)
      /\ SM!Before.state = 3 /\ b.eto = f /\ b.eto.machine = SM!Before
      /\ MinReached(f) = MinReached(eto) /\ CapExceeded(f) = CapExceeded(eto)
      /\ f.tickets = eto.tickets
  BY <1>1, <1>3, <1>4, <1>5, SignatureRuns
<1>7. f.signedUrl = url /\ f.nomineeSignedUrl = url
  BY <1>4, <1>6, InvTypes
<1>8. Confirmed(f)
  BY <1>7, CommitmentAssumption DEF Confirmed, NoUrl
<1>9. Inv(b, 3)
  BY <1>6, <1>7, SignedKeeps DEF AgreementOK
<1>10. /\ Books' /\ eto'.machine = SM!After(SM!Before)
       /\ MinReached(eto)' = MinReached(f) /\ CapExceeded(eto)' = CapExceeded(f)
       /\ Confirmed(eto)' = Confirmed(f) /\ eto'.tickets = f.tickets
  BY <1>3, <1>6, <1>9, BodyKept
<1>11. Confirmed(eto)' = TRUE
  BY <1>8, <1>10, ConditionsAreBoolean
<1>12. SM!NomineeConfirms
  BY <1>3, <1>6, <1>10, <1>11, Phases DEF SM!NomineeConfirms
<1>13. OpenKept
  BY <1>6, <1>10 DEF OpenKept
<1> QED
  BY <1>3, <1>10, <1>12, <1>13, SidesKept

\* The start date becomes the deadline of the set up.
LEMMA DateSet ==
    ASSUME NEW m, MachineOK(m), NEW d \in Nat, NEW n, n = SM!RunStateMachine(m, d)
    PROVE  MachineOK(n) /\ n.state = m.state
<1>1. m = [state |-> m.state, past |-> m.past, hops |-> m.hops] /\ m \in SM!Machines
      /\ m.past \in [0 .. 6 -> Nat]
  BY MachineTypes DEF MachineOK
<1>2. PICK p : p = [m.past EXCEPT ![0] = d]
  OBVIOUS
<1>3. p \in [0 .. 6 -> Nat]
  BY <1>1, <1>2
<1>4. n = [state |-> m.state, past |-> p, hops |-> m.hops]
  BY <1>1, <1>2, Phases DEF SM!RunStateMachine
<1>5. n \in SM!Machines /\ n.state = m.state /\ n.hops = m.hops
  BY <1>1, <1>3, <1>4, Phases DEF SM!Machines
<1> QED
  BY <1>5 DEF MachineOK

\* Setting the start date is the machine's own action.
LEMMA SetStartDateKeeps ==
    ASSUME Books, Sides, NEW startDate \in StartDates, SetStartDate(startDate)
    PROVE  Books' /\ Sides' /\ SM!SetStartDate(startDate) /\ OpenKept
<1>1. PICK u, m, n : /\ u = Before(World) /\ m = BeforeMachine(World)
                     /\ n = SM!RunStateMachine(m, startDate)
  OBVIOUS
<1>2. PICK b : b = [u EXCEPT !.eto.machine = SM!RunStateMachine(@, startDate)]
  OBVIOUS
<1>3. /\ SM!CanSetStartDate(u.eto.machine, now, startDate) /\ Become(After(b))
      /\ UNCHANGED <<whitelist, verified, now>>
  BY <1>1, <1>2 DEF SetStartDate
<1>4. /\ Shaped(u) /\ MachineOK(m) /\ u.eto.machine = m
      /\ (m.state <= 2 => u = WithMachine(World, m)) /\ m.state >= eto.machine.state
      /\ MachineOK(eto.machine)
  BY <1>1, BooksTypes, ClockIsNatural, WorldIs, BeforeShape, BeforeReaches
<1>5. m.state = 0 /\ m = SM!Before
  BY <1>1, <1>3, <1>4, Phases, BeforeIs DEF SM!CanSetStartDate
<1>6. u = WithMachine(World, m) /\ eto.machine.state = 0
  <2>1. eto.machine.state \in 0 .. 6
    BY <1>4, MachineTypes DEF MachineOK
  <2> QED
    BY <1>4, <1>5, <2>1
<1>7. MachineOK(n) /\ n.state = 0
  <2>1. startDate \in Nat
    BY InputAssumption
  <2> QED
    BY <1>1, <1>4, <1>5, <2>1, DateSet
<1>8. b = WithMachine(World, n)
  <2>1. b = WithMachine(u, n)
    BY <1>1, <1>2, <1>4 DEF WithMachine
  <2> QED
    BY <1>6, <2>1, BooksTypes, WithMachineTwice
<1>9. Inv(b, 0) /\ b.eto.machine = n /\ MovedOn(World, b)
  <2>1. Inv(World, 0)
    BY <1>6 DEF Books
  <2> QED
    BY <1>7, <1>8, <2>1, BooksTypes, WithMachineKeeps, WithMachineMovesOn
<1>10. /\ Books' /\ eto'.machine = SM!After(n)
       /\ MinReached(eto)' = MinReached(b.eto) /\ CapExceeded(eto)' = CapExceeded(b.eto)
       /\ Confirmed(eto)' = Confirmed(b.eto) /\ eto'.tickets = b.eto.tickets
  BY <1>3, <1>7, <1>9, BodyKept
<1>11. /\ MinReached(b.eto) = MinReached(eto) /\ CapExceeded(b.eto) = CapExceeded(eto)
       /\ Confirmed(b.eto) = Confirmed(eto) /\ b.eto.tickets = eto.tickets
  BY <1>9, WorldIs, ConditionsMoved DEF MovedOn
<1>12. SM!SetStartDate(startDate)
  BY <1>1, <1>3, <1>4, <1>5, <1>10, <1>11 DEF SM!SetStartDate, SM!conditions
<1> QED
  BY <1>3, <1>10, <1>11, <1>12, SidesKept DEF OpenKept

\* The steps that leave offering and balances alone.
LEMMA BooksUntouched ==
    ASSUME Books, UNCHANGED <<eto, bal, neu, equity, locks>>
    PROVE  Books' /\ OpenKept
<1>1. Become(World)
  BY WorldIs DEF Become
<1> QED
  BY <1>1, WorldIs, BooksAreKept DEF Books, OpenKept

\* The whitelist admin and the identity registry.
LEMMA OthersKeep ==
    ASSUME Books, Sides,
           \/ \E i \in Investors, ticket \in WhitelistEdits : SetWhitelisted(i, ticket)
           \/ \E p \in Fallible : ChangeVerification(p)
    PROVE  Books' /\ Sides' /\ UNCHANGED SM!vars /\ OpenKept
<1>1. UNCHANGED <<eto, bal, neu, equity, locks, now>>
  BY DEF SetWhitelisted, ChangeVerification
<1>2. Sides'
  <2>1. CASE \E i \in Investors, ticket \in WhitelistEdits : SetWhitelisted(i, ticket)
    <3>1. PICK i \in Investors, ticket \in WhitelistEdits : SetWhitelisted(i, ticket)
      BY <2>1
    <3>2. ticket \in WhitelistTickets
      BY InputAssumption
    <3> QED
      BY <3>1, <3>2 DEF SetWhitelisted, Sides
  <2>2. CASE \E p \in Fallible : ChangeVerification(p)
    <3>1. PICK p \in Fallible : ChangeVerification(p)
      BY <2>2
    <3>2. p \in Investors \cup {"nominee", "company"}
      BY InputAssumption
    <3> QED
      BY <3>1, <3>2 DEF ChangeVerification, Sides
  <2> QED
    BY <2>1, <2>2
<1>3. UNCHANGED SM!vars
  BY <1>1 DEF SM!vars, MinReached, CapExceeded, Confirmed, Totals
<1> QED
  BY <1>1, <1>2, <1>3, BooksUntouched

\* Time passes.
LEMMA TickKeeps ==
    ASSUME Books, Sides, Tick
    PROVE  Books' /\ Sides' /\ SM!Tick /\ OpenKept
<1>1. UNCHANGED <<eto, bal, neu, equity, locks>>
  BY DEF Tick
<1>2. Sides'
  BY InputAssumption DEF Tick, Sides
<1>3. SM!Tick
  BY <1>1 DEF Tick, SM!Tick, SM!conditions, MinReached, CapExceeded, Confirmed, Totals
<1> QED
  BY <1>1, <1>2, <1>3, BooksUntouched

\* The nominee amends the agreement.
LEMMA AmendKeeps ==
    ASSUME Books, Sides, AmendAgreement
    PROVE  Books' /\ Sides' /\ UNCHANGED SM!vars /\ OpenKept
<1>1. PICK f : f = [eto EXCEPT !.agreements = @ + 1]
  OBVIOUS
<1>2. eto' = f /\ UNCHANGED <<bal, neu, equity, locks, whitelist, verified, now>>
  BY <1>1 DEF AmendAgreement
<1>3. eto \in Offerings /\ MachineOK(eto.machine) /\ Inv(World, eto.machine.state)
  BY BooksTypes DEF Books
<1>4. /\ f \in Offerings /\ f.machine = eto.machine /\ f.tickets = eto.tickets
      /\ f.totalEquivEurUlps = eto.totalEquivEurUlps /\ f.totalTokenAmount = eto.totalTokenAmount
      /\ f.totalFixedSlotsTokenAmount = eto.totalFixedSlotsTokenAmount
      /\ f.totalInvestors = eto.totalInvestors
      /\ f.additionalContribution = eto.additionalContribution
      /\ f.platformFee = eto.platformFee /\ f.newShares = eto.newShares
      /\ f.tokenParticipationFeeAmount = eto.tokenParticipationFeeAmount
      /\ f.signedUrl = eto.signedUrl /\ f.nomineeSignedUrl = eto.nomineeSignedUrl
  BY <1>1, <1>3 DEF Offerings
<1>5. PICK b : b = AWorld(f, bal, neu, equity, locks, World.ok)
  OBVIOUS
<1>6. /\ IsWorld(b) /\ b.eto = f /\ b.bal = bal /\ b.neu = neu /\ b.equity = equity
      /\ b.locks = locks /\ b.ok = World.ok
  BY ONLY <1>5, WorldMade
<1>7. Inv(b, eto.machine.state)
  <2>1. /\ Typed(World) /\ TicketsOK(eto, eto.machine.state)
        /\ TotalsOK(eto, eto.machine.state) /\ SharesOK(eto, eto.machine.state)
        /\ MoneyOK(eto, bal, eto.machine.state) /\ RewardsOK(eto, neu, eto.machine.state)
        /\ EquityOK(eto, equity, eto.machine.state) /\ AgreementOK(eto, eto.machine.state)
        /\ PendingOK(eto.tickets, locks)
    BY <1>3, WorldIs DEF Inv
  <2>2. Typed(b)
    BY <1>3, <1>4, <1>6, <2>1, WorldIs DEF Typed
  <2>3. TicketsOK(f, eto.machine.state) /\ TotalsOK(f, eto.machine.state)
        /\ SharesOK(f, eto.machine.state) /\ AgreementOK(f, eto.machine.state)
    BY <1>4, <2>1 DEF TicketsOK, TotalsOK, SharesOK, IssuedTokens, AgreementOK, Confirmed
  <2>4. MoneyOK(f, bal, eto.machine.state) /\ RewardsOK(f, neu, eto.machine.state)
    BY <1>4, <2>1 DEF MoneyOK, RewardsOK
  <2>5. EquityOK(f, equity, eto.machine.state)
    BY <1>4, <2>1 DEF EquityOK
  <2> QED
    BY <1>4, <1>6, <2>1, <2>2, <2>3, <2>4, <2>5 DEF Inv
<1>8. Become(b)
  <2>1. b.ok
    BY <1>6, WorldIs
  <2> QED
    BY <1>2, <1>6, <2>1 DEF Become
<1>9. Books'
  BY <1>4, <1>6, <1>7, <1>8, BooksAreKept DEF Books, Confirmed
<1>10. UNCHANGED SM!vars
  BY <1>2, <1>4 DEF SM!vars, MinReached, CapExceeded, Confirmed, Totals
<1>11. OpenKept
  BY <1>2, <1>4 DEF OpenKept
<1> QED
  BY <1>2, <1>9, <1>10, <1>11, SidesKept

-----------------------------------------------------------------------------
(***************************************************************************)
(* Money that moves without a call to the offering.                        *)
(***************************************************************************)

\* The books stay sound as long as what the offering holds and the nominee is to return
\* does.
LEMMA MoneyMovedKeeps ==
    ASSUME Books, UNCHANGED <<eto, equity>>,
           bal' \in [Currencies -> [Investors \cup Parties -> Nat]],
           neu' \in [Investors \cup {"eto", "operator"} -> Nat],
           locks' \in [Currencies -> Locks],
           \A c \in Currencies : SoundLock(locks'[c]) /\ bal'[c]["lock"] = locks'[c].total,
           MoneyOK(eto, bal', eto.machine.state), neu'["eto"] = neu["eto"],
           PendingOK(eto.tickets, locks')
    PROVE  Books' /\ OpenKept /\ UNCHANGED <<eto.machine, MinReached(eto), CapExceeded(eto), Confirmed(eto)>>
<1>1. PICK B, N, L : B = bal' /\ N = neu' /\ L = locks'
  OBVIOUS
<1>2. PICK b : b = AWorld(eto, B, N, equity, L, World.ok)
  OBVIOUS
<1>3. /\ IsWorld(b) /\ b.eto = eto /\ b.bal = B /\ b.neu = N /\ b.equity = equity
      /\ b.locks = L /\ b.ok = World.ok
  BY ONLY <1>2, WorldMade
<1>4. Become(b)
  <2>1. b.ok
    BY <1>3, WorldIs
  <2> QED
    BY <1>1, <1>3, <2>1 DEF Become
<1>5. PICK s : s = eto.machine.state
  OBVIOUS
<1>6. /\ Typed(World) /\ TicketsOK(eto, s) /\ TotalsOK(eto, s) /\ SharesOK(eto, s)
      /\ RewardsOK(eto, neu, s) /\ EquityOK(eto, equity, s) /\ AgreementOK(eto, s)
  BY <1>5, WorldIs DEF Books, Inv
<1>7. RewardsOK(eto, N, s)
  BY <1>1, <1>6 DEF RewardsOK
<1>8. Typed(b)
  BY <1>1, <1>3, <1>6, WorldIs DEF Typed
<1>9. MoneyOK(eto, B, s) /\ PendingOK(eto.tickets, L)
  BY <1>1, <1>5
<1>10. Inv(b, s)
  BY <1>3, <1>6, <1>7, <1>8, <1>9 DEF Inv
<1>11. Books'
  BY <1>3, <1>4, <1>5, <1>10, BooksAreKept DEF Books
<1> QED
  BY <1>11 DEF OpenKept, MinReached, CapExceeded, Totals, Confirmed

\* The nominee returns the capital of an offering that failed.
LEMMA NomineeReturnsKeeps ==
    ASSUME Books, Sides, NomineeReturnsCapital
    PROVE  Books' /\ Sides' /\ UNCHANGED SM!vars /\ OpenKept
<1>1. PICK b, n, r : b = bal["EUR"] /\ n = b["nominee"] /\ r = Moved(b, "nominee", "eto", n)
  OBVIOUS
<1>2. /\ eto.machine.state = 6 /\ bal' = [bal EXCEPT !["EUR"] = r]
      /\ UNCHANGED <<eto, neu, equity, locks, whitelist, verified, now>>
  BY <1>1, Phases DEF NomineeReturnsCapital
<1>3. /\ bal \in [Currencies -> [Investors \cup Parties -> Nat]]
      /\ neu \in [Investors \cup {"eto", "operator"} -> Nat]
      /\ locks \in [Currencies -> Locks]
      /\ \A c \in Currencies : SoundLock(locks[c]) /\ bal[c]["lock"] = locks[c].total
      /\ eto.tickets \in [Investors -> Tickets]
  BY BooksTypes, OfferingTypes
<1>4. /\ r \in [Investors \cup Parties -> Nat]
      /\ r["nominee"] = 0 /\ r["eto"] = b["eto"] + n /\ r["lock"] = b["lock"]
      /\ b \in [Investors \cup Parties -> Nat] /\ n \in Nat /\ b["eto"] \in Nat
  <2>1. PICK P, x, y, z : P = Investors \cup Parties /\ x = "nominee" /\ y = "eto" /\ z = "lock"
    OBVIOUS
  <2>2. x \in P /\ y \in P /\ z \in P /\ x # y /\ z # x /\ z # y
    BY <2>1, PartyFacts
  <2>3. b \in [P -> Nat]
    BY <1>1, <1>3, <2>1, CurrencyFacts
  <2>4. n = b[x] /\ n \in Nat /\ b[x] >= n /\ r = Moved(b, x, y, n)
    BY <1>1, <2>1, <2>2, <2>3
  <2>5. r \in [P -> Nat] /\ r[x] = b[x] - n /\ r[y] = b[y] + n /\ \A p \in P \ {x, y} : r[p] = b[p]
    BY ONLY <2>2, <2>3, <2>4, MovedIs
  <2> QED
    BY <2>1, <2>2, <2>3, <2>4, <2>5
<1>5. /\ bal' \in [Currencies -> [Investors \cup Parties -> Nat]]
      /\ bal'["EUR"] = r /\ \A d \in Currencies \ {"EUR"} : bal'[d] = bal[d]
  <2>1. PICK R, f, g, e : R = [Investors \cup Parties -> Nat] /\ f = bal /\ g = bal' /\ e = "EUR"
    OBVIOUS
  <2>2. f \in [Currencies -> R] /\ r \in R /\ g = [f EXCEPT ![e] = r] /\ e \in Currencies
    BY <1>2, <1>3, <1>4, <2>1, CurrencyFacts
  <2>3. g \in [Currencies -> R] /\ g[e] = r /\ \A d \in Currencies \ {e} : g[d] = f[d]
    BY ONLY <2>2
  <2> QED
    BY <2>1, <2>3
<1>6. \A c \in Currencies : SoundLock(locks'[c]) /\ bal'[c]["lock"] = locks'[c].total
  BY <1>1, <1>2, <1>3, <1>4, <1>5
<1>7. MoneyOK(eto, bal', 6)
  <2>1. MoneyOK(eto, bal, 6) /\ PendingOK(eto.tickets, locks)
    BY <1>2, WorldIs DEF Books, Inv
  <2>2. ASSUME NEW c \in Currencies
        PROVE  bal'[c]["eto"] = OpenAmountOf(eto.tickets, c) - Held(bal', c)
    <3>1. bal[c]["eto"] = OpenAmountOf(eto.tickets, c) - Held(bal, c)
      BY <2>1 DEF MoneyOK
    <3>2. OpenAmountOf(eto.tickets, c) \in Nat
      BY <1>3, TicketSums
    <3>3. CASE c = "EUR"
      BY <1>1, <1>4, <1>5, <3>1, <3>2, <3>3 DEF Held
    <3>4. CASE c # "EUR"
      BY <1>5, <3>1, <3>4 DEF Held
    <3> QED
      BY <3>3, <3>4
  <2> QED
    BY <2>2 DEF MoneyOK
<1>8. PendingOK(eto.tickets, locks)
  BY WorldIs DEF Books, Inv
<1>9. Books' /\ OpenKept /\ UNCHANGED <<eto.machine, MinReached(eto), CapExceeded(eto), Confirmed(eto)>>
  BY <1>2, <1>3, <1>5, <1>6, <1>7, <1>8, MoneyMovedKeeps
<1>10. UNCHANGED SM!vars
  BY <1>2, <1>9 DEF SM!vars
<1> QED
  BY <1>2, <1>9, <1>10, SidesKept

\* An investor leaves the wallet.
LEMMA UnlockKeeps ==
    ASSUME Books, Sides, NEW i \in Investors, NEW c \in Currencies, Unlock(i, c)
    PROVE  Books' /\ Sides' /\ UNCHANGED SM!vars /\ OpenKept
<1>1. PICK b, a, l : b = bal[c] /\ a = locks[c].accounts[i] /\ l = locks[c]
  OBVIOUS
<1>2. PICK p, x, r, k : /\ p = Penalty(a, now) /\ x = Moved(b, "lock", "disbursal", p)
                        /\ r = Moved(x, "lock", i, a.balance - p) /\ k = RemoveInvestor(l, i)
  OBVIOUS
<1>3. /\ a.balance > 0 /\ neu[i] >= a.neumarksDue
      /\ locks' = [locks EXCEPT ![c] = k]
      /\ neu' = [neu EXCEPT ![i] = @ - a.neumarksDue]
      /\ bal' = [bal EXCEPT ![c] = r]
      /\ UNCHANGED <<eto, equity, whitelist, verified, now>>
  BY <1>1, <1>2 DEF Unlock
<1>4. /\ bal \in [Currencies -> [Investors \cup Parties -> Nat]]
      /\ neu \in [Investors \cup {"eto", "operator"} -> Nat]
      /\ locks \in [Currencies -> Locks]
      /\ \A d \in Currencies : SoundLock(locks[d]) /\ bal[d]["lock"] = locks[d].total
  BY BooksTypes
<1>5. /\ l \in Locks /\ SoundLock(l) /\ b["lock"] = l.total /\ b \in [Investors \cup Parties -> Nat]
      /\ a \in Accounts /\ a.balance \in Nat /\ a.neumarksDue \in Nat /\ a.balance <= l.total
      /\ l.total \in Nat
  <2>1. l \in Locks /\ SoundLock(l) /\ b["lock"] = l.total /\ b \in [Investors \cup Parties -> Nat]
    BY <1>1, <1>4
  <2>2. a = l.accounts[i]
    BY <1>1
  <2> QED
    BY <2>1, <2>2, LockTypes, LockSums, SoundLockParts
<1>6. p \in Nat /\ p <= a.balance
  <2>1. p \in 0 .. a.balance
    BY <1>2, <1>5, PenaltyIsPart
  <2> QED
    BY <1>5, <2>1
<1>7. /\ SoundLock(k) /\ k \in Locks /\ k.total = l.total - a.balance /\ k.commitments = l.commitments
  <2>1. l.accounts[i].balance > 0 /\ a = l.accounts[i]
    BY <1>1, <1>3
  <2> QED
    BY <1>2, <1>5, <2>1, RemoveInvestorIsSound, SoundLockParts
<1>8. /\ r \in [Investors \cup Parties -> Nat]
      /\ r["lock"] = b["lock"] - a.balance
      /\ r["eto"] = b["eto"] /\ r["nominee"] = b["nominee"]
  <2>1. PICK P, y, z : P = Investors \cup Parties /\ y = "lock" /\ z = "disbursal"
    OBVIOUS
  <2>2. y \in P /\ z \in P /\ i \in P /\ y # z /\ y # i /\ z # i
    BY <2>1, PartyFacts
  <2>3. /\ b \in [P -> Nat] /\ b[y] >= p /\ x = Moved(b, y, z, p)
        /\ b[y] \in Nat /\ b[y] >= a.balance
    BY <1>2, <1>5, <1>6, <2>1, <2>2
  <2>4. x \in [P -> Nat] /\ x[y] = b[y] - p /\ \A o \in P \ {y, z} : x[o] = b[o]
    BY ONLY <1>6, <2>2, <2>3, MovedIs
  <2>5. PICK q \in Nat : q = a.balance - p
    BY <1>5, <1>6
  <2>6. x[y] >= q /\ r = Moved(x, y, i, q)
    BY <1>2, <1>5, <1>6, <2>1, <2>3, <2>4, <2>5
  <2>7. r \in [P -> Nat] /\ r[y] = x[y] - q /\ \A o \in P \ {y, i} : r[o] = x[o]
    BY ONLY <2>2, <2>4, <2>5, <2>6, MovedIs
  <2>8. r[y] = b[y] - a.balance
    BY <1>5, <1>6, <2>3, <2>4, <2>5, <2>7
  <2>9. "eto" \in P \ {y, z, i} /\ "nominee" \in P \ {y, z, i}
    BY <2>1, PartyFacts
  <2> QED
    BY <2>1, <2>4, <2>7, <2>8, <2>9
<1>9. /\ bal' \in [Currencies -> [Investors \cup Parties -> Nat]]
      /\ bal'[c] = r /\ \A d \in Currencies \ {c} : bal'[d] = bal[d]
  <2>1. PICK R, f, g : R = [Investors \cup Parties -> Nat] /\ f = bal /\ g = bal'
    OBVIOUS
  <2>2. f \in [Currencies -> R] /\ r \in R /\ g = [f EXCEPT ![c] = r]
    BY <1>3, <1>4, <1>8, <2>1
  <2>3. g \in [Currencies -> R] /\ g[c] = r /\ \A d \in Currencies \ {c} : g[d] = f[d]
    BY ONLY <2>2, c \in Currencies
  <2> QED
    BY <2>1, <2>3
<1>10. /\ locks' \in [Currencies -> Locks]
       /\ locks'[c] = k /\ \A d \in Currencies \ {c} : locks'[d] = locks[d]
  <2>1. PICK f, g : f = locks /\ g = locks'
    OBVIOUS
  <2>2. f \in [Currencies -> Locks] /\ k \in Locks /\ g = [f EXCEPT ![c] = k]
    BY <1>3, <1>4, <1>7, <2>1
  <2>3. g \in [Currencies -> Locks] /\ g[c] = k /\ \A d \in Currencies \ {c} : g[d] = f[d]
    BY ONLY <2>2, c \in Currencies
  <2> QED
    BY <2>1, <2>3
<1>11. neu' \in [Investors \cup {"eto", "operator"} -> Nat] /\ neu'["eto"] = neu["eto"]
  <2>1. PICK N, f, g, y, n : N = Investors \cup {"eto", "operator"} /\ f = neu /\ g = neu' /\ y = "eto"
                             /\ n = neu[i] - a.neumarksDue
    OBVIOUS
  <2>2. f \in [N -> Nat] /\ i \in N /\ y \in N /\ y # i /\ n \in Nat
    BY <1>3, <1>4, <1>5, <2>1, PartyFacts
  <2>3. g = [f EXCEPT ![i] = n]
    BY <1>3, <2>1
  <2>4. g \in [N -> Nat] /\ g[y] = f[y]
    BY ONLY <2>2, <2>3
  <2> QED
    BY <2>1, <2>4
<1>12. \A d \in Currencies : SoundLock(locks'[d]) /\ bal'[d]["lock"] = locks'[d].total
  BY <1>1, <1>4, <1>5, <1>7, <1>8, <1>9, <1>10
<1>13. PICK s : s = eto.machine.state
  OBVIOUS
<1>14. MoneyOK(eto, bal, s) /\ PendingOK(eto.tickets, locks)
  BY <1>13, WorldIs DEF Books, Inv
<1>15. MoneyOK(eto, bal', s)
  <2>1. \A d \in Currencies : bal'[d]["eto"] = bal[d]["eto"] /\ Held(bal', d) = Held(bal, d)
    BY <1>1, <1>8, <1>9 DEF Held
  <2> QED
    BY <1>14, <2>1 DEF MoneyOK
<1>16. PendingOK(eto.tickets, locks')
  <2>1. \A d \in Currencies : locks'[d].commitments = locks[d].commitments
    BY <1>1, <1>7, <1>10
  <2> QED
    BY <1>14, <2>1 DEF PendingOK
<1>17. Books' /\ OpenKept /\ UNCHANGED <<eto.machine, MinReached(eto), CapExceeded(eto), Confirmed(eto)>>
  BY <1>3, <1>9, <1>10, <1>11, <1>12, <1>13, <1>15, <1>16, MoneyMovedKeeps
<1>18. UNCHANGED SM!vars
  BY <1>3, <1>17 DEF SM!vars
<1> QED
  BY <1>3, <1>17, <1>18, SidesKept

-----------------------------------------------------------------------------
(***************************************************************************)
(* Settling a ticket.                                                      *)
(***************************************************************************)
Settle(w, i) == [w EXCEPT !.eto.tickets[i].settled = TRUE]

SettledTickets(T, i) == [T EXCEPT ![i].settled = TRUE]

\* f is the offering e with other tickets.
Reticketed(e, f, U) ==
    /\ IsOffering(f) /\ f.machine = e.machine /\ f.tickets = U
    /\ f.agreements = e.agreements /\ f.totalEquivEurUlps = e.totalEquivEurUlps
    /\ f.totalTokenAmount = e.totalTokenAmount
    /\ f.totalFixedSlotsTokenAmount = e.totalFixedSlotsTokenAmount
    /\ f.totalInvestors = e.totalInvestors
    /\ f.additionalContribution = e.additionalContribution
    /\ f.platformFee = e.platformFee /\ f.newShares = e.newShares
    /\ f.tokenParticipationFeeAmount = e.tokenParticipationFeeAmount
    /\ f.signedUrl = e.signedUrl /\ f.nomineeSignedUrl = e.nomineeSignedUrl

\* Nothing else changes.
LEMMA SettleIs ==
    ASSUME NEW w, Shaped(w), NEW i, NEW v, v = Settle(w, i)
    PROVE  /\ Shaped(v) /\ Reticketed(w.eto, v.eto, SettledTickets(w.eto.tickets, i))
           /\ v.bal = w.bal /\ v.neu = w.neu /\ v.equity = w.equity /\ v.locks = w.locks
           /\ v.ok = w.ok
<1>1. PICK U : U = SettledTickets(w.eto.tickets, i)
  OBVIOUS
<1>2. PICK f : f = [w.eto EXCEPT !.tickets = U]
  OBVIOUS
<1>3. IsOffering(f) /\ Reticketed(w.eto, f, U)
  BY <1>2 DEF Shaped, IsOffering, Reticketed
<1>4. v = AWorld(f, w.bal, w.neu, w.equity, w.locks, w.ok)
  <2>1. v = [w EXCEPT !.eto = [w.eto EXCEPT !.tickets = U]]
    BY <1>1 DEF Settle, SettledTickets
  <2> QED
    BY <1>2, <2>1 DEF Shaped, IsWorld, AWorld
<1>5. /\ IsWorld(v) /\ v.eto = f /\ v.bal = w.bal /\ v.neu = w.neu /\ v.equity = w.equity
      /\ v.locks = w.locks /\ v.ok = w.ok
  BY ONLY <1>4, WorldMade
<1> QED
  BY <1>1, <1>3, <1>5 DEF Shaped

\* The ticket is the same, but settled.
LEMMA SettledTicketsAre ==
    ASSUME NEW T \in [Investors -> Tickets], NEW i \in Investors, IsOpen(T[i]),
           NEW U, U = SettledTickets(T, i)
    PROVE  /\ U \in [Investors -> Tickets] /\ \A j \in Investors \ {i} : U[j] = T[j]
           /\ ~IsOpen(U[i]) /\ U[i].settled
           /\ U[i].equivEurUlps = T[i].equivEurUlps /\ U[i].equivEurUlps > 0
           /\ Holders(U) = Holders(T) /\ TokensOf(U) = TokensOf(T) /\ EquivOf(U) = EquivOf(T)
           /\ OpenRewardsOf(U) = OpenRewardsOf(T) - T[i].rewardNmkUlps
           /\ OpenTokensOf(U) = OpenTokensOf(T) - T[i].equityTokenAmount
           /\ \A c \in Currencies : OpenAmountOf(U, c) = OpenAmountOf(T, c) - T[i].amount[c]
           /\ OpenRewardsOf(T) \in Nat /\ T[i].rewardNmkUlps \in Nat
           /\ OpenTokensOf(T) \in Nat /\ T[i].equityTokenAmount \in Nat
           /\ \A c \in Currencies : OpenAmountOf(T, c) \in Nat /\ T[i].amount[c] \in Nat
           /\ \A c \in Currencies : T[i].amount[c] <= OpenAmountOf(T, c)
<1>1. PICK t, u : t = T[i] /\ u = [t EXCEPT !.settled = TRUE]
  OBVIOUS
<1>2. t \in Tickets /\ U = [T EXCEPT ![i] = u]
  BY <1>1 DEF SettledTickets
<1>3. u = [equivEurUlps |-> t.equivEurUlps, rewardNmkUlps |-> t.rewardNmkUlps,
           equityTokenAmount |-> t.equityTokenAmount, amount |-> t.amount,
           usedLockedAccount |-> t.usedLockedAccount, settled |-> TRUE]
  <2>1. t = [equivEurUlps |-> t.equivEurUlps, rewardNmkUlps |-> t.rewardNmkUlps,
             equityTokenAmount |-> t.equityTokenAmount, amount |-> t.amount,
             usedLockedAccount |-> t.usedLockedAccount, settled |-> t.settled]
    BY <1>2, TicketTypes
  <2>2. u = [t EXCEPT !.settled = TRUE]
    BY <1>1
  <2> QED
    BY ONLY <2>1, <2>2
<1>4. /\ u \in Tickets /\ u.settled /\ u.equivEurUlps = t.equivEurUlps
      /\ u.equityTokenAmount = t.equityTokenAmount /\ ~IsOpen(u)
  <2>1. u \in Tickets
    BY <1>2, <1>3, TicketTypes DEF Tickets
  <2> QED
    BY <1>3, <2>1 DEF IsOpen
<1>5. U \in [Investors -> Tickets] /\ U[i] = u /\ \A j \in Investors \ {i} : U[j] = T[j]
  BY <1>2, <1>4
<1>6. IsOpen(t) /\ t.equivEurUlps > 0 /\ u.equivEurUlps > 0
  BY <1>1, <1>4 DEF IsOpen
<1>7. U[i] # NoTicket /\ T[i] # NoTicket
  <2>1. NoTicket.equivEurUlps = 0 /\ T[i] = t
    BY <1>1, NoTicketIs
  <2> QED
    BY ONLY <1>5, <1>6, <2>1
<1>8. Holders(U) = Holders(T)
  BY <1>5, <1>7, HolderKept
<1>9. /\ TokensOf(U) = TokensOf(T) - t.equityTokenAmount + t.equityTokenAmount
      /\ EquivOf(U) = EquivOf(T) - t.equivEurUlps + t.equivEurUlps
      /\ OpenRewardsOf(U) = OpenRewardsOf(T) - t.rewardNmkUlps + 0
      /\ OpenTokensOf(U) = OpenTokensOf(T) - t.equityTokenAmount + 0
      /\ \A c \in Currencies : OpenAmountOf(U, c) = OpenAmountOf(T, c) - t.amount[c] + 0
  <2>1. T[i] = t /\ U[i] = u /\ IsOpen(t) /\ ~IsOpen(u) /\ u.equivEurUlps = t.equivEurUlps
        /\ u.equityTokenAmount = t.equityTokenAmount
    BY <1>1, <1>4, <1>5, <1>6
  <2>2. U \in [Investors -> Tickets] /\ \A j \in Investors \ {i} : U[j] = T[j]
    BY <1>5
  <2>3. TokensOf(U) = TokensOf(T) - T[i].equityTokenAmount + U[i].equityTokenAmount
    BY <2>2, TicketChange
  <2>4. EquivOf(U) = EquivOf(T) - T[i].equivEurUlps + U[i].equivEurUlps
    BY <2>2, TicketChange
  <2>5. OpenRewardsOf(U) = OpenRewardsOf(T) - (IF IsOpen(T[i]) THEN T[i].rewardNmkUlps ELSE 0)
                                            + (IF IsOpen(U[i]) THEN U[i].rewardNmkUlps ELSE 0)
    BY <2>2, TicketChange
  <2>6. OpenTokensOf(U) = OpenTokensOf(T) - (IF IsOpen(T[i]) THEN T[i].equityTokenAmount ELSE 0)
                                          + (IF IsOpen(U[i]) THEN U[i].equityTokenAmount ELSE 0)
    BY <2>2, TicketChange
  <2>7. ASSUME NEW c \in Currencies
        PROVE  OpenAmountOf(U, c) = OpenAmountOf(T, c) - (IF IsOpen(T[i]) THEN T[i].amount[c] ELSE 0)
                                                       + (IF IsOpen(U[i]) THEN U[i].amount[c] ELSE 0)
    BY <2>2, TicketChange
  <2> QED
    BY <2>1, <2>3, <2>4, <2>5, <2>6, <2>7
<1>10. /\ TokensOf(T) \in Nat /\ EquivOf(T) \in Nat /\ OpenRewardsOf(T) \in Nat
       /\ OpenTokensOf(T) \in Nat /\ \A c \in Currencies : OpenAmountOf(T, c) \in Nat
       /\ \A c \in Currencies : t.amount[c] <= OpenAmountOf(T, c)
  BY <1>1, <1>6, TicketSums
<1>11. /\ t.equityTokenAmount \in Nat /\ t.equivEurUlps \in Nat /\ t.rewardNmkUlps \in Nat
       /\ \A c \in Currencies : t.amount[c] \in Nat
  BY <1>2, TicketTypes
<1> QED
  BY <1>1, <1>4, <1>5, <1>6, <1>8, <1>9, <1>10, <1>11

\* The parts of an offering that a settled ticket does not touch stay in order.
LEMMA SettledBooks ==
    ASSUME NEW e \in Offerings, NEW s \in 4 .. 6, TicketsOK(e, s), TotalsOK(e, s), SharesOK(e, s),
           AgreementOK(e, s), MachineOK(e.machine), NEW i \in Investors, IsOpen(e.tickets[i]), NEW f,
           Reticketed(e, f, SettledTickets(e.tickets, i))
    PROVE  /\ f \in Offerings /\ TicketsOK(f, s) /\ TotalsOK(f, s) /\ SharesOK(f, s)
           /\ AgreementOK(f, s) /\ MachineOK(f.machine)
<1>1. PICK T, U : T = e.tickets /\ U = f.tickets
  OBVIOUS
<1>2. T \in [Investors -> Tickets] /\ U = SettledTickets(T, i) /\ IsOpen(T[i])
  BY <1>1, OfferingTypes DEF Reticketed
<1>3. /\ U \in [Investors -> Tickets] /\ \A j \in Investors \ {i} : U[j] = T[j]
      /\ U[i].settled /\ U[i].equivEurUlps > 0
      /\ Holders(U) = Holders(T) /\ TokensOf(U) = TokensOf(T) /\ EquivOf(U) = EquivOf(T)
  BY <1>2, SettledTicketsAre
<1>4. f \in Offerings
  BY <1>1, <1>3, OfferingTypes, OfferingMade DEF Reticketed
<1>5. TicketsOK(f, s)
  BY <1>1, <1>3 DEF TicketsOK
<1>6. TotalsOK(f, s)
  BY <1>1, <1>3 DEF TotalsOK, Reticketed
<1>7. SharesOK(f, s) /\ AgreementOK(f, s) /\ MachineOK(f.machine)
  BY DEF SharesOK, AgreementOK, IssuedTokens, Confirmed, Reticketed
<1> QED
  BY <1>4, <1>5, <1>6, <1>7

-----------------------------------------------------------------------------
(***************************************************************************)
(* Claiming.                                                               *)
(***************************************************************************)
WithLocks(w, L) == [w EXCEPT !.locks = L]

\* The record with other locks.
LEMMA WithLocksIs ==
    ASSUME NEW w, IsWorld(w), NEW L, NEW v, v = WithLocks(w, L)
    PROVE  /\ IsWorld(v) /\ v.eto = w.eto /\ v.bal = w.bal /\ v.neu = w.neu /\ v.equity = w.equity
           /\ v.locks = L /\ v.ok = w.ok
<1>1. v = AWorld(w.eto, w.bal, w.neu, w.equity, L, w.ok)
  BY DEF WithLocks, IsWorld, AWorld
<1> QED
  BY ONLY <1>1, WorldMade

\* claimTokens settles an open ticket, and nothing else.
LEMMA ClaimTokensIs ==
    ASSUME NEW w, NEW i, NEW v, v = ClaimTokens(w, i)
    PROVE  LET t  == w.eto.tickets[i]
               w1 == Settle(w, i)
               w2 == DistributeNeu(w1, i, t.rewardNmkUlps)
               w3 == DistributeTokens(w2, i, t.equityTokenAmount)
           IN \/ ~IsOpen(t) /\ v = w
              \/ /\ IsOpen(t)
                 /\ v = IF t.usedLockedAccount
                        THEN WithLocks(w3, [c \in Currencies |-> Claimed(w3.locks[c], "eto", i)]) ELSE w3
BY Zenon DEF ClaimTokens, Settle, WithLocks, HasOpenTicket, IsOpen

\* It is a step of the transaction, ...
LEMMA ClaimTokensShape ==
    ASSUME NEW w, Shaped(w), NEW i
    PROVE  Later(w, ClaimTokens(w, i))
<1>1. PICK v, t : v = ClaimTokens(w, i) /\ t = w.eto.tickets[i]
  OBVIOUS
<1>2. PICK w1 : w1 = Settle(w, i)
  OBVIOUS
<1>3. PICK w2 : w2 = DistributeNeu(w1, i, t.rewardNmkUlps)
  OBVIOUS
<1>4. PICK w3 : w3 = DistributeTokens(w2, i, t.equityTokenAmount)
  OBVIOUS
<1>5. Later(w, w1)
  BY <1>2, SettleIs DEF Later, Reticketed
<1>6. Later(w1, w2) /\ Later(w2, w3)
  BY <1>3, <1>4, <1>5, NeuIsLater, TokensAreLater DEF Later
<1>7. Later(w, w3)
  BY <1>5, <1>6, LaterTwice
<1>8. PICK L : L = [c \in Currencies |-> Claimed(w3.locks[c], "eto", i)]
  OBVIOUS
<1>9. v = w \/ v = w3 \/ v = WithLocks(w3, L)
  BY <1>1, <1>2, <1>3, <1>4, <1>8, ClaimTokensIs
<1>10. Later(w, WithLocks(w3, L))
  BY <1>7, WithLocksIs DEF Later, Shaped
<1> QED
  BY <1>1, <1>7, <1>9, <1>10 DEF Later

\* ... and keeps the books.
LEMMA ClaimTokensKeeps ==
    ASSUME NEW w, NEW s \in {4, 5}, Inv(w, s), NEW i \in Investors,
           NEW v, v = ClaimTokens(w, i), v.ok
    PROVE  /\ Inv(v, s) /\ v.eto.machine = w.eto.machine
           /\ v.eto.totalTokenAmount = w.eto.totalTokenAmount
           /\ v.eto.totalEquivEurUlps = w.eto.totalEquivEurUlps
           /\ v.eto.nomineeSignedUrl = w.eto.nomineeSignedUrl
<1>1. PICK t, T, U : t = w.eto.tickets[i] /\ T = w.eto.tickets /\ U = SettledTickets(T, i)
  OBVIOUS
<1>2. CASE ~IsOpen(t)
  BY <1>1, <1>2, ClaimTokensIs
<1>3. CASE IsOpen(t)
  <2>1. PICK w1 : w1 = Settle(w, i)
    OBVIOUS
  <2>2. PICK w2 : w2 = DistributeNeu(w1, i, t.rewardNmkUlps)
    OBVIOUS
  <2>3. PICK w3 : w3 = DistributeTokens(w2, i, t.equityTokenAmount)
    OBVIOUS
  <2>4. PICK L : L = [c \in Currencies |-> Claimed(w3.locks[c], "eto", i)]
    BY Zenon
  <2>5. v = IF t.usedLockedAccount THEN WithLocks(w3, L) ELSE w3
    BY <1>1, <1>3, <2>1, <2>2, <2>3, <2>4, ClaimTokensIs, Zenon
  <2>6. /\ Typed(w) /\ w.eto \in Offerings /\ T \in [Investors -> Tickets] /\ Shaped(w)
        /\ MachineOK(w.eto.machine)
    BY <1>1, InvTypes, OfferingTypes DEF Inv
  <2>7. /\ Shaped(w1) /\ Reticketed(w.eto, w1.eto, U)
        /\ w1.bal = w.bal /\ w1.neu = w.neu /\ w1.equity = w.equity /\ w1.locks = w.locks
    BY <1>1, <2>1, <2>6, SettleIs
  <2>8. /\ w1.eto \in Offerings /\ TicketsOK(w1.eto, s) /\ TotalsOK(w1.eto, s)
        /\ SharesOK(w1.eto, s) /\ AgreementOK(w1.eto, s) /\ MachineOK(w1.eto.machine)
    <3>1. TicketsOK(w.eto, s) /\ TotalsOK(w.eto, s) /\ SharesOK(w.eto, s) /\ AgreementOK(w.eto, s)
      BY DEF Inv
    <3>2. s \in 4 .. 6
      OBVIOUS
    <3> QED
      BY <1>1, <1>3, <2>6, <2>7, <3>1, <3>2, SettledBooks
  <2>9. Typed(w1)
    BY <2>6, <2>7, <2>8 DEF Typed, Shaped
  <2>10. /\ T[i] = t /\ U \in [Investors -> Tickets]
         /\ \A j \in Investors \ {i} : U[j] = T[j]
         /\ OpenRewardsOf(U) = OpenRewardsOf(T) - t.rewardNmkUlps
         /\ OpenTokensOf(U) = OpenTokensOf(T) - t.equityTokenAmount
         /\ OpenRewardsOf(T) \in Nat /\ t.rewardNmkUlps \in Nat
         /\ OpenTokensOf(T) \in Nat /\ t.equityTokenAmount \in Nat
    <3>1. T[i] = t /\ IsOpen(T[i])
      BY <1>1, <1>3
    <3> QED
      BY <1>1, <2>6, <3>1, SettledTicketsAre
  <2>11. i \in DOMAIN w1.neu /\ i # "eto" /\ i \in DOMAIN w1.equity
    BY <2>9, PartyFacts DEF Typed
  <2>12. w3.ok
    BY <2>5, <2>7, <2>2, <2>3, NeuIsLater, TokensAreLater, WithLocksIs DEF Later, Shaped
  <2>13. w2.ok /\ Shaped(w2)
    BY <2>2, <2>3, <2>7, <2>12, NeuIsLater, TokensAreLater DEF Later
  <2>14. /\ w2.eto = w1.eto /\ w2.bal = w1.bal /\ w2.equity = w1.equity /\ w2.locks = w1.locks
         /\ w2.neu["eto"] = w1.neu["eto"] - t.rewardNmkUlps /\ Typed(w2)
    BY <2>2, <2>9, <2>10, <2>11, <2>13, NeuMoved
  <2>15. /\ w3.eto = w2.eto /\ w3.bal = w2.bal /\ w3.neu = w2.neu /\ w3.locks = w2.locks
         /\ w3.equity["eto"] = w2.equity["eto"] - t.equityTokenAmount /\ Typed(w3)
    BY <2>3, <2>10, <2>11, <2>12, <2>14, TokensMoved
  <2>16. /\ IsWorld(v) /\ v.eto = w1.eto /\ v.bal = w.bal
         /\ v.neu = w3.neu /\ v.equity = w3.equity
         /\ v.neu["eto"] = w.neu["eto"] - t.rewardNmkUlps
         /\ v.equity["eto"] = w.equity["eto"] - t.equityTokenAmount
    <3>1. /\ IsWorld(v) /\ v.eto = w3.eto /\ v.bal = w3.bal /\ v.neu = w3.neu
          /\ v.equity = w3.equity
      BY <2>5, <2>15, WithLocksIs DEF Typed
    <3> QED
      BY <2>7, <2>14, <2>15, <3>1
  <2>17. /\ v.locks \in [Currencies -> Locks]
         /\ \A c \in Currencies : SoundLock(v.locks[c]) /\ v.locks[c].total = w.locks[c].total
         /\ \A c \in Currencies, j \in Investors :
               v.locks[c].commitments["eto"][j] =
                  IF t.usedLockedAccount /\ j = i THEN NoMoney ELSE w.locks[c].commitments["eto"][j]
    <3>1. w3.locks = w.locks /\ w.locks \in [Currencies -> Locks]
          /\ \A c \in Currencies : SoundLock(w.locks[c])
      BY <2>6, <2>7, <2>14, <2>15 DEF Typed
    <3>2. CASE ~t.usedLockedAccount
      BY <2>5, <3>1, <3>2
    <3>3. CASE t.usedLockedAccount
      <4>1. v.locks = L
        BY <2>5, <2>15, <3>3, WithLocksIs DEF Typed
      <4>2. ASSUME NEW c \in Currencies
            PROVE  /\ SoundLock(L[c]) /\ L[c] \in Locks /\ L[c].total = w.locks[c].total
                   /\ \A j \in Investors :
                         L[c].commitments["eto"][j] =
                            IF j = i THEN NoMoney ELSE w.locks[c].commitments["eto"][j]
        <5>1. PICK l, k : l = w.locks[c] /\ k = L[c]
          OBVIOUS
        <5>2. l \in Locks /\ SoundLock(l) /\ k = Claimed(l, "eto", i)
          BY <2>4, <3>1, <5>1
        <5>3. SoundLock(k) /\ k \in Locks /\ k.total = l.total
          BY <5>2, PartyFacts, ClaimedIsSound, SoundLockParts
        <5>4. \A j \in Investors :
                 k.commitments["eto"][j] = IF j = i THEN NoMoney ELSE l.commitments["eto"][j]
          BY <5>2, PartyFacts, ClaimedIs
        <5> QED
          BY <5>1, <5>3, <5>4
      <4>3. L \in [Currencies -> Locks]
        BY <2>4, <4>2
      <4> QED
        BY <3>3, <4>1, <4>2, <4>3
    <3> QED
      BY <3>2, <3>3
  <2>18. Typed(v)
    <3>1. /\ v.neu \in [Investors \cup {"eto", "operator"} -> Nat]
          /\ v.equity \in [Investors \cup {"eto", "portfolio"} -> Nat]
      BY <2>15, <2>16 DEF Typed
    <3>2. /\ v.bal \in [Currencies -> [Investors \cup Parties -> Nat]]
          /\ \A c \in Currencies : v.bal[c]["lock"] = v.locks[c].total
      BY <2>6, <2>16, <2>17 DEF Typed
    <3> QED
      BY <2>8, <2>16, <2>17, <3>1, <3>2 DEF Typed
  <2>19. v.eto.tickets = U
    BY <2>7, <2>16 DEF Reticketed
  <2>20. MoneyOK(v.eto, v.bal, s)
    <3>1. v.eto.platformFee = w.eto.platformFee
      BY <2>7, <2>16 DEF Reticketed
    <3> QED
      BY <2>16, <3>1 DEF Inv, MoneyOK
  <2>21. RewardsOK(v.eto, v.neu, s)
    <3>1. w.neu["eto"] >= OpenRewardsOf(T)
      BY <1>1 DEF Inv, RewardsOK
    <3>2. w.neu["eto"] \in Nat
      BY <2>6, PartyFacts DEF Typed
    <3>3. v.neu["eto"] >= OpenRewardsOf(U)
      BY <2>10, <2>16, <3>1, <3>2
    <3> QED
      BY <2>19, <3>3 DEF RewardsOK
  <2>22. EquityOK(v.eto, v.equity, s)
    <3>1. w.equity["eto"] = CASE s = 4 -> OpenTokensOf(T) + w.eto.tokenParticipationFeeAmount
                              [] s = 5 -> OpenTokensOf(T)
                              [] OTHER -> 0
      BY <1>1 DEF Inv, EquityOK
    <3>2. /\ v.eto.tokenParticipationFeeAmount = w.eto.tokenParticipationFeeAmount
          /\ w.eto.tokenParticipationFeeAmount \in Nat
      BY <2>6, <2>7, <2>16, OfferingTypes DEF Reticketed
    <3>3. CASE s = 4
      BY <2>10, <2>16, <2>19, <3>1, <3>2, <3>3 DEF EquityOK
    <3>4. CASE s = 5
      BY <2>10, <2>16, <2>19, <3>1, <3>2, <3>4 DEF EquityOK
    <3> QED
      BY <3>3, <3>4
  <2>23. PendingOK(U, v.locks)
    <3>1. PendingOK(T, w.locks)
      BY <1>1 DEF Inv
    <3>2. ASSUME NEW j \in Investors, NEW c \in Currencies,
                 v.locks[c].commitments["eto"][j].balance > 0
          PROVE  /\ IsOpen(U[j]) /\ U[j].usedLockedAccount
                 /\ v.locks[c].commitments["eto"][j].balance <= U[j].amount[c]
      <4>1. CASE j = i
        <5>1. ~t.usedLockedAccount
          BY <2>17, <3>2, <4>1 DEF NoMoney
        <5>2. w.locks[c].commitments["eto"][i].balance > 0
          BY <2>17, <3>2, <4>1, <5>1
        <5>3. T[i].usedLockedAccount
          BY <3>1, <5>2 DEF PendingOK
        <5> QED
          BY <2>10, <5>1, <5>3
      <4>2. CASE j # i
        BY <2>10, <2>17, <3>1, <3>2, <4>2 DEF PendingOK
      <4> QED
        BY <4>1, <4>2
    <3> QED
      BY <3>2 DEF PendingOK
  <2>24. Inv(v, s)
    BY <2>8, <2>16, <2>18, <2>19, <2>20, <2>21, <2>22, <2>23 DEF Inv
  <2> QED
    BY <2>7, <2>16, <2>24 DEF Reticketed
<1> QED
  BY <1>2, <1>3

\* A claim as a transaction.
LEMMA ClaimKeeps ==
    ASSUME Books, Sides, NEW i \in Investors, Claim(i)
    PROVE  Books' /\ Sides' /\ SM!OtherCall /\ ExactRefund
<1>1. PICK u, b, s : u = Before(World) /\ b = ClaimTokens(u, i) /\ s = u.eto.machine.state
  OBVIOUS
<1>2. s \in {4, 5} /\ Become(After(b)) /\ UNCHANGED <<whitelist, verified, now>>
  BY <1>1, Phases DEF Claim, ClaimIsOpen, StateOf
<1>3. Shaped(u)
  BY <1>1, BooksTypes, ClockIsNatural, WorldIs, BeforeShape
<1>4. Later(u, b)
  BY <1>1, <1>3, ClaimTokensShape
<1>5. /\ b.ok /\ Inv(u, s) /\ u.eto.machine = SM!Before /\ MovedOn(World, u)
  BY <1>1, <1>2, <1>4, BodyRuns
<1>6. /\ Inv(b, s) /\ b.eto.machine = u.eto.machine
      /\ b.eto.totalTokenAmount = u.eto.totalTokenAmount
      /\ b.eto.totalEquivEurUlps = u.eto.totalEquivEurUlps
      /\ b.eto.nomineeSignedUrl = u.eto.nomineeSignedUrl
  BY <1>1, <1>2, <1>5, ClaimTokensKeeps
<1>7. /\ Books' /\ eto'.machine = SM!After(b.eto.machine)
      /\ MinReached(eto)' = MinReached(b.eto) /\ CapExceeded(eto)' = CapExceeded(b.eto)
      /\ Confirmed(eto)' = Confirmed(b.eto)
      /\ After(b).eto.machine = AfterMachine(b) /\ now \in Nat
  <2>1. Inv(b, b.eto.machine.state)
    BY <1>1, <1>6
  <2> QED
    BY <1>2, <2>1, BodyKept
<1>8. /\ MinReached(b.eto) = MinReached(u.eto) /\ CapExceeded(b.eto) = CapExceeded(u.eto)
      /\ Confirmed(b.eto) = Confirmed(u.eto)
  BY <1>6 DEF MinReached, CapExceeded, IsCapExceeded, Totals, Confirmed
<1>9. /\ MinReached(u.eto) = MinReached(eto) /\ CapExceeded(u.eto) = CapExceeded(eto)
      /\ Confirmed(u.eto) = Confirmed(eto)
  BY <1>5, WorldIs, ConditionsMoved
<1>10. SM!OtherCall
  BY <1>1, <1>2, <1>5, <1>6, <1>7, <1>8, <1>9, Phases DEF SM!OtherCall, SM!conditions
<1>11. eto'.machine.state # 6
  <2>1. eto'.machine = AfterMachine(b)
    BY <1>2, <1>7 DEF Become
  <2>2. MachineOK(b.eto.machine) /\ b.eto.machine.state = s
    BY <1>1, <1>6, InvTypes
  <2>3. AfterMachine(b).state = s
    BY <1>2, <1>7, <2>2, AfterReaches
  <2> QED
    BY <1>2, <2>1, <2>3
<1>12. ExactRefund
  BY <1>11, Phases DEF ExactRefund
<1> QED
  BY <1>2, <1>7, <1>10, <1>12, SidesKept

-----------------------------------------------------------------------------
(***************************************************************************)
(* Refunding.                                                              *)
(***************************************************************************)

\* v follows from w by a payment of the offering to one of its investors or to the wallet.
PaidBack(w, v, c, to, amount) ==
    /\ w.ok /\ IsWorld(v) /\ v.eto = w.eto /\ v.neu = w.neu /\ v.equity = w.equity
    /\ v.locks = w.locks
    /\ v.bal \in [Currencies -> [Investors \cup Parties -> Nat]]
    /\ v.bal[c]["eto"] = w.bal[c]["eto"] - amount
    /\ v.bal[c][to] = w.bal[c][to] + amount
    /\ \A d \in Currencies, p \in Investors \cup Parties :
          (d # c \/ p \notin {"eto", to}) => v.bal[d][p] = w.bal[d][p]

\* What a payment to an investor, or to the wallet, does.
LEMMA PaysBack ==
    ASSUME NEW w, IsWorld(w), w.bal \in [Currencies -> [Investors \cup Parties -> Nat]],
           NEW c \in Currencies, NEW to \in Investors \cup {"lock"},
           NEW amount \in Nat, NEW v, v = Pay(w, c, to, amount), v.ok
    PROVE  PaidBack(w, v, c, to, amount)
<1>1. PICK b, r : b = w.bal[c] /\ r = Moved(b, "eto", to, amount)
  OBVIOUS
<1>2. /\ IsWorld(v) /\ v.eto = w.eto /\ v.neu = w.neu /\ v.equity = w.equity /\ v.locks = w.locks
      /\ v.bal = [w.bal EXCEPT ![c] = r] /\ w.ok /\ b["eto"] >= amount
  BY <1>1, PayIs
<1>3. /\ r \in [Investors \cup Parties -> Nat]
      /\ r["eto"] = b["eto"] - amount /\ r[to] = b[to] + amount
      /\ \A p \in (Investors \cup Parties) \ {"eto", to} : r[p] = b[p]
  <2>1. PICK P, x : P = Investors \cup Parties /\ x = "eto"
    OBVIOUS
  <2>2. x \in P /\ to \in P /\ x # to
    BY <2>1, PartyFacts
  <2>3. b \in [P -> Nat] /\ b[x] >= amount /\ r = Moved(b, x, to, amount)
    BY <1>1, <1>2, <2>1
  <2>4. r \in [P -> Nat] /\ r[x] = b[x] - amount /\ r[to] = b[to] + amount
        /\ \A p \in P \ {x, to} : r[p] = b[p]
    BY ONLY <2>2, <2>3, amount \in Nat, MovedIs
  <2> QED
    BY <2>1, <2>4
<1>4. /\ v.bal \in [Currencies -> [Investors \cup Parties -> Nat]]
      /\ v.bal[c] = r /\ \A d \in Currencies \ {c} : v.bal[d] = w.bal[d]
  <2>1. PICK R, f, g : R = [Investors \cup Parties -> Nat] /\ f = w.bal /\ g = v.bal
    OBVIOUS
  <2>2. f \in [Currencies -> R] /\ r \in R /\ g = [f EXCEPT ![c] = r]
    BY <1>2, <1>3, <2>1
  <2>3. g \in [Currencies -> R] /\ g[c] = r /\ \A d \in Currencies \ {c} : g[d] = f[d]
    BY ONLY <2>2, c \in Currencies
  <2> QED
    BY <2>1, <2>3
<1>5. \A d \in Currencies, p \in Investors \cup Parties :
         (d # c \/ p \notin {"eto", to}) => v.bal[d][p] = w.bal[d][p]
  BY <1>1, <1>3, <1>4
<1> QED
  BY <1>1, <1>2, <1>3, <1>4, <1>5 DEF PaidBack

\* What a payment changes of everything but currency c.
OtherCurrencyKept(w, v, c) ==
    \A d \in Currencies \ {c} :
       v.locks[d] = w.locks[d] /\ \A p \in Investors \cup Parties : v.bal[d][p] = w.bal[d][p]

\* v follows from w by a payment of `paid` to i in currency c, of which `locked` went to
\* the wallet with its Neumarks due.
Returned(w, v, i, c, paid) ==
    /\ Typed(v) /\ v.eto = w.eto /\ v.neu = w.neu /\ v.equity = w.equity
    /\ OtherCurrencyKept(w, v, c)
    /\ v.bal[c]["eto"] = w.bal[c]["eto"] - paid
    /\ v.bal[c]["nominee"] = w.bal[c]["nominee"]
    /\ Wealth(v.bal, v.locks, c, i) = Wealth(w.bal, w.locks, c, i) + paid

\* The investor gets an amount, which may be nothing.
LEMMA InvestorPaid ==
    ASSUME NEW w, Typed(w), NEW c \in Currencies, NEW i \in Investors,
           NEW amount \in Nat, NEW v, v = PayIfAny(w, c, i, amount), v.ok
    PROVE  w.ok /\ Returned(w, v, i, c, amount) /\ v.locks = w.locks
<1>1. /\ IsWorld(w) /\ w.bal \in [Currencies -> [Investors \cup Parties -> Nat]]
      /\ w.locks \in [Currencies -> Locks]
      /\ \A d \in Currencies : SoundLock(w.locks[d]) /\ w.bal[d]["lock"] = w.locks[d].total
  BY DEF Typed
<1>2. /\ w.bal[c]["eto"] \in Nat /\ w.bal[c][i] \in Nat
      /\ w.locks[c].accounts[i].balance \in Nat
  <2>1. w.locks[c] \in Locks /\ w.bal[c] \in [Investors \cup Parties -> Nat]
    BY <1>1
  <2> QED
    BY <2>1, LockTypes, PartyFacts
<1>3. CASE amount = 0
  <2>1. v = w
    BY <1>3 DEF PayIfAny
  <2> QED
    BY <1>2, <1>3, <2>1 DEF Returned, OtherCurrencyKept, Wealth
<1>4. CASE amount # 0
  <2>1. v = Pay(w, c, i, amount) /\ i \in Investors \cup {"lock"}
    BY <1>4 DEF PayIfAny
  <2>2. /\ w.ok /\ IsWorld(v) /\ v.eto = w.eto /\ v.neu = w.neu /\ v.equity = w.equity
        /\ v.locks = w.locks
        /\ v.bal \in [Currencies -> [Investors \cup Parties -> Nat]]
        /\ v.bal[c]["eto"] = w.bal[c]["eto"] - amount
        /\ v.bal[c][i] = w.bal[c][i] + amount
        /\ \A d \in Currencies, p \in Investors \cup Parties :
              (d # c \/ p \notin {"eto", i}) => v.bal[d][p] = w.bal[d][p]
    <3>1. PaidBack(w, v, c, i, amount)
      BY <1>1, <2>1, PaysBack
    <3> QED
      BY <3>1 DEF PaidBack
  <2>3. \A d \in Currencies : v.bal[d]["lock"] = w.bal[d]["lock"] /\ v.bal[d]["nominee"] = w.bal[d]["nominee"]
    BY <2>2, PartyFacts
  <2>4. Typed(v)
    BY <1>1, <2>2, <2>3 DEF Typed
  <2>5. Wealth(v.bal, v.locks, c, i) = Wealth(w.bal, w.locks, c, i) + amount
    BY <1>2, <2>2 DEF Wealth
  <2> QED
    BY <2>2, <2>3, <2>4, <2>5 DEF Returned, OtherCurrencyKept
<1> QED
  BY <1>3, <1>4

\* What i had pending in the wallet of currency c went back with its Neumarks due.
Restored(w, v, i, c) ==
    /\ v.locks[c].accounts[i].neumarksDue =
          w.locks[c].accounts[i].neumarksDue + w.locks[c].commitments["eto"][i].neumarksDue
    /\ v.locks[c].commitments["eto"][i].balance = 0
    /\ \A j \in Investors \ {i} : v.locks[c].commitments["eto"][j] = w.locks[c].commitments["eto"][j]

\* The wallet gets back what was pending, and the investor's account there grows by it.
LEMMA WalletPaid ==
    ASSUME NEW w, Typed(w), NEW c \in Currencies, NEW i \in Investors,
           NEW n, n = w.locks[c].commitments["eto"][i].balance, n > 0,
           NEW v, v = RefundToLock(w, i, c, n), v.ok
    PROVE  w.ok /\ Returned(w, v, i, c, n) /\ Restored(w, v, i, c)
<1>1. PICK l, k, can : l = w.locks[c] /\ k = Refunded(l, "eto", i) /\ can = CanRefund(l, "eto", i)
  OBVIOUS
<1>2. PICK r : r = Require(w, can)
  OBVIOUS
<1>3. PICK q : q = Pay(r, c, "lock", n)
  OBVIOUS
<1>4. /\ IsWorld(w) /\ w.bal \in [Currencies -> [Investors \cup Parties -> Nat]]
      /\ w.locks \in [Currencies -> Locks] /\ l \in Locks /\ SoundLock(l)
      /\ \A d \in Currencies : SoundLock(w.locks[d]) /\ w.bal[d]["lock"] = w.locks[d].total
  BY <1>1 DEF Typed
<1>5. /\ IsWorld(r) /\ r.eto = w.eto /\ r.bal = w.bal /\ r.neu = w.neu
      /\ r.equity = w.equity /\ r.locks = w.locks /\ (r.ok <=> w.ok /\ can)
  <2>1. can \in BOOLEAN
    BY <1>1 DEF CanRefund
  <2> QED
    BY <1>2, <1>4, <2>1, RequireIs
<1>6. PICK L : L = [q.locks EXCEPT ![c] = Refunded(q.locks[c], "eto", i)]
  BY Zenon
<1>7. v = WithLocks(q, L)
  BY <1>1, <1>2, <1>3, <1>6, Zenon DEF RefundToLock, WithLocks
<1>8. IsWorld(q)
  BY <1>3, <1>5, PayIs
<1>9. /\ IsWorld(v) /\ v.eto = q.eto /\ v.bal = q.bal /\ v.neu = q.neu /\ v.equity = q.equity
      /\ v.locks = L /\ v.ok = q.ok
  BY ONLY <1>7, <1>8, WithLocksIs
<1>10. n \in Nat
  BY <1>1, <1>4, LockTypes, PartyFacts
<1>11. PaidBack(r, q, c, "lock", n)
  <2>1. "lock" \in Investors \cup {"lock"} /\ q.ok
    BY <1>9, Zenon
  <2> QED
    BY <1>3, <1>4, <1>5, <1>10, <2>1, PaysBack, Zenon
<1>12. /\ w.ok /\ can /\ v.eto = w.eto /\ v.neu = w.neu /\ v.equity = w.equity
       /\ q.locks = w.locks
       /\ v.bal \in [Currencies -> [Investors \cup Parties -> Nat]]
       /\ v.bal[c]["eto"] = w.bal[c]["eto"] - n
       /\ v.bal[c]["lock"] = w.bal[c]["lock"] + n
       /\ \A d \in Currencies, p \in Investors \cup Parties :
             (d # c \/ p \notin {"eto", "lock"}) => v.bal[d][p] = w.bal[d][p]
  <2>1. r.ok /\ q.eto = r.eto /\ q.neu = r.neu /\ q.equity = r.equity /\ q.locks = r.locks
    BY <1>11 DEF PaidBack
  <2>2. w.ok /\ can
    BY <1>5, <2>1
  <2>3. /\ q.bal \in [Currencies -> [Investors \cup Parties -> Nat]]
        /\ q.bal[c]["eto"] = r.bal[c]["eto"] - n
        /\ q.bal[c]["lock"] = r.bal[c]["lock"] + n
        /\ \A d \in Currencies, p \in Investors \cup Parties :
              (d # c \/ p \notin {"eto", "lock"}) => q.bal[d][p] = r.bal[d][p]
    BY ONLY <1>11 DEF PaidBack
  <2>4. q.bal = v.bal /\ r.bal = w.bal
    BY <1>5, <1>9, Zenon
  <2>5. /\ v.bal \in [Currencies -> [Investors \cup Parties -> Nat]]
        /\ v.bal[c]["eto"] = w.bal[c]["eto"] - n
        /\ v.bal[c]["lock"] = w.bal[c]["lock"] + n
        /\ \A d \in Currencies, p \in Investors \cup Parties :
              (d # c \/ p \notin {"eto", "lock"}) => v.bal[d][p] = w.bal[d][p]
    BY ONLY <2>3, <2>4, Zenon
  <2>6. v.eto = w.eto /\ v.neu = w.neu /\ v.equity = w.equity /\ q.locks = w.locks
    BY <1>5, <1>9, <2>1, Zenon
  <2> QED
    BY <2>2, <2>5, <2>6, Zenon
<1>13. /\ SoundLock(k) /\ k \in Locks /\ k.total = l.total + n
       /\ k.accounts[i].balance = l.accounts[i].balance + n
       /\ k.accounts[i].neumarksDue = l.accounts[i].neumarksDue + l.commitments["eto"][i].neumarksDue
       /\ k.commitments["eto"][i].balance = 0
       /\ \A j \in Investors \ {i} : k.commitments["eto"][j] = l.commitments["eto"][j]
  <2>1. l.commitments["eto"][i].balance > 0 /\ n = l.commitments["eto"][i].balance
    BY <1>1
  <2>2. SoundLock(k) /\ k \in Locks /\ k.total = l.total + n
    <3>1. PICK y : y = "eto"
      OBVIOUS
    <3>2. /\ y \in Commitments /\ SoundLock(l) /\ CanRefund(l, y, i) /\ k = Refunded(l, y, i)
          /\ n = l.commitments[y][i].balance
      BY <1>1, <1>4, <1>12, <2>1, <3>1, PartyFacts, Zenon
    <3>3. SoundLock(k) /\ k.total = l.total + n
      BY <3>2, RefundedIsSound
    <3> QED
      BY <3>3, SoundLockParts
  <2>3. /\ \A d \in Commitments, j \in Investors :
              k.commitments[d][j] = IF d = "eto" /\ j = i THEN NoMoney ELSE l.commitments[d][j]
        /\ k.accounts[i].balance = l.accounts[i].balance + l.commitments["eto"][i].balance
        /\ k.accounts[i].neumarksDue = l.accounts[i].neumarksDue + l.commitments["eto"][i].neumarksDue
    <3>1. PICK y : y = "eto"
      OBVIOUS
    <3>2. /\ y \in Commitments /\ l \in Locks /\ k = Refunded(l, y, i)
          /\ l.commitments[y][i].balance > 0
      BY <1>1, <1>4, <2>1, <3>1, PartyFacts
    <3>3. /\ \A d \in Commitments, j \in Investors :
                k.commitments[d][j] = IF d = y /\ j = i THEN NoMoney ELSE l.commitments[d][j]
          /\ k.accounts[i].balance = l.accounts[i].balance + l.commitments[y][i].balance
          /\ k.accounts[i].neumarksDue = l.accounts[i].neumarksDue + l.commitments[y][i].neumarksDue
      BY <3>2, RefundedIs
    <3> QED
      BY <3>1, <3>3
  <2> QED
    BY <2>1, <2>2, <2>3, PartyFacts DEF NoMoney
<1>14. /\ v.locks \in [Currencies -> Locks]
       /\ v.locks[c] = k /\ \A d \in Currencies \ {c} : v.locks[d] = w.locks[d]
  <2>1. PICK f, g : f = w.locks /\ g = v.locks
    OBVIOUS
  <2>2. f \in [Currencies -> Locks] /\ k \in Locks /\ g = [f EXCEPT ![c] = k]
    BY <1>1, <1>4, <1>6, <1>9, <1>12, <1>13, <2>1, Zenon
  <2>3. g \in [Currencies -> Locks] /\ g[c] = k /\ \A d \in Currencies \ {c} : g[d] = f[d]
    BY ONLY <2>2, c \in Currencies
  <2> QED
    BY <2>1, <2>3, Zenon
<1>15. OtherCurrencyKept(w, v, c)
  BY <1>12, <1>14, Zenon DEF OtherCurrencyKept
<1>16. v.bal[c]["nominee"] = w.bal[c]["nominee"] /\ v.bal[c][i] = w.bal[c][i]
  <2>1. PICK x : x = "nominee"
    OBVIOUS
  <2>2. x \in Investors \cup Parties /\ x \notin {"eto", "lock"} /\ i \notin {"eto", "lock"}
    BY <2>1, PartyFacts
  <2>3. \A q0 \in Investors \cup Parties : q0 \notin {"eto", "lock"} => v.bal[c][q0] = w.bal[c][q0]
    BY <1>12
  <2> QED
    BY <2>1, <2>2, <2>3
<1>17. \A d \in Currencies : SoundLock(v.locks[d]) /\ v.bal[d]["lock"] = v.locks[d].total
  <2>1. \A d \in Currencies \ {c} : v.bal[d]["lock"] = w.bal[d]["lock"]
    BY <1>12, PartyFacts, Zenon
  <2>2. SoundLock(v.locks[c]) /\ v.bal[c]["lock"] = v.locks[c].total
    <3>1. w.bal[c]["lock"] = l.total
      BY <1>1, <1>4
    <3>2. v.bal[c]["lock"] = w.bal[c]["lock"] + n /\ k.total = l.total + n /\ v.locks[c] = k
      BY <1>12, <1>13, <1>14, Zenon
    <3> QED
      BY <1>13, <3>1, <3>2, Zenon
  <2>3. ASSUME NEW d \in Currencies \ {c}
        PROVE  SoundLock(v.locks[d]) /\ v.bal[d]["lock"] = v.locks[d].total
    BY <1>4, <1>14, <2>1, Zenon
  <2> QED
    BY <2>2, <2>3, Zenon
<1>18. Typed(v)
  BY <1>9, <1>12, <1>14, <1>17, Zenon DEF Typed
<1>19. Wealth(v.bal, v.locks, c, i) = Wealth(w.bal, w.locks, c, i) + n
  <2>1. w.bal[c][i] \in Nat /\ l.accounts[i].balance \in Nat
    BY <1>4, LockTypes
  <2>2. v.locks[c].accounts[i].balance = w.locks[c].accounts[i].balance + n
    BY <1>1, <1>13, <1>14, Zenon
  <2>3. w.locks[c].accounts[i].balance \in Nat
    BY <1>1, <2>1
  <2>4. PICK x, y, z : x = w.bal[c][i] /\ y = w.locks[c].accounts[i].balance
                       /\ z = v.locks[c].accounts[i].balance
    BY Zenon
  <2>5. x \in Nat /\ y \in Nat /\ z = y + n
    BY <2>1, <2>2, <2>3, <2>4, Zenon
  <2>6. x + z = (x + y) + n
    BY ONLY <1>10, <2>5
  <2> QED
    BY <1>16, <2>4, <2>6, Zenon DEF Wealth
<1>20. Returned(w, v, i, c, n)
  BY <1>12, <1>15, <1>16, <1>18, <1>19, Zenon DEF Returned
<1>21. Restored(w, v, i, c)
  BY <1>1, <1>13, <1>14, Zenon DEF Restored
<1> QED
  BY <1>12, <1>20, <1>21, Zenon

\* What went to the wallet and what went to the investor add up.
LEMMA ReturnedTwice ==
    ASSUME NEW w, NEW v, NEW u, NEW i \in Investors, NEW c \in Currencies, NEW m \in Nat, NEW n \in Nat,
           Typed(w), Returned(w, v, i, c, m), Returned(v, u, i, c, n)
    PROVE  Returned(w, u, i, c, m + n)
<1>1. w.bal[c]["eto"] \in Nat /\ Wealth(w.bal, w.locks, c, i) \in Nat
  <2>1. w.locks[c] \in Locks /\ w.bal[c] \in [Investors \cup Parties -> Nat]
    BY DEF Typed
  <2> QED
    BY <2>1, LockTypes, PartyFacts DEF Wealth
<1>2. OtherCurrencyKept(w, u, c)
  BY DEF Returned, OtherCurrencyKept
<1>3. /\ u.bal[c]["eto"] = w.bal[c]["eto"] - (m + n)
      /\ Wealth(u.bal, u.locks, c, i) = Wealth(w.bal, w.locks, c, i) + (m + n)
  BY <1>1 DEF Returned
<1> QED
  BY <1>2, <1>3 DEF Returned

\* A requirement changes nothing but whether the transaction succeeds.
LEMMA RequireShape ==
    ASSUME NEW w, IsWorld(w), NEW condition, NEW v, v = Require(w, condition)
    PROVE  /\ IsWorld(v) /\ v.eto = w.eto /\ v.bal = w.bal /\ v.neu = w.neu
           /\ v.equity = w.equity /\ v.locks = w.locks /\ (v.ok => w.ok)
<1>1. PICK k : k = (w.ok /\ condition)
  OBVIOUS
<1>2. v = AWorld(w.eto, w.bal, w.neu, w.equity, w.locks, k)
  BY <1>1 DEF Require, IsWorld, AWorld
<1>3. /\ IsWorld(v) /\ v.eto = w.eto /\ v.bal = w.bal /\ v.neu = w.neu
      /\ v.equity = w.equity /\ v.locks = w.locks /\ v.ok = k
  BY ONLY <1>2, WorldMade
<1>4. v.ok => w.ok
  BY <1>1, <1>3
<1> QED
  BY <1>3, <1>4

\* refundSingleToken: the wallet first, the investor gets the rest.
LEMMA RefundSingleIs ==
    ASSUME NEW w, Typed(w), NEW c \in Currencies, NEW i \in Investors,
           NEW t, t = w.eto.tickets[i], NEW amount, amount = t.amount[c],
           NEW n, n = w.locks[c].commitments["eto"][i].balance,
           n > 0 => t.usedLockedAccount /\ n <= amount,
           NEW v, v = RefundSingleToken(w, i, c), v.ok
    PROVE  w.ok /\ Returned(w, v, i, c, amount) /\ Restored(w, v, i, c)
<1>1. /\ IsWorld(w) /\ w.locks[c] \in Locks /\ SoundLock(w.locks[c]) /\ w.eto \in Offerings
      /\ w.bal[c] \in [Investors \cup Parties -> Nat]
  BY DEF Typed
<1>2. amount \in Nat
  BY <1>1, OfferingTypes, TicketTypes
<1>3. /\ n \in Nat /\ (n = 0 => w.locks[c].commitments["eto"][i].neumarksDue = 0)
      /\ w.locks[c].accounts[i].neumarksDue \in Nat
  BY <1>1, LockTypes, SoundLockParts, PartyFacts
<1>4. n = 0 => Restored(w, w, i, c)
  BY <1>3 DEF Restored
<1>5. CASE amount = 0
  <2>1. v = w /\ n = 0
    BY <1>2, <1>3, <1>5 DEF RefundSingleToken
  <2>2. Returned(w, w, i, c, 0)
    <3>1. PICK x : x = PayIfAny(w, c, i, 0)
      OBVIOUS
    <3>2. x = w
      BY <3>1 DEF PayIfAny
    <3> QED
      BY <2>1, <3>1, <3>2, InvestorPaid
  <2> QED
    BY <1>4, <1>5, <2>1, <2>2
<1>6. CASE amount # 0
  <2>0. PICK fits : fits = (n <= amount)
    OBVIOUS
  <2>1. PICK r : r = Require(w, fits)
    OBVIOUS
  <2>2. (IF t.usedLockedAccount THEN w.locks[c].commitments["eto"][i].balance ELSE 0) = n
    BY <1>3
  <2>3. PICK p : p = IF n > 0 THEN RefundToLock(r, i, c, n) ELSE r
    OBVIOUS
  <2>4. v = PayIfAny(p, c, i, amount - n)
    BY <1>6, <2>0, <2>1, <2>2, <2>3, Zenon DEF RefundSingleToken, InvestorPart
  <2>5. /\ IsWorld(r) /\ r.eto = w.eto /\ r.bal = w.bal /\ r.neu = w.neu
        /\ r.equity = w.equity /\ r.locks = w.locks /\ (r.ok => w.ok)
    BY <1>1, <2>1, RequireShape
  <2>6. Typed(r)
    BY <2>5 DEF Typed
  <2>7. amount - n \in Nat
    BY <1>2, <1>3
  <2>8. CASE n = 0
    <3>1. p = r /\ v = PayIfAny(r, c, i, amount)
      BY <1>2, <2>3, <2>4, <2>8
    <3>2. r.ok /\ Returned(r, v, i, c, amount) /\ v.locks = r.locks
      <4>1. PICK a : a = amount
        OBVIOUS
      <4>2. a \in Nat /\ v = PayIfAny(r, c, i, a)
        BY <1>2, <3>1, <4>1
      <4>3. r.ok /\ Returned(r, v, i, c, a) /\ v.locks = r.locks
        BY ONLY <2>6, <4>2, c \in Currencies, i \in Investors, v.ok, InvestorPaid
      <4> QED
        BY <4>1, <4>3
    <3>3. Returned(w, v, i, c, amount)
      BY <2>5, <3>2 DEF Returned, OtherCurrencyKept
    <3>4. Restored(w, v, i, c)
      BY <1>4, <2>5, <2>8, <3>2 DEF Restored
    <3> QED
      BY <2>5, <3>2, <3>3, <3>4
  <2>9. CASE n # 0
    <3>1. p = RefundToLock(r, i, c, n) /\ n > 0
      BY <1>3, <2>3, <2>9
    <3>2. p.ok
      <4>1. IsWorld(p)
        <5>1. PICK q : q = Require(r, CanRefund(r.locks[c], "eto", i))
          OBVIOUS
        <5>2. IsWorld(q)
          BY <2>5, <5>1, RequireIs DEF CanRefund
        <5>3. PICK x : x = Pay(q, c, "lock", n)
          OBVIOUS
        <5>4. IsWorld(x)
          BY <5>2, <5>3, PayIs, Zenon
        <5>5. p = WithLocks(x, [x.locks EXCEPT ![c] = Refunded(x.locks[c], "eto", i)])
          BY <3>1, <5>1, <5>3, Zenon DEF RefundToLock, WithLocks
        <5> QED
          BY <5>4, <5>5, WithLocksIs
      <4> QED
        BY <2>4, <4>1, PayIfAnyShape, Zenon
    <3>3. r.ok /\ Returned(r, p, i, c, n) /\ Restored(r, p, i, c)
      <4>1. n = r.locks[c].commitments["eto"][i].balance
        BY <2>5
      <4> QED
        BY <2>6, <3>1, <3>2, <4>1, WalletPaid
    <3>4. Returned(w, p, i, c, n) /\ Restored(w, p, i, c)
      <4>1. /\ r.eto = w.eto /\ r.bal = w.bal /\ r.neu = w.neu /\ r.equity = w.equity
            /\ r.locks = w.locks
        BY <2>5
      <4> QED
        BY ONLY <3>3, <4>1 DEF Returned, OtherCurrencyKept, Restored
    <3>5. Typed(p)
      BY <3>4 DEF Returned
    <3>6. PICK m \in Nat : m = amount - n
      BY <2>7
    <3>7. Returned(p, v, i, c, m) /\ v.locks = p.locks
      <4>1. v = PayIfAny(p, c, i, m)
        BY <2>4, <3>6, Zenon
      <4> QED
        BY <3>5, <4>1, InvestorPaid
    <3>8. Returned(w, v, i, c, n + m)
      BY <1>3, <3>4, <3>7, ReturnedTwice
    <3>9. n + m = amount
      <4>1. PICK a \in Nat : a = amount
        BY <1>2
      <4>2. n \in Nat /\ m = a - n
        BY <1>3, <3>6, <4>1
      <4>3. n + m = a
        BY ONLY a \in Nat, m \in Nat, <4>2
      <4> QED
        BY <4>1, <4>3
    <3>10. Restored(w, v, i, c)
      BY <3>4, <3>7 DEF Restored
    <3> QED
      BY <2>5, <3>3, <3>8, <3>9, <3>10
  <2> QED
    BY <2>8, <2>9
<1> QED
  BY <1>5, <1>6

\* The settled ticket still says what to return.
LEMMA SettledTicketKeeps ==
    ASSUME NEW T \in [Investors -> Tickets], NEW i \in Investors, NEW U, U = SettledTickets(T, i)
    PROVE  U[i].amount = T[i].amount /\ (T[i].usedLockedAccount => U[i].usedLockedAccount)
<1>1. PICK t, u : t = T[i] /\ u = [t EXCEPT !.settled = TRUE]
  OBVIOUS
<1>2. t \in Tickets /\ U = [T EXCEPT ![i] = u]
  BY <1>1 DEF SettledTickets
<1>3. t = [equivEurUlps |-> t.equivEurUlps, rewardNmkUlps |-> t.rewardNmkUlps,
           equityTokenAmount |-> t.equityTokenAmount, amount |-> t.amount,
           usedLockedAccount |-> t.usedLockedAccount, settled |-> t.settled]
  BY <1>2, TicketTypes
<1>4. u = [t EXCEPT !.settled = TRUE]
  BY <1>1
<1>5. u.amount = t.amount /\ u.usedLockedAccount = t.usedLockedAccount
  BY ONLY <1>3, <1>4
<1>6. U[i] = u
  BY <1>2
<1> QED
  BY <1>1, <1>5, <1>6

\* Returning one currency is a step of the transaction.
LEMMA RefundSingleShape ==
    ASSUME NEW w, Shaped(w), NEW i, NEW c
    PROVE  Later(w, RefundSingleToken(w, i, c))
<1>1. PICK t : t = w.eto.tickets[i]
  OBVIOUS
<1>2. PICK n : n = IF t.usedLockedAccount THEN w.locks[c].commitments["eto"][i].balance ELSE 0
  OBVIOUS
<1>3. PICK fits : fits = (n <= t.amount[c])
  OBVIOUS
<1>4. PICK r : r = Require(w, fits)
  OBVIOUS
<1>5. PICK p : p = IF n > 0 THEN RefundToLock(r, i, c, n) ELSE r
  OBVIOUS
<1>6. PICK m : m = InvestorPart(t.amount[c], n)
  OBVIOUS
<1>7. RefundSingleToken(w, i, c) = w \/ RefundSingleToken(w, i, c) = PayIfAny(p, c, i, m)
  BY <1>1, <1>2, <1>3, <1>4, <1>5, <1>6, Zenon DEF RefundSingleToken
<1>8. Later(w, r)
  BY <1>4, RequireShape DEF Later, Shaped
<1>9. Later(r, p)
  <2>1. CASE ~(n > 0)
    BY <1>5, <1>8, <2>1 DEF Later
  <2>2. CASE n > 0
    <3>1. PICK can : can = CanRefund(r.locks[c], "eto", i)
      OBVIOUS
    <3>2. PICK q : q = Require(r, can)
      OBVIOUS
    <3>3. Later(r, q)
      BY <1>8, <3>2, RequireShape DEF Later, Shaped
    <3>4. PICK x : x = Pay(q, c, "lock", n)
      OBVIOUS
    <3>5. Later(q, x)
      BY <3>3, <3>4, PayShape DEF Later
    <3>6. p = WithLocks(x, [x.locks EXCEPT ![c] = Refunded(x.locks[c], "eto", i)])
      BY <1>5, <2>2, <3>1, <3>2, <3>4 DEF RefundToLock, WithLocks
    <3>7. Later(x, p)
      BY <3>5, <3>6, WithLocksIs DEF Later, Shaped
    <3> QED
      BY <3>3, <3>5, <3>7, LaterTwice
  <2> QED
    BY <2>1, <2>2
<1>10. Later(p, PayIfAny(p, c, i, m))
  BY <1>9, PayIfAnyIsLater DEF Later
<1>11. Later(w, PayIfAny(p, c, i, m))
  BY <1>8, <1>9, <1>10, LaterTwice
<1> QED
  BY <1>7, <1>11 DEF Later

\* refundTokens settles an open ticket and returns both currencies.
LEMMA RefundTokensIs ==
    ASSUME NEW w, NEW i, NEW v, v = RefundTokens(w, i)
    PROVE  \/ ~IsOpen(w.eto.tickets[i]) /\ v = w
           \/ /\ IsOpen(w.eto.tickets[i])
              /\ v = RefundSingleToken(RefundSingleToken(Settle(w, i), i, "ETH"), i, "EUR")
BY DEF RefundTokens, Settle, HasOpenTicket, IsOpen

\* It is a step of the transaction.
LEMMA RefundTokensShape ==
    ASSUME NEW w, Shaped(w), NEW i
    PROVE  Later(w, RefundTokens(w, i))
<1>1. PICK v, w1 : v = RefundTokens(w, i) /\ w1 = Settle(w, i)
  OBVIOUS
<1>2. PICK w2 : w2 = RefundSingleToken(w1, i, "ETH")
  OBVIOUS
<1>3. Later(w, w1)
  BY <1>1, SettleIs DEF Later, Reticketed
<1>4. Later(w1, w2)
  BY <1>2, <1>3, RefundSingleShape DEF Later
<1>5. Later(w2, RefundSingleToken(w2, i, "EUR"))
  BY <1>4, RefundSingleShape DEF Later
<1>6. Later(w, RefundSingleToken(w2, i, "EUR"))
  BY <1>3, <1>4, <1>5, LaterTwice
<1>7. v = w \/ v = RefundSingleToken(w2, i, "EUR")
  BY <1>1, <1>2, RefundTokensIs
<1> QED
  BY <1>1, <1>6, <1>7 DEF Later

\* What a refund returns of one currency.
PaidInFull(w, v, i, c, amount) ==
    /\ v.bal[c]["eto"] = w.bal[c]["eto"] - amount
    /\ v.bal[c]["nominee"] = w.bal[c]["nominee"]
    /\ Wealth(v.bal, v.locks, c, i) = Wealth(w.bal, w.locks, c, i) + amount
    /\ Restored(w, v, i, c)

\* Whoever is refunded gets the whole ticket, whatever was pending where.
LEMMA RefundTokensEffect ==
    ASSUME NEW w, Inv(w, 6), NEW i \in Investors, IsOpen(w.eto.tickets[i]),
           NEW v, v = RefundTokens(w, i), v.ok
    PROVE  /\ Typed(v) /\ Reticketed(w.eto, v.eto, SettledTickets(w.eto.tickets, i))
           /\ v.eto \in Offerings /\ TicketsOK(v.eto, 6) /\ TotalsOK(v.eto, 6) /\ SharesOK(v.eto, 6)
           /\ AgreementOK(v.eto, 6)
           /\ v.neu = w.neu /\ v.equity = w.equity
           /\ \A c \in Currencies : PaidInFull(w, v, i, c, w.eto.tickets[i].amount[c])
<1>1. PICK T, U : T = w.eto.tickets /\ U = SettledTickets(T, i)
  OBVIOUS
<1>2. PICK w1 : w1 = Settle(w, i)
  OBVIOUS
<1>3. PICK x, y : x = "ETH" /\ y = "EUR"
  OBVIOUS
<1>4. PICK w2 : w2 = RefundSingleToken(w1, i, x)
  OBVIOUS
<1>5. v = RefundSingleToken(w2, i, y)
  BY <1>2, <1>3, <1>4, RefundTokensIs
<1>6. Currencies = {x, y} /\ x # y
  BY <1>3, CurrencyFacts
<1>7. /\ Typed(w) /\ w.eto \in Offerings /\ T \in [Investors -> Tickets] /\ Shaped(w)
      /\ MachineOK(w.eto.machine)
  BY <1>1, InvTypes, OfferingTypes DEF Inv
<1>8. /\ Shaped(w1) /\ Reticketed(w.eto, w1.eto, U)
      /\ w1.bal = w.bal /\ w1.neu = w.neu /\ w1.equity = w.equity /\ w1.locks = w.locks
  BY <1>1, <1>2, <1>7, SettleIs
<1>9. /\ w1.eto \in Offerings /\ TicketsOK(w1.eto, 6) /\ TotalsOK(w1.eto, 6)
      /\ SharesOK(w1.eto, 6) /\ AgreementOK(w1.eto, 6) /\ MachineOK(w1.eto.machine)
  <2>1. TicketsOK(w.eto, 6) /\ TotalsOK(w.eto, 6) /\ SharesOK(w.eto, 6) /\ AgreementOK(w.eto, 6)
    BY DEF Inv
  <2> QED
    BY <1>1, <1>7, <1>8, <2>1, SettledBooks
<1>10. Typed(w1)
  BY <1>7, <1>8, <1>9 DEF Typed, Shaped
<1>11. PICK t : t = U[i]
  OBVIOUS
<1>12. t.amount = T[i].amount /\ (T[i].usedLockedAccount => t.usedLockedAccount)
       /\ t = w1.eto.tickets[i]
  BY <1>1, <1>7, <1>8, <1>11, SettledTicketKeeps DEF Reticketed
<1>13. \A c \in Currencies :
          w.locks[c].commitments["eto"][i].balance > 0 =>
             t.usedLockedAccount /\ w.locks[c].commitments["eto"][i].balance <= t.amount[c]
  BY <1>1, <1>12 DEF Inv, PendingOK
<1>14. Shaped(w2) /\ w2.ok
  <2>1. Shaped(w2)
    BY <1>4, <1>8, RefundSingleShape DEF Later
  <2> QED
    BY <1>5, <2>1, RefundSingleShape DEF Later
<1>15. Returned(w1, w2, i, x, t.amount[x]) /\ Restored(w1, w2, i, x)
  <2>1. PICK n : n = w1.locks[x].commitments["eto"][i].balance
    OBVIOUS
  <2>2. n > 0 => t.usedLockedAccount /\ n <= t.amount[x]
    BY <1>6, <1>8, <1>13, <2>1
  <2> QED
    BY <1>4, <1>6, <1>10, <1>12, <1>14, <2>1, <2>2, RefundSingleIs
<1>16. /\ Typed(w2) /\ w2.eto = w1.eto
       /\ w2.locks[y] = w1.locks[y] /\ \A p \in Investors \cup Parties : w2.bal[y][p] = w1.bal[y][p]
  BY <1>6, <1>15 DEF Returned, OtherCurrencyKept
<1>17. Returned(w2, v, i, y, t.amount[y]) /\ Restored(w2, v, i, y)
  <2>1. PICK n : n = w2.locks[y].commitments["eto"][i].balance
    OBVIOUS
  <2>2. n > 0 => t.usedLockedAccount /\ n <= t.amount[y]
    BY <1>6, <1>8, <1>13, <1>16, <2>1
  <2>3. t = w2.eto.tickets[i]
    BY <1>12, <1>16
  <2> QED
    BY <1>5, <1>6, <1>16, <2>1, <2>2, <2>3, RefundSingleIs
<1>18. /\ Typed(v) /\ v.eto = w1.eto /\ v.neu = w1.neu /\ v.equity = w1.equity
       /\ v.locks[x] = w2.locks[x] /\ \A p \in Investors \cup Parties : v.bal[x][p] = w2.bal[x][p]
  BY <1>6, <1>15, <1>17 DEF Returned, OtherCurrencyKept
<1>19. "eto" \in Investors \cup Parties /\ "nominee" \in Investors \cup Parties
       /\ i \in Investors \cup Parties
  BY PartyFacts
<1>20. PaidInFull(w, v, i, x, t.amount[x])
  BY <1>8, <1>15, <1>18, <1>19 DEF PaidInFull, Returned, Restored, Wealth
<1>21. PaidInFull(w, v, i, y, t.amount[y])
  BY <1>8, <1>16, <1>17, <1>19 DEF PaidInFull, Returned, Restored, Wealth
<1>22. \A c \in Currencies : PaidInFull(w, v, i, c, w.eto.tickets[i].amount[c])
  BY <1>1, <1>6, <1>12, <1>20, <1>21
<1> QED
  BY <1>1, <1>8, <1>9, <1>18, <1>22

\* Refunding a ticket keeps the books of an offering that failed.
LEMMA RefundTokensKeeps ==
    ASSUME NEW w, Inv(w, 6), NEW i \in Investors, IsOpen(w.eto.tickets[i]),
           NEW v, v = RefundTokens(w, i), v.ok
    PROVE  Inv(v, 6)
<1>1. PICK T, U : T = w.eto.tickets /\ U = SettledTickets(T, i)
  OBVIOUS
<1>2. /\ Typed(v) /\ Reticketed(w.eto, v.eto, U)
      /\ v.eto \in Offerings /\ TicketsOK(v.eto, 6) /\ TotalsOK(v.eto, 6) /\ SharesOK(v.eto, 6)
      /\ AgreementOK(v.eto, 6)
      /\ v.neu = w.neu /\ v.equity = w.equity
      /\ \A c \in Currencies : PaidInFull(w, v, i, c, T[i].amount[c])
  BY <1>1, RefundTokensEffect
<1>3. /\ T \in [Investors -> Tickets] /\ Typed(w) /\ IsOpen(T[i]) /\ v.eto.tickets = U
  BY <1>1, <1>2, InvTypes, OfferingTypes DEF Inv, Reticketed
<1>4. /\ U \in [Investors -> Tickets] /\ \A j \in Investors \ {i} : U[j] = T[j]
      /\ \A c \in Currencies : OpenAmountOf(U, c) = OpenAmountOf(T, c) - T[i].amount[c]
      /\ \A c \in Currencies : OpenAmountOf(T, c) \in Nat /\ T[i].amount[c] \in Nat
  BY <1>1, <1>3, SettledTicketsAre
<1>5. MoneyOK(v.eto, v.bal, 6)
  <2>1. ASSUME NEW c \in Currencies
        PROVE  v.bal[c]["eto"] = OpenAmountOf(U, c) - Held(v.bal, c)
    <3>1. PICK a, b, h, x, y, n :
             /\ a = v.bal[c]["eto"] /\ b = w.bal[c]["eto"] /\ h = Held(w.bal, c)
             /\ x = OpenAmountOf(T, c) /\ y = OpenAmountOf(U, c) /\ n = T[i].amount[c]
      OBVIOUS
    <3>2. b = x - h
      BY <1>1, <3>1 DEF Inv, MoneyOK
    <3>3. a = b - n /\ Held(v.bal, c) = h
      BY <1>2, <3>1 DEF PaidInFull, Held
    <3>4. y = x - n /\ x \in Nat /\ n \in Nat
      BY <1>4, <3>1
    <3>5. h \in Nat
      <4>1. w.bal[c]["nominee"] \in Nat
        BY <1>3, PartyFacts DEF Typed
      <4> QED
        BY <3>1, <4>1 DEF Held
    <3>6. a = y - h
      BY ONLY <3>2, <3>3, <3>4, <3>5
    <3> QED
      BY <3>1, <3>3, <3>6
  <2> QED
    BY <1>3, <2>1 DEF MoneyOK
<1>6. RewardsOK(v.eto, v.neu, 6)
  BY DEF RewardsOK
<1>7. EquityOK(v.eto, v.equity, 6)
  BY <1>2 DEF Inv, EquityOK
<1>8. PendingOK(U, v.locks)
  <2>1. PendingOK(T, w.locks)
    BY <1>1 DEF Inv
  <2>2. ASSUME NEW j \in Investors, NEW c \in Currencies,
               v.locks[c].commitments["eto"][j].balance > 0
        PROVE  /\ IsOpen(U[j]) /\ U[j].usedLockedAccount
               /\ v.locks[c].commitments["eto"][j].balance <= U[j].amount[c]
    <3>1. Restored(w, v, i, c)
      BY <1>2 DEF PaidInFull
    <3>2. j # i
      BY <2>2, <3>1 DEF Restored
    <3>3. U[j] = T[j] /\ v.locks[c].commitments["eto"][j] = w.locks[c].commitments["eto"][j]
      BY <1>4, <3>1, <3>2 DEF Restored
    <3> QED
      BY <2>1, <2>2, <3>3 DEF PendingOK
  <2> QED
    BY <2>2 DEF PendingOK
<1> QED
  BY <1>2, <1>3, <1>5, <1>6, <1>7, <1>8 DEF Inv

\* A refund as a transaction: exact for the ticket it settles, and it settles no other.
LEMMA RefundKeeps ==
    ASSUME Books, Sides, NEW i \in Investors, Refund(i)
    PROVE  Books' /\ Sides' /\ SM!OtherCall /\ ExactRefund
<1>1. PICK u, b, z : u = Before(World) /\ b = RefundTokens(u, i) /\ z = After(b)
  OBVIOUS
<1>2. u.eto.machine.state = 6 /\ Become(z) /\ UNCHANGED <<whitelist, verified, now>>
  BY <1>1, Phases DEF Refund, StateOf
<1>3. Shaped(u)
  BY <1>1, BooksTypes, ClockIsNatural, WorldIs, BeforeShape
<1>4. Later(u, b)
  BY <1>1, <1>3, RefundTokensShape
<1>5. /\ b.ok /\ Inv(u, 6) /\ u.eto.machine = SM!Before /\ MovedOn(World, u)
  BY <1>1, <1>2, <1>4, BodyRuns
<1>6. PICK T : T = u.eto.tickets
  OBVIOUS
<1>7. IsOpen(T[i]) => Reticketed(u.eto, b.eto, SettledTickets(T, i))
  BY <1>1, <1>5, <1>6, RefundTokensEffect
<1>8. ~IsOpen(T[i]) => b = u
  BY <1>1, <1>6, RefundTokensIs
<1>9. Inv(b, 6)
  BY <1>1, <1>5, <1>6, <1>8, RefundTokensKeeps
<1>10. /\ b.eto.machine = u.eto.machine
       /\ b.eto.totalTokenAmount = u.eto.totalTokenAmount
       /\ b.eto.totalEquivEurUlps = u.eto.totalEquivEurUlps
       /\ b.eto.nomineeSignedUrl = u.eto.nomineeSignedUrl
  BY <1>7, <1>8 DEF Reticketed
<1>11. /\ Books' /\ eto'.machine = SM!After(b.eto.machine) /\ MovedOn(b, z)
       /\ MinReached(eto)' = MinReached(b.eto) /\ CapExceeded(eto)' = CapExceeded(b.eto)
       /\ Confirmed(eto)' = Confirmed(b.eto) /\ eto'.tickets = b.eto.tickets
  <2>1. Inv(b, b.eto.machine.state)
    BY <1>2, <1>9, <1>10
  <2> QED
    BY <1>1, <1>2, <2>1, BodyKept
<1>12. /\ MinReached(b.eto) = MinReached(u.eto) /\ CapExceeded(b.eto) = CapExceeded(u.eto)
       /\ Confirmed(b.eto) = Confirmed(u.eto)
  BY <1>10 DEF MinReached, CapExceeded, IsCapExceeded, Totals, Confirmed
<1>13. /\ MinReached(u.eto) = MinReached(eto) /\ CapExceeded(u.eto) = CapExceeded(eto)
       /\ Confirmed(u.eto) = Confirmed(eto)
  BY <1>5, WorldIs, ConditionsMoved
<1>14. SM!OtherCall
  BY <1>1, <1>2, <1>5, <1>10, <1>11, <1>12, <1>13, Phases DEF SM!OtherCall, SM!conditions
<1>15. ExactRefund
  <2>1. SUFFICES ASSUME NEW j \in Investors, HasOpenTicket(eto, j), ~HasOpenTicket(eto', j),
                        NEW c \in Currencies
                 PROVE  /\ Wealth(bal', locks', c, j) = Wealth(bal, locks, c, j) + Ticket(j).amount[c]
                        /\ locks'[c].accounts[j].neumarksDue =
                              locks[c].accounts[j].neumarksDue + locks[c].commitments["eto"][j].neumarksDue
    BY DEF ExactRefund
  <2>2. T = eto.tickets /\ u.locks = locks /\ \A p \in Investors : u.bal[c][p] = bal[c][p]
    BY <1>5, <1>6, WorldIs DEF MovedOn
  <2>3. z.locks = b.locks /\ \A p \in Investors : z.bal[c][p] = b.bal[c][p]
    BY <1>11 DEF MovedOn
  <2>4. bal' = z.bal /\ locks' = z.locks
    BY <1>2 DEF Become
  <2>5. IsOpen(T[j]) /\ ~IsOpen(b.eto.tickets[j])
    BY <1>11, <2>1, <2>2 DEF HasOpenTicket, IsOpen
  <2>6. IsOpen(T[i])
    BY <1>6, <1>8, <2>5
  <2>7. T \in [Investors -> Tickets] /\ b.eto.tickets = SettledTickets(T, i)
    BY <1>5, <1>6, <1>7, <2>6, InvTypes, OfferingTypes DEF Reticketed
  <2>8. j = i
    BY <2>5, <2>7 DEF SettledTickets
  <2>9. PaidInFull(u, b, i, c, T[i].amount[c])
    BY <1>1, <1>5, <1>6, <2>6, RefundTokensEffect
  <2>10. /\ Wealth(b.bal, b.locks, c, i) = Wealth(u.bal, u.locks, c, i) + T[i].amount[c]
         /\ b.locks[c].accounts[i].neumarksDue =
               u.locks[c].accounts[i].neumarksDue + u.locks[c].commitments["eto"][i].neumarksDue
    BY <2>9 DEF PaidInFull, Restored
  <2>11. /\ Wealth(bal', locks', c, i) = Wealth(b.bal, b.locks, c, i)
         /\ Wealth(bal, locks, c, i) = Wealth(u.bal, u.locks, c, i)
    BY <2>2, <2>3, <2>4 DEF Wealth
  <2> QED
    BY <2>2, <2>3, <2>4, <2>8, <2>10, <2>11 DEF Ticket
<1> QED
  BY <1>2, <1>11, <1>14, <1>15, SidesKept

-----------------------------------------------------------------------------
(***************************************************************************)
(* The beginning.                                                          *)
(***************************************************************************)
LEMMA NewOfferingIs ==
    ASSUME NEW e, e = NewOffering
    PROVE  /\ e \in Offerings /\ MachineOK(e.machine) /\ e.machine.state = 0
           /\ e.machine = SM!InitMachine
           /\ e.tickets = [i \in Investors |-> NoTicket]
           /\ e.totalEquivEurUlps = 0 /\ e.totalTokenAmount = 0
           /\ e.totalFixedSlotsTokenAmount = 0 /\ e.totalInvestors = 0
           /\ \A c \in Currencies : e.additionalContribution[c] = 0
           /\ e.newShares = 0 /\ e.tokenParticipationFeeAmount = 0
           /\ ~Confirmed(e)
<1>1. PICK m : m = SM!InitMachine
  OBVIOUS
<1>2. m = [state |-> 0, past |-> [s \in 0 .. 6 |-> 0], hops |-> {}]
  BY <1>1, Phases DEF SM!InitMachine
<1>3. m \in SM!Machines /\ m.state = 0 /\ m.hops = {}
  BY <1>2, Phases DEF SM!Machines
<1>4. PICK T, z : T = [i \in Investors |-> NoTicket] /\ z = [c \in Currencies |-> 0]
  OBVIOUS
<1>5. T \in [Investors -> Tickets] /\ z \in [Currencies -> Nat] /\ \A c \in Currencies : z[c] = 0
  BY <1>4, NoTicketIs
<1>6. e = [machine |-> m, tickets |-> T, agreements |-> 0,
           totalEquivEurUlps |-> 0, totalTokenAmount |-> 0, totalFixedSlotsTokenAmount |-> 0,
           totalInvestors |-> 0, additionalContribution |-> z,
           platformFee |-> z, newShares |-> 0, tokenParticipationFeeAmount |-> 0,
           signedUrl |-> NoUrl, nomineeSignedUrl |-> "unconfirmed"]
  BY <1>1, <1>4 DEF NewOffering
<1>7. /\ IsOffering(e) /\ e.machine = m /\ e.tickets = T /\ e.agreements = 0
      /\ e.totalEquivEurUlps = 0 /\ e.totalTokenAmount = 0
      /\ e.totalFixedSlotsTokenAmount = 0 /\ e.totalInvestors = 0
      /\ e.additionalContribution = z /\ e.platformFee = z /\ e.newShares = 0
      /\ e.tokenParticipationFeeAmount = 0 /\ e.signedUrl = NoUrl
      /\ e.nomineeSignedUrl = "unconfirmed"
  BY ONLY <1>6 DEF IsOffering
<1>8. e \in Offerings
  BY <1>3, <1>5, <1>7, OfferingMade
<1>9. MachineOK(m)
  BY <1>3 DEF MachineOK
<1> QED
  BY <1>1, <1>3, <1>4, <1>5, <1>7, <1>8, <1>9 DEF Confirmed

\* What everybody holds before the offering.
LEMMA InitialBalancesAre ==
    ASSUME Init
    PROVE  /\ bal \in [Currencies -> [Investors \cup Parties -> Nat]]
           /\ \A c \in Currencies : /\ bal[c]["eto"] = 0 /\ bal[c]["nominee"] = 0
                                    /\ bal[c]["lock"] = InitialLocks[c].total
           /\ neu \in [Investors \cup {"eto", "operator"} -> Nat] /\ neu["eto"] = 0
           /\ equity \in [Investors \cup {"eto", "portfolio"} -> Nat] /\ equity["eto"] = 0
<1>1. ASSUME NEW c \in Currencies
      PROVE  /\ InitialLocks[c].total \in Nat
             /\ \A i \in Investors : /\ InitialBalances[c][i] \in Nat
                                     /\ InitialLocks[c].accounts[i].neumarksDue \in Nat
  <2>1. InitialLocks[c] \in Locks /\ InitialBalances[c] \in [Investors -> Nat]
    BY InputAssumption
  <2> QED
    BY <2>1, LockTypes
<1>2. PICK P : P = Investors \cup Parties
  OBVIOUS
<1>3. PICK row : row = [c \in Currencies |-> [p \in P |->
                          IF p \in Investors THEN InitialBalances[c][p]
                          ELSE IF p = "lock" THEN InitialLocks[c].total ELSE 0]]
  OBVIOUS
<1>4. bal = row
  BY <1>2, <1>3 DEF Init
<1>5. ASSUME NEW c \in Currencies
      PROVE  /\ row[c] \in [P -> Nat] /\ row[c]["eto"] = 0 /\ row[c]["nominee"] = 0
             /\ row[c]["lock"] = InitialLocks[c].total
  <2>1. row[c] = [p \in P |-> IF p \in Investors THEN InitialBalances[c][p]
                              ELSE IF p = "lock" THEN InitialLocks[c].total ELSE 0]
    BY <1>3
  <2>2. row[c] \in [P -> Nat]
    BY <1>1, <2>1
  <2>3. "eto" \in P /\ "nominee" \in P /\ "lock" \in P
    BY <1>2, PartyFacts
  <2>4. "eto" \notin Investors /\ "nominee" \notin Investors /\ "lock" \notin Investors
    BY PartyFacts
  <2> QED
    BY <2>1, <2>2, <2>3, <2>4
<1>6. bal \in [Currencies -> [Investors \cup Parties -> Nat]]
  BY <1>2, <1>3, <1>4, <1>5
<1>7. ASSUME NEW p \in Investors
      PROVE  SumFunction([c \in Currencies |-> InitialLocks[c].accounts[p].neumarksDue]) \in Nat
  <2>1. PICK f : f = [c \in Currencies |-> InitialLocks[c].accounts[p].neumarksDue]
    OBVIOUS
  <2>2. f \in [Currencies -> Nat]
    BY <1>1, <2>1
  <2>3. IsFiniteSet(Currencies)
    <3>1. Currencies = {"ETH"} \cup {"EUR"}
      BY DEF Currencies
    <3> QED
      BY <3>1, FS_Singleton, FS_AddElement
  <2>4. SumFunction(f) \in Nat
    BY <2>2, <2>3, SumIsNatural
  <2> QED
    BY <2>1, <2>4
<1>8. neu \in [Investors \cup {"eto", "operator"} -> Nat] /\ neu["eto"] = 0
  <2>1. PICK g : g = [p \in Investors |->
                        SumFunction([c \in Currencies |-> InitialLocks[c].accounts[p].neumarksDue])]
    OBVIOUS
  <2>2. neu = [p \in Investors \cup {"eto", "operator"} |-> IF p \in Investors THEN g[p] ELSE 0]
    BY <2>1 DEF Init
  <2>3. \A p \in Investors : g[p] \in Nat
    BY <1>7, <2>1
  <2>4. "eto" \notin Investors
    BY PartyFacts
  <2> QED
    BY ONLY <2>2, <2>3, <2>4
<1>9. equity \in [Investors \cup {"eto", "portfolio"} -> Nat] /\ equity["eto"] = 0
  BY DEF Init
<1> QED
  BY <1>4, <1>5, <1>6, <1>8, <1>9

\* A new offering is in order, with whatever the wallets hold.
LEMMA BooksAtTheBeginning ==
    ASSUME Init
    PROVE  Books /\ Sides
<1>1. eto = NewOffering /\ locks = InitialLocks
  BY DEF Init
<1>2. PICK T : T = eto.tickets
  OBVIOUS
<1>3. /\ eto \in Offerings /\ MachineOK(eto.machine) /\ eto.machine.state = 0
      /\ T = [i \in Investors |-> NoTicket]
      /\ eto.totalEquivEurUlps = 0 /\ eto.totalTokenAmount = 0
      /\ eto.totalFixedSlotsTokenAmount = 0 /\ eto.totalInvestors = 0
      /\ \A c \in Currencies : eto.additionalContribution[c] = 0
      /\ eto.newShares = 0 /\ eto.tokenParticipationFeeAmount = 0 /\ ~Confirmed(eto)
  BY <1>1, <1>2, NewOfferingIs
<1>4. /\ TokensOf(T) = 0 /\ EquivOf(T) = 0 /\ OpenRewardsOf(T) = 0
      /\ \A c \in Currencies : OpenAmountOf(T, c) = 0
      /\ Cardinality(Holders(T)) = 0 /\ \A i \in Investors : T[i] = NoTicket
  BY <1>3, SumsOfNoTickets
<1>5. /\ bal \in [Currencies -> [Investors \cup Parties -> Nat]]
      /\ \A c \in Currencies : /\ bal[c]["eto"] = 0 /\ bal[c]["nominee"] = 0
                               /\ bal[c]["lock"] = InitialLocks[c].total
      /\ neu \in [Investors \cup {"eto", "operator"} -> Nat] /\ neu["eto"] = 0
      /\ equity \in [Investors \cup {"eto", "portfolio"} -> Nat] /\ equity["eto"] = 0
  BY InitialBalancesAre
<1>6. /\ locks \in [Currencies -> Locks]
      /\ \A c \in Currencies : SoundLock(locks[c]) /\ bal[c]["lock"] = locks[c].total
      /\ \A c \in Currencies, i \in Investors : locks[c].commitments["eto"][i] = NoMoney
  BY <1>1, <1>5, InputAssumption
<1>7. Typed(World)
  BY <1>3, <1>5, <1>6, WorldIs DEF Typed
<1>8. TicketsOK(eto, 0)
  BY <1>2, <1>4, NoTicketIs DEF TicketsOK
<1>9. TotalsOK(eto, 0)
  <2>1. MAX_AVAILABLE_TOKENS \in Nat /\ MAX_INVESTMENT_AMOUNT_EUR_ULPS \in Nat
    BY AvailableTokens, TermsAssumption
  <2> QED
    BY <1>2, <1>3, <1>4, <2>1 DEF TotalsOK
<1>10. SharesOK(eto, 0)
  BY <1>3 DEF SharesOK
<1>11. MoneyOK(eto, bal, 0)
  BY <1>2, <1>3, <1>4, <1>5 DEF MoneyOK, Held
<1>12. RewardsOK(eto, neu, 0)
  <2>1. PlatformNmk(0) = 0
    BY PlatformNmkIs
  <2>2. neu["eto"] - PlatformNmk(neu["eto"]) = 0
    BY <1>5, <2>1
  <2> QED
    BY <1>2, <1>4, <2>2 DEF RewardsOK
<1>13. EquityOK(eto, equity, 0)
  BY <1>5 DEF EquityOK
<1>14. AgreementOK(eto, 0)
  BY <1>3 DEF AgreementOK
<1>15. PendingOK(T, locks)
  BY <1>6 DEF PendingOK, NoMoney
<1>16. Inv(World, 0)
  BY <1>2, <1>7, <1>8, <1>9, <1>10, <1>11, <1>12, <1>13, <1>14, <1>15, WorldIs DEF Inv
<1>17. Sides
  <2>1. 0 \in 0 .. MaxTime
    BY InputAssumption
  <2> QED
    BY <2>1, InputAssumption DEF Init, Sides
<1> QED
  BY <1>3, <1>16, <1>17 DEF Books

\* Terms whose smallest ticket, with a token for rounding, fits under both caps.
\* RequireValidTerms leaves two cases open: a smallest ticket that buys all that is
\* available, and one above the product's maximum investment, which is compared with the
\* minimum cap only.
SmallestTicketFits ==
    /\ MIN_TICKET_TOKENS + 1 <= MAX_AVAILABLE_TOKENS
    /\ MAX_INVESTMENT_AMOUNT_EUR_ULPS > 0 => MIN_TICKET_EUR_ULPS <= MAX_INVESTMENT_AMOUNT_EUR_ULPS

\* The machine starts as on its own.
LEMMA MachineAtTheBeginning ==
    ASSUME Init, SmallestTicketFits
    PROVE  SM!Init
<1>1. /\ eto.machine = SM!InitMachine /\ eto.totalTokenAmount = 0 /\ eto.totalEquivEurUlps = 0
      /\ ~Confirmed(eto)
  BY NewOfferingIs DEF Init
<1>2. ~MinReached(eto)
  <2>1. MIN_NUMBER_OF_TOKENS \in Nat /\ MIN_NUMBER_OF_TOKENS > 0
    BY TokenTermsAssumption
  <2> QED
    BY <1>1, <2>1 DEF MinReached
<1>3. ~CapExceeded(eto)
  <2>1. /\ MIN_TICKET_TOKENS \in Nat /\ MAX_AVAILABLE_TOKENS \in Nat
        /\ MIN_TICKET_EUR_ULPS \in Nat /\ MAX_INVESTMENT_AMOUNT_EUR_ULPS \in Nat
    BY AvailableTokens, TermsAssumption, TokensAreNatural, PricesArePositive
       DEF MIN_TICKET_TOKENS, CalculateTokenAmount
  <2> QED
    BY <1>1, <2>1 DEF SmallestTicketFits, CapExceeded, IsCapExceeded, Totals
<1>4. now = 0
  BY DEF Init
<1> QED
  BY <1>1, <1>2, <1>3, <1>4, ConditionsAreBoolean DEF SM!Init

-----------------------------------------------------------------------------
(***************************************************************************)
(* Every step.                                                             *)
(***************************************************************************)

\* What every step keeps, what it is to the machine and what it must not do.
StepKeeps == Books' /\ Sides' /\ (SM!Next \/ UNCHANGED SM!vars) /\ ExactRefund

\* What an investor may do.
LEMMA InvestorStepKeeps ==
    ASSUME Books, Sides, NEW i \in Investors, InvestorActs(i)
    PROVE  StepKeeps
<1>1. ASSUME NEW c \in Currencies, NEW rate \in Rates, NEW amount \in Payments[c],
             NEW issued \in NeuRewards, Invest(i, c, amount, rate, issued)
      PROVE  StepKeeps
  BY <1>1, InvestKeeps, OpenIsExact DEF StepKeeps, SM!Next, SM!Transaction
<1>2. ASSUME NEW c \in Currencies, NEW rate \in Rates, NEW amount \in Payments[c],
             InvestLocked(i, c, amount, rate)
      PROVE  StepKeeps
  BY <1>2, InvestLockedKeeps, OpenIsExact DEF StepKeeps, SM!Next, SM!Transaction
<1>3. ASSUME NEW c \in Currencies, Unlock(i, c)
      PROVE  StepKeeps
  BY <1>3, UnlockKeeps, OpenIsExact DEF StepKeeps
<1>4. CASE Claim(i)
  BY <1>4, ClaimKeeps DEF StepKeeps, SM!Next, SM!Transaction
<1>5. CASE Refund(i)
  BY <1>5, RefundKeeps DEF StepKeeps, SM!Next, SM!Transaction
<1> QED
  BY <1>1, <1>2, <1>3, <1>4, <1>5 DEF InvestorActs

\* What anybody may do.
LEMMA NextKeeps ==
    ASSUME Books, Sides, [Next]_vars
    PROVE  StepKeeps
<1>1. CASE \E i \in Investors : InvestorActs(i)
  BY <1>1, InvestorStepKeeps
<1>2. CASE AmendAgreement
  BY <1>2, AmendKeeps, OpenIsExact DEF StepKeeps
<1>3. CASE \E startDate \in StartDates : SetStartDate(startDate)
  BY <1>3, SetStartDateKeeps, OpenIsExact DEF StepKeeps, SM!Next, SM!Transaction
<1>4. CASE \E url \in Urls : CompanySignsInvestmentAgreement(url)
  BY <1>4, CompanySigns, OpenIsExact DEF StepKeeps, SM!Next, SM!Transaction
<1>5. CASE \E url \in Urls \cup {NoUrl} : NomineeConfirmsInvestmentAgreement(url)
  BY <1>5, NomineeSigns, OpenIsExact DEF StepKeeps, SM!Next, SM!Transaction
<1>6. CASE Payout
  BY <1>6, PayoutKeeps, OpenIsExact DEF StepKeeps, SM!Next, SM!Transaction
<1>7. CASE HandleStateTransitions
  BY <1>7, HandleStateTransitionsKeeps, OpenIsExact DEF StepKeeps, SM!Next, SM!Transaction
<1>8. CASE \/ \E i \in Investors, ticket \in WhitelistEdits : SetWhitelisted(i, ticket)
           \/ \E p \in Fallible : ChangeVerification(p)
  BY <1>8, OthersKeep, OpenIsExact DEF StepKeeps
<1>9. CASE NomineeReturnsCapital
  BY <1>9, NomineeReturnsKeeps, OpenIsExact DEF StepKeeps
<1>10. CASE Tick
  BY <1>10, TickKeeps, OpenIsExact DEF StepKeeps, SM!Next
<1>11. CASE UNCHANGED vars
  <2>1. UNCHANGED <<eto, bal, neu, equity, locks>> /\ UNCHANGED <<whitelist, verified, now>>
    BY <1>11 DEF vars
  <2>2. UNCHANGED SM!vars
    BY <2>1 DEF SM!vars, MinReached, CapExceeded, Confirmed, Totals
  <2> QED
    BY <2>1, <2>2, BooksUntouched, SidesKept, OpenIsExact DEF StepKeeps
<1> QED
  BY <1>1, <1>2, <1>3, <1>4, <1>5, <1>6, <1>7, <1>8, <1>9, <1>10, <1>11 DEF Next

-----------------------------------------------------------------------------
(***************************************************************************)
(* The properties.                                                         *)
(***************************************************************************)

\* The invariant holds in every reachable state.
THEOREM BooksAreInOrder == Spec => [](Books /\ Sides)
<1>1. Init => Books /\ Sides
  BY BooksAtTheBeginning
<1>2. Books /\ Sides /\ [Next]_vars => Books' /\ Sides'
  BY NextKeeps DEF StepKeeps
<1> QED
  BY <1>1, <1>2, PTL DEF Spec

\* An order of the books that includes the types.
LEMMA BooksAreTyped == Books /\ Sides => TypeOK
BY BooksTypes DEF Sides, TypeOK

\* No amount ever wraps below zero and every variable keeps its type, for all
\* investors, terms and payments.
THEOREM TypesAreKept == Spec => []TypeOK
BY BooksAreInOrder, BooksAreTyped, PTL

\* the invariant of the state
LEMMA BooksSay ==
    ASSUME Books, NEW s, s = eto.machine.state
    PROVE  /\ TicketsOK(eto, s) /\ TotalsOK(eto, s) /\ SharesOK(eto, s) /\ MoneyOK(eto, bal, s)
           /\ RewardsOK(eto, neu, s) /\ EquityOK(eto, equity, s) /\ AgreementOK(eto, s)
           /\ PendingOK(eto.tickets, locks) /\ s \in 0 .. 6 /\ s = State
BY WorldIs, BooksTypes, MachineTypes DEF Books, Inv, MachineOK, State

\* An open ticket, by either name.
LEMMA OpenMeans == \A i \in Investors : HasOpenTicket(eto, i) <=> IsOpen(eto.tickets[i])
BY DEF HasOpenTicket, IsOpen

\* The sums of the properties are those of the invariant.
LEMMA SumsAre ==
    /\ SumOver(LAMBDA i : Ticket(i).equityTokenAmount) = TokensOf(eto.tickets)
    /\ SumOver(LAMBDA i : Ticket(i).equivEurUlps) = EquivOf(eto.tickets)
    /\ OpenRewards = OpenRewardsOf(eto.tickets) /\ OpenTokens = OpenTokensOf(eto.tickets)
    /\ \A c \in Currencies : OpenAmount(c) = OpenAmountOf(eto.tickets, c)
BY DEF SumOver, Ticket, TokensOf, EquivOf, OpenRewards, OpenRewardsOf, OpenTokens, OpenTokensOf,
       OpenAmount, OpenAmountOf, HasOpenTicket, IsOpen

\* The counters of the offering are the sums over all tickets, and no sequence of
\* purchases crosses a cap.
THEOREM TotalsAreSums == Spec => []TotalsMatchTickets
<1>1. Books => TotalsMatchTickets
  <2> SUFFICES ASSUME Books PROVE TotalsMatchTickets
    OBVIOUS
  <2>1. TotalsOK(eto, State)
    BY BooksSay
  <2>2. Holders(eto.tickets) = {i \in Investors : Ticket(i) # NoTicket}
    BY DEF Holders, Ticket
  <2> QED
    BY <2>1, <2>2, SumsAre, Phases DEF TotalsOK, TotalsMatchTickets
<1> QED
  BY <1>1, BooksAreInOrder, PTL

\* The tokens an offering issues are whole shares and within the maximum.
THEOREM IssueIsWithinMaximum == Spec => []IssuedWithinMaximum
<1>1. Books => IssuedWithinMaximum
  BY BooksSay DEF SharesOK, IssuedWithinMaximum
<1> QED
  BY <1>1, BooksAreInOrder, PTL

\* The Neumarks the offering holds cover all rewards not claimed yet, whatever was
\* rounded where.
THEOREM RewardsAreCovered == Spec => []NeumarksCoverRewards
<1>1. Books => NeumarksCoverRewards
  <2> SUFFICES ASSUME Books PROVE NeumarksCoverRewards
    OBVIOUS
  <2>1. RewardsOK(eto, neu, State) /\ State \in 0 .. 6
    BY BooksSay
  <2>2. CASE State = 6
    BY <2>2, Phases DEF NeumarksCoverRewards
  <2>3. CASE State \in {4, 5}
    BY <2>1, <2>3, SumsAre, Phases DEF RewardsOK, NeumarksCoverRewards
  <2>4. CASE State <= 3
    BY <2>1, <2>4, SumsAre, Phases DEF RewardsOK, NeumarksCoverRewards
  <2> QED
    BY <2>1, <2>2, <2>3, <2>4
<1> QED
  BY <1>1, BooksAreInOrder, PTL

\* The equity tokens the offering holds are exactly those of the open tickets and, until
\* Payout, the platform's.
THEOREM EquityIsCovered == Spec => []EquityCoversTickets
<1>1. Books => EquityCoversTickets
  BY BooksSay, SumsAre, Phases DEF EquityOK, EquityCoversTickets
<1> QED
  BY <1>1, BooksAreInOrder, PTL

\* Every payment token the offering received is accounted for in every phase.
THEOREM MoneyIsInOrder == Spec => []MoneyIsAccounted
<1>1. Books => MoneyIsAccounted
  <2> SUFFICES ASSUME Books, NEW c \in Currencies, NEW n, n = Held(bal, c)
               PROVE  /\ bal[c]["eto"] = CASE State \in {SM!Claim} -> eto.platformFee[c]
                                           [] State = SM!Payout    -> 0
                                           [] OTHER                -> OpenAmount(c) - n
                      /\ State = SM!Signing =>
                            bal[c]["eto"] = eto.additionalContribution[c] + eto.platformFee[c]
    BY DEF MoneyIsAccounted, Held
  <2>1. MoneyOK(eto, bal, State) /\ State \in 0 .. 6
    BY BooksSay
  <2>2. OpenAmount(c) = OpenAmountOf(eto.tickets, c) /\ OpenAmount(c) \in Nat
    BY BooksTypes, OfferingTypes, TicketSums, SumsAre
  <2>3. CASE State <= 2
    BY <2>1, <2>2, <2>3, Phases DEF MoneyOK
  <2>4. CASE State = 3
    BY <2>1, <2>2, <2>4, Phases DEF MoneyOK
  <2>5. CASE State \in {4, 5}
    BY <2>1, <2>5, Phases DEF MoneyOK
  <2>6. CASE State = 6
    BY <2>1, <2>2, <2>6, Phases DEF MoneyOK
  <2> QED
    BY <2>1, <2>3, <2>4, <2>5, <2>6
<1> QED
  BY <1>1, BooksAreInOrder, PTL

\* What an ICBM wallet has pending in the offering is part of an open ticket that knows
\* it, so the assertion in refundSingleToken cannot fail.
THEOREM PendingIsKnown == Spec => []PendingIsInTicket
<1>1. Books => PendingIsInTicket
  BY BooksSay, OpenMeans DEF PendingOK, PendingIsInTicket, Ticket
<1> QED
  BY <1>1, BooksAreInOrder, PTL

\* The agreement the nominee confirmed stays the one the company signed.
THEOREM AgreementIsKept == Spec => []SameAgreementSigned
<1>1. Books => SameAgreementSigned
  BY BooksSay DEF AgreementOK, SameAgreementSigned
<1> QED
  BY <1>1, BooksAreInOrder, PTL

\* A refund returns exactly the invested amount of both payment tokens, the pending part
\* to the wallet with its Neumarks due.
THEOREM RefundsAreExact == Spec => RefundIsExact
<1>1. Books /\ Sides /\ [Next]_vars => ExactRefund
  BY NextKeeps DEF StepKeeps
<1>2. ExactRefund => [\A i \in Investors :
          HasOpenTicket(eto, i) /\ ~HasOpenTicket(eto', i) /\ eto'.machine.state = SM!Refund =>
             \A c \in Currencies :
                /\ Wealth(bal', locks', c, i) = Wealth(bal, locks, c, i) + Ticket(i).amount[c]
                /\ locks'[c].accounts[i].neumarksDue =
                      locks[c].accounts[i].neumarksDue + locks[c].commitments["eto"][i].neumarksDue]_vars
  BY DEF ExactRefund
<1> QED
  BY <1>1, <1>2, BooksAreInOrder, PTL DEF Spec, RefundIsExact

\* Every step of the offering is a step of the timed state machine, or leaves it alone.
THEOREM StepsAreOfTheMachine == Spec => [][SM!Next]_SM!vars
<1>1. Books /\ Sides /\ [Next]_vars => [SM!Next]_SM!vars
  BY NextKeeps DEF StepKeeps
<1> QED
  BY <1>1, BooksAreInOrder, PTL DEF Spec

\* An offering whose smallest ticket fits under its caps implements the timed state
\* machine.
THEOREM MachineIsImplemented == SmallestTicketFits => (Spec => ImplementsTimedStateMachine)
<1>1. SmallestTicketFits /\ Init => SM!Init
  BY MachineAtTheBeginning
<1>2. SmallestTicketFits => (Spec => SM!Init)
  BY <1>1 DEF Spec
<1> QED
  BY <1>2, StepsAreOfTheMachine, PTL DEF ImplementsTimedStateMachine, SM!Spec

=================================================================================
