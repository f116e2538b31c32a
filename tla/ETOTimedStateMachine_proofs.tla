-------------------- MODULE ETOTimedStateMachine_proofs ---------------------
(***************************************************************************)
(* Proofs about the timed state machine of an offering, for every choice   *)
(* of durations and start dates.                                           *)
(*                                                                         *)
(* The argument is about one machine record at a time.  Sound(m, t, min,   *)
(* conf) says everything a machine m satisfies at time t under the         *)
(* conditions min and conf; it is preserved by each transition that is     *)
(* taken when it should be (TransitionSound), hence by the timed cascade   *)
(* (AdvanceTimedSound) and the logic cascade (AdvanceLogicSound), hence by *)
(* every action.                                                           *)
(***************************************************************************)
EXTENDS ETOTimedStateMachine, FiniteSums

\* the deadline of the running phase, and the history before and after it
RunningOnSchedule(m, t) ==
    /\ m.state # Setup => m.past[Setup] > 0
    /\ m.state \in Whitelist .. Payout =>
          /\ m.past[m.state] = m.past[m.state - 1] + ETO_STATE_DURATIONS[m.state]
          /\ m.past[m.state - 1] <= t
    /\ m.state # Refund => \A s \in Whitelist .. Signing : s > m.state => m.past[s] = 0

HistoryOrdered(m) ==
    \A s \in Entered(m) :
       /\ m.past[s - 1] <= m.past[s]
       /\ m.past[s] <= m.past[s - 1] + ETO_STATE_DURATIONS[s]

Earned(m, min, conf) ==
    /\ m.state \in {Signing, Claim, Payout} => min
    /\ m.state \in {Claim, Payout} =>
          conf /\ m.past[Signing] < m.past[Public] + SIGNING_DURATION

Sound(m, t, min, conf) ==
    /\ m \in Machines
    /\ m.hops \subseteq ValidTransitions
    /\ Earned(m, min, conf)
    /\ RunningOnSchedule(m, t)
    /\ HistoryOrdered(m)

\* the deadline of phase st is not behind the machine
NotOverdue(m, st, t) == m.state = st => t < m.past[st]

\* the same for the phase the machine is in, once it runs
OnTime(m, t) == m.past[Setup] > 0 => \A st \in Setup .. Claim : NotOverdue(m, st, t)

\* between two logic transitions an empty public phase may just have ended
InLogicCascade(m, t) ==
    /\ m.state \in {Whitelist, Public} => t <= m.past[m.state]
    /\ m.state \in {Signing, Claim} => t < m.past[m.state]

\* the states a machine may be in later
Moves(m, r) ==
    /\ r.state \in ETOStates
    /\ r.state >= m.state
    /\ m.state = Claim => r.state \in {Claim, Payout}
    /\ m.state = Payout => r.state = Payout

Closed == capExceeded => machine.state \notin {Setup, Whitelist, Public}

IInv ==
    /\ TypeOK
    /\ Sound(machine, now, minReached, confirmed)
    /\ Closed

USE DEF Setup, Whitelist, Public, Signing, Claim, Payout, Refund, ETOStates

-----------------------------------------------------------------------------

\* The durations of the phases: Signing and Claim are never empty.
LEMMA DurationsType ==
    /\ ETO_STATE_DURATIONS \in [ETOStates -> Nat]
    /\ ETO_STATE_DURATIONS[Signing] = SIGNING_DURATION
    /\ ETO_STATE_DURATIONS[Claim] = CLAIM_DURATION
    /\ SIGNING_DURATION \in Nat /\ SIGNING_DURATION > 0
    /\ CLAIM_DURATION \in Nat /\ CLAIM_DURATION > 0
  BY DurationAssumption DEF ETO_STATE_DURATIONS

\* A transition between neighbouring phases, taken after the old phase began,
\* keeps a machine sound; Claim is only entered before the signing deadline.
LEMMA TransitionSound ==
    ASSUME NEW m, NEW newState \in ETOStates, NEW t \in Nat, NEW min \in BOOLEAN, NEW conf \in BOOLEAN,
           Sound(m, t, min, conf),
           <<m.state, newState>> \in {<<Setup, Whitelist>>, <<Whitelist, Public>>, <<Public, Signing>>,
                                      <<Signing, Refund>>, <<Signing, Claim>>, <<Claim, Payout>>},
           newState = Claim => conf /\ t < m.past[Signing],
           newState \in {Whitelist, Payout} => t >= m.past[m.state],
           m.state = Setup => m.past[Setup] > 0
    PROVE  LET r == TransitionTo(m, newState, t, min)
           IN /\ Sound(r, t, min, conf)
              /\ Moves(m, r)
              /\ (InLogicCascade(m, t) /\ newState \in {Public, Signing, Claim}) => InLogicCascade(r, t)
<1> DEFINE r == TransitionTo(m, newState, t, min)
           eff == IF newState = Signing /\ ~min THEN Refund ELSE newState
           end == IF t < m.past[m.state] THEN t ELSE m.past[m.state]
<1>0. m \in Machines /\ newState # m.state /\ m.state # Refund
  <2>1. m.state \in {Setup, Whitelist, Public, Signing, Claim} /\ newState # m.state
    OBVIOUS
  <2> QED
    BY <2>1 DEF Sound
<1>1. /\ r \in Machines
      /\ r.state = eff
      /\ r.hops = m.hops \cup {<<m.state, eff>>}
      /\ r.past[m.state] = end
      /\ r.past[eff] = end + ETO_STATE_DURATIONS[eff]
      /\ \A s \in ETOStates \ {m.state, eff} : r.past[s] = m.past[s]
  BY <1>0, DurationsType DEF TransitionTo, Machines
<1> HIDE DEF r
<1>2. m.past \in [ETOStates -> Nat] /\ r.past \in [ETOStates -> Nat]
  BY <1>0, <1>1 DEF Machines
<1>3. r.hops \subseteq ValidTransitions
  BY <1>1 DEF Sound, ValidTransitions
<1>4. Earned(r, min, conf)
  BY <1>1, <1>2, DurationsType DEF Sound, Earned, RunningOnSchedule
<1>5. RunningOnSchedule(r, t)
  BY <1>1, <1>2, DurationsType DEF Sound, RunningOnSchedule
<1>6. HistoryOrdered(r)
  BY <1>1, <1>2, DurationsType DEF Sound, RunningOnSchedule, HistoryOrdered, Entered
<1>7. Moves(m, r)
  BY <1>1 DEF Moves
<1>8. (InLogicCascade(m, t) /\ newState \in {Public, Signing, Claim}) => InLogicCascade(r, t)
  BY <1>1, <1>2, DurationsType DEF InLogicCascade
<1> QED
  BY <1>1, <1>3, <1>4, <1>5, <1>6, <1>7, <1>8 DEF Sound, r

-----------------------------------------------------------------------------

\* Transitions taken one after the other are a cascade.
LEMMA MovesTransitive ==
    ASSUME NEW a, NEW b, NEW c, a.state \in ETOStates, Moves(a, b), Moves(b, c)
    PROVE  Moves(a, c)
  BY DEF Moves

\* No transition is a cascade.
LEMMA MovesReflexive ==
    ASSUME NEW a, a.state \in ETOStates
    PROVE  Moves(a, a)
  BY DEF Moves

\* one line of advanceTimedState
LEMMA TimedHopSound ==
    ASSUME NEW m, NEW from, NEW to, NEW t \in Nat, NEW min \in BOOLEAN, NEW conf \in BOOLEAN,
           Sound(m, t, min, conf), m.past[Setup] > 0,
           <<from, to>> \in {<<Setup, Whitelist>>, <<Whitelist, Public>>, <<Public, Signing>>,
                             <<Signing, Refund>>, <<Claim, Payout>>}
    PROVE  /\ Sound(TimedHop(m, from, to, t, min), t, min, conf)
           /\ Moves(m, TimedHop(m, from, to, t, min))
           /\ TimedHop(m, from, to, t, min).past[Setup] > 0
<1>0. m.state \in ETOStates
  BY DEF Sound, Machines
<1>1. CASE m.state = from /\ t >= m.past[from]
  <2>1. TimedHop(m, from, to, t, min) = TransitionTo(m, to, t, min)
    BY <1>1 DEF TimedHop
  <2>2. to \in ETOStates /\ to # Claim /\ to # Setup
    OBVIOUS
  <2>3. Sound(TransitionTo(m, to, t, min), t, min, conf) /\ Moves(m, TransitionTo(m, to, t, min))
    BY <1>1, <2>2, TransitionSound
  <2>4. TransitionTo(m, to, t, min).state # Setup
    BY <2>2 DEF TransitionTo
  <2> QED
    BY <2>1, <2>3, <2>4 DEF Sound, RunningOnSchedule
<1>2. CASE ~(m.state = from /\ t >= m.past[from])
  BY <1>0, <1>2, MovesReflexive DEF TimedHop
<1> QED
  BY <1>1, <1>2

\* A line of advanceTimedState leaves its phase if it is overdue, and does not
\* touch a machine in another one.
LEMMA TimedHopOnTime ==
    ASSUME NEW m, NEW from \in ETOStates, NEW to \in ETOStates, NEW t \in Nat, NEW min \in BOOLEAN,
           m \in Machines, from # to, from # Refund,
           NEW st \in ETOStates \ {to, Refund}, st = from \/ NotOverdue(m, st, t)
    PROVE  NotOverdue(TimedHop(m, from, to, t, min), st, t)
<1>1. CASE m.state = from /\ t >= m.past[from]
  <2>1. TimedHop(m, from, to, t, min) = TransitionTo(m, to, t, min)
    BY <1>1 DEF TimedHop
  <2>2. TransitionTo(m, to, t, min).state \in {to, Refund}
    BY DEF TransitionTo
  <2> QED
    BY <2>1, <2>2 DEF NotOverdue
<1>2. CASE ~(m.state = from /\ t >= m.past[from])
  BY <1>2 DEF TimedHop, NotOverdue, Machines
<1> QED
  BY <1>1, <1>2

\* The timed cascade keeps a machine sound and leaves no phase overdue.
LEMMA AdvanceTimedSound ==
    ASSUME NEW m, NEW t \in Nat, NEW min \in BOOLEAN, NEW conf \in BOOLEAN, Sound(m, t, min, conf)
    PROVE  LET r == AdvanceTimed(m, t, min)
           IN Sound(r, t, min, conf) /\ Moves(m, r) /\ OnTime(r, t)
<1>0. m \in Machines /\ m.state \in ETOStates /\ m.past \in [ETOStates -> Nat]
  BY DEF Sound, Machines
<1>1. CASE m.past[Setup] = 0
  BY <1>0, <1>1, MovesReflexive DEF AdvanceTimed, OnTime
<1>2. CASE m.past[Setup] # 0
  <2> DEFINE m1 == TimedHop(m,  Setup,     Whitelist, t, min)
             m2 == TimedHop(m1, Whitelist, Public,    t, min)
             m3 == TimedHop(m2, Public,    Signing,   t, min)
             m4 == TimedHop(m3, Signing,   Refund,    t, min)
             m5 == TimedHop(m4, Claim,     Payout,    t, min)
  <2>0. m.past[Setup] > 0
    BY <1>0, <1>2
  <2>1. Sound(m1, t, min, conf) /\ Moves(m, m1) /\ m1.past[Setup] > 0
    BY <2>0, TimedHopSound
  <2>a. NotOverdue(m1, Setup, t)
    BY <1>0, TimedHopOnTime
  <2> HIDE DEF m1
  <2>2. Sound(m2, t, min, conf) /\ Moves(m1, m2) /\ m2.past[Setup] > 0
    BY <2>1, TimedHopSound
  <2>b. NotOverdue(m2, Setup, t) /\ NotOverdue(m2, Whitelist, t)
    BY <2>1, <2>a, TimedHopOnTime DEF Sound
  <2> HIDE DEF m2
  <2>3. Sound(m3, t, min, conf) /\ Moves(m2, m3) /\ m3.past[Setup] > 0
    BY <2>2, TimedHopSound
  <2>c. NotOverdue(m3, Setup, t) /\ NotOverdue(m3, Whitelist, t) /\ NotOverdue(m3, Public, t)
    BY <2>2, <2>b, TimedHopOnTime DEF Sound
  <2> HIDE DEF m3
  <2>4. Sound(m4, t, min, conf) /\ Moves(m3, m4) /\ m4.past[Setup] > 0
    BY <2>3, TimedHopSound
  <2>d. \A st \in Setup .. Signing : NotOverdue(m4, st, t)
    <3>1. m3 \in Machines
      BY <2>3 DEF Sound
    <3>2. \A st \in Setup .. Signing : st = Signing \/ NotOverdue(m3, st, t)
      BY <2>c
    <3> QED
      BY <3>1, <3>2, TimedHopOnTime
  <2> HIDE DEF m4
  <2>5. Sound(m5, t, min, conf) /\ Moves(m4, m5)
    BY <2>4, TimedHopSound
  <2>e. \A st \in Setup .. Claim : NotOverdue(m5, st, t)
    <3>1. m4 \in Machines
      BY <2>4 DEF Sound
    <3>2. \A st \in Setup .. Claim : st = Claim \/ NotOverdue(m4, st, t)
      BY <2>d
    <3> QED
      BY <3>1, <3>2, TimedHopOnTime
  <2>6. AdvanceTimed(m, t, min) = m5
    BY <1>2 DEF AdvanceTimed, m1, m2, m3, m4
  <2>7. Moves(m, m5)
    BY <1>0, <2>1, <2>2, <2>3, <2>4, <2>5 DEF Moves
  <2> QED
    BY <2>5, <2>6, <2>7, <2>e DEF OnTime
<1> QED
  BY <1>1, <1>2

\* One step of advanceLogicState.
LEMMA LogicHopSound ==
    ASSUME NEW m, NEW t \in Nat, NEW min \in BOOLEAN, NEW cap \in BOOLEAN, NEW conf \in BOOLEAN,
           Sound(m, t, min, conf), InLogicCascade(m, t)
    PROVE  LET r == LogicHop(m, t, min, cap, conf)
           IN Sound(r, t, min, conf) /\ Moves(m, r) /\ InLogicCascade(r, t)
<1> DEFINE new == LogicState(m.state, cap, conf)
<1>0. m.state \in ETOStates
  BY DEF Sound, Machines
<1>1. CASE new = m.state
  BY <1>0, <1>1, MovesReflexive DEF LogicHop
<1>2. CASE new # m.state
  <2>1. /\ new \in ETOStates
        /\ <<m.state, new>> \in {<<Whitelist, Public>>, <<Public, Signing>>, <<Signing, Claim>>}
        /\ new = Claim => conf /\ m.state = Signing
    BY <1>0, <1>2 DEF LogicState
  <2>2. LogicHop(m, t, min, cap, conf) = TransitionTo(m, new, t, min)
    BY <1>2 DEF LogicHop
  <2> HIDE DEF new
  <2>3. new = Claim => t < m.past[Signing]
    BY <2>1 DEF InLogicCascade
  <2>4. m.state # Setup /\ new \notin {Whitelist, Payout} /\ new \in {Public, Signing, Claim}
    BY <2>1
  <2>5. <<m.state, new>> \in {<<Setup, Whitelist>>, <<Whitelist, Public>>, <<Public, Signing>>,
                              <<Signing, Refund>>, <<Signing, Claim>>, <<Claim, Payout>>}
    BY <2>1
  <2> QED
    BY <2>1, <2>2, <2>3, <2>4, <2>5, TransitionSound
<1> QED
  BY <1>1, <1>2

\* From a phase behind Whitelist, a hop of a sold-out offering leads behind Public.
LEMMA HopCloses ==
    ASSUME NEW m, NEW t, NEW min \in BOOLEAN, NEW cap \in BOOLEAN, NEW conf \in BOOLEAN,
           m.state \in {Public, Signing, Claim, Refund}, cap
    PROVE  LogicHop(m, t, min, cap, conf).state \in {Signing, Claim, Refund}
<1> DEFINE new == LogicState(m.state, cap, conf)
<1>1. new \in {Signing, Claim, Refund}
  BY DEF LogicState
<1>2. CASE new = m.state
  BY <1>1, <1>2 DEF LogicHop
<1>3. CASE new # m.state
  <2>1. LogicHop(m, t, min, cap, conf) = TransitionTo(m, new, t, min)
    BY <1>3 DEF LogicHop
  <2>2. TransitionTo(m, new, t, min).state = IF new = Signing /\ ~min THEN Refund ELSE new
    BY DEF TransitionTo
  <2> HIDE DEF new
  <2> QED
    BY <1>1, <2>1, <2>2
<1> QED
  BY <1>2, <1>3

\* The logic cascade keeps a machine sound and on time, and does not leave a sold
\* out offering open.
LEMMA AdvanceLogicSound ==
    ASSUME NEW m, NEW t \in Nat, NEW min \in BOOLEAN, NEW cap \in BOOLEAN, NEW conf \in BOOLEAN,
           Sound(m, t, min, conf), OnTime(m, t)
    PROVE  LET r == AdvanceLogic(m, t, min, cap, conf)
           IN /\ Sound(r, t, min, conf) /\ Moves(m, r) /\ OnTime(r, t)
              /\ (cap /\ m.state # Setup) => r.state \notin {Setup, Whitelist, Public}
<1> DEFINE m1 == LogicHop(m,  t, min, cap, conf)
           m2 == LogicHop(m1, t, min, cap, conf)
           m3 == LogicHop(m2, t, min, cap, conf)
<1>0. m \in Machines /\ m.state \in ETOStates /\ m.past \in [ETOStates -> Nat]
  BY DEF Sound, Machines
<1>1. InLogicCascade(m, t)
  BY <1>0 DEF Sound, RunningOnSchedule, OnTime, NotOverdue, InLogicCascade
<1>2. Sound(m1, t, min, conf) /\ Moves(m, m1) /\ InLogicCascade(m1, t)
  BY <1>1, LogicHopSound
<1>3. Sound(m2, t, min, conf) /\ Moves(m1, m2) /\ InLogicCascade(m2, t)
  BY <1>2, LogicHopSound
<1>4. Sound(m3, t, min, conf) /\ Moves(m2, m3) /\ InLogicCascade(m3, t)
  BY <1>3, LogicHopSound
<1>5. Moves(m, m3)
  BY <1>0, <1>2, <1>3, <1>4 DEF Moves
<1>6. CASE m.state \in {Whitelist, Public} /\ cap
  <2>1. m1.state \in {Public, Signing, Refund}
    <3>1. CASE m.state = Whitelist
      <4>1. m1 = TransitionTo(m, Public, t, min)
        BY <1>6, <3>1 DEF LogicHop, LogicState
      <4> QED
        BY <4>1 DEF TransitionTo
    <3>2. CASE m.state = Public
      <4>1. m1 = TransitionTo(m, Signing, t, min)
        BY <1>6, <3>2 DEF LogicHop, LogicState
      <4>2. m1.state = IF ~min THEN Refund ELSE Signing
        BY <4>1 DEF TransitionTo
      <4> QED
        BY <4>2
    <3> QED
      BY <1>6, <3>1, <3>2
  <2> HIDE DEF m1
  <2>2. m2.state \in {Signing, Claim, Refund}
    BY <1>6, <2>1, HopCloses
  <2> HIDE DEF m2
  <2>3. m3.state \in {Signing, Claim, Refund}
    BY <1>6, <2>2, HopCloses
  <2> HIDE DEF m3
  <2>4. OnTime(m3, t)
    BY <2>3, <1>4 DEF OnTime, NotOverdue, InLogicCascade
  <2> QED
    BY <1>4, <1>5, <2>3, <2>4 DEF AdvanceLogic, m1, m2, m3
<1>7. CASE m.state \in {Setup, Whitelist, Public} /\ ~(m.state # Setup /\ cap)
  <2>1. m1 = m
    BY <1>7 DEF LogicHop, LogicState
  <2>2. m3 = m
    BY <2>1
  <2> QED
    BY <1>4, <1>5, <1>7, <2>2 DEF AdvanceLogic
<1>8. CASE m.state \in {Signing, Claim, Payout, Refund}
  <2> HIDE DEF m3
  <2>1. m3.state \in {Signing, Claim, Payout, Refund}
    BY <1>5, <1>8 DEF Moves
  <2>2. OnTime(m3, t)
    BY <1>4, <2>1 DEF OnTime, NotOverdue, InLogicCascade
  <2> QED
    BY <1>4, <1>5, <2>1, <2>2 DEF AdvanceLogic, m3
<1> QED
  BY <1>0, <1>6, <1>7, <1>8

\* On time, the timed cascade does nothing.
LEMMA OnTimeIsStill ==
    ASSUME NEW m, NEW t \in Nat, NEW min, m \in Machines, OnTime(m, t)
    PROVE  AdvanceTimed(m, t, min) = m
<1>1. m.state \in ETOStates /\ m.past \in [ETOStates -> Nat]
  BY DEF Machines
<1>2. CASE m.past[Setup] = 0
  BY <1>2 DEF AdvanceTimed
<1>3. CASE m.past[Setup] # 0
  <2>1. \A from \in Setup .. Claim : ~(m.state = from /\ t >= m.past[from])
    BY <1>1, <1>3 DEF OnTime, NotOverdue
  <2>2. \A from \in Setup .. Claim : \A to : TimedHop(m, from, to, t, min) = m
    BY <2>1 DEF TimedHop
  <2> QED
    BY <1>3, <2>2 DEF AdvanceTimed
<1> QED
  BY <1>2, <1>3

-----------------------------------------------------------------------------

\* emptying the list of hops, or changing a condition the other way, harms nothing
LEMMA SoundWeakens ==
    ASSUME NEW m, NEW t \in Nat, NEW min \in BOOLEAN, NEW conf \in BOOLEAN,
           NEW u \in Nat, NEW min2 \in BOOLEAN, NEW conf2 \in BOOLEAN,
           Sound(m, t, min, conf), t <= u, min => min2, conf => conf2
    PROVE  /\ Sound(m, u, min2, conf2)
           /\ Sound(Begin(m), u, min2, conf2)
           /\ Begin(m).state = m.state
<1>1. m \in Machines /\ m.state \in ETOStates /\ m.past \in [ETOStates -> Nat]
  BY DEF Sound, Machines
<1>2. Sound(m, u, min2, conf2)
  BY <1>1 DEF Sound, Earned, RunningOnSchedule
<1> DEFINE b == Begin(m)
<1>3. b \in Machines /\ b.state = m.state /\ b.past = m.past /\ b.hops = {}
  BY <1>1 DEF Begin, Machines
<1> HIDE DEF b
<1>4. Sound(b, u, min2, conf2)
  BY <1>2, <1>3 DEF Sound, Earned, RunningOnSchedule, HistoryOrdered, Entered
<1> QED
  BY <1>2, <1>3, <1>4 DEF b

\* A machine that was just deployed.
LEMMA InitSound == Init => IInv
<1> SUFFICES ASSUME Init PROVE IInv
  OBVIOUS
<1>1. machine \in Machines /\ machine.state = Setup /\ machine.hops = {}
      /\ \A s \in ETOStates : machine.past[s] = 0
  BY DEF Init, InitMachine, Machines
<1>2. now \in 0 .. MaxTime
  BY DurationAssumption DEF Init
<1>3. Sound(machine, now, minReached, confirmed)
  BY <1>1 DEF Sound, Earned, RunningOnSchedule, HistoryOrdered, Entered
<1> QED
  BY <1>1, <1>2, <1>3 DEF Init, IInv, TypeOK, Closed

\* the state in which a handler's body runs
LEMMA BeforeSound ==
    ASSUME IInv
    PROVE  /\ Sound(Before, now, minReached, confirmed)
           /\ OnTime(Before, now)
           /\ Moves(machine, Before)
<1>1. now \in Nat /\ minReached \in BOOLEAN /\ confirmed \in BOOLEAN
  BY DurationAssumption DEF IInv, TypeOK
<1>2. Sound(Begin(machine), now, minReached, confirmed) /\ Begin(machine).state = machine.state
  BY <1>1, SoundWeakens DEF IInv
<1> QED
  BY <1>1, <1>2, AdvanceTimedSound DEF Before, Moves

\* A handler whose body turns the machine Before into m and sets the conditions
\* keeps the invariant and leaves nothing overdue.
LEMMA HandlerSound ==
    ASSUME IInv, NEW m, now' = now,
           Sound(m, now, minReached, confirmed), OnTime(m, now), Moves(machine, m),
           minReached' \in BOOLEAN, capExceeded' \in BOOLEAN, confirmed' \in BOOLEAN,
           minReached => minReached', confirmed => confirmed',
           capExceeded' => m.state # Setup,
           machine' = AdvanceLogic(m, now, minReached', capExceeded', confirmed')
    PROVE  IInv' /\ OnTime(machine', now) /\ Moves(machine, machine')
<1>1. now \in Nat /\ minReached \in BOOLEAN /\ confirmed \in BOOLEAN
  BY DurationAssumption DEF IInv, TypeOK
<1>2. Sound(m, now, minReached', confirmed')
  BY <1>1, SoundWeakens
<1>3. /\ Sound(machine', now, minReached', confirmed') /\ Moves(m, machine') /\ OnTime(machine', now)
      /\ (capExceeded' /\ m.state # Setup) => machine'.state \notin {Setup, Whitelist, Public}
  <2>1. ASSUME NEW min \in BOOLEAN, NEW cap \in BOOLEAN, NEW conf \in BOOLEAN, NEW r,
               now \in Nat, Sound(m, now, min, conf), OnTime(m, now),
               r = AdvanceLogic(m, now, min, cap, conf)
        PROVE  /\ Sound(r, now, min, conf) /\ Moves(m, r) /\ OnTime(r, now)
               /\ (cap /\ m.state # Setup) => r.state \notin {Setup, Whitelist, Public}
    BY ONLY <2>1, AdvanceLogicSound
  <2> HIDE DEF IInv
  <2> QED
    BY <1>1, <1>2, <2>1
<1>4. Moves(machine, machine')
  <2>1. machine.state \in ETOStates
    BY DEF IInv, TypeOK, Machines
  <2> HIDE DEF IInv
  <2> QED
    BY <1>3, <2>1 DEF Moves
<1> QED
  BY <1>3, <1>4 DEF IInv, TypeOK, Closed, Sound

\* Every transaction, and time, keep the invariant.
LEMMA NextSound ==
    ASSUME IInv, Next
    PROVE  IInv' /\ Moves(machine, machine') /\ (machine' # machine => OnTime(machine', now))
<1>0. /\ now \in Nat /\ machine \in Machines /\ machine.state \in ETOStates
      /\ minReached \in BOOLEAN /\ capExceeded \in BOOLEAN /\ confirmed \in BOOLEAN
  BY DurationAssumption DEF IInv, TypeOK, Machines
<1>1. /\ Sound(Before, now, minReached, confirmed)
      /\ OnTime(Before, now)
      /\ Moves(machine, Before)
      /\ Before.state \in ETOStates
      /\ capExceeded => Before.state \notin {Setup, Whitelist, Public}
  BY BeforeSound, <1>0 DEF Moves, IInv, Closed
<1>2. ASSUME NEW startDate \in StartDates, SetStartDate(startDate)
      PROVE  IInv' /\ Moves(machine, machine') /\ OnTime(machine', now)
  <2> DEFINE m == RunStateMachine(Before, startDate)
  <2>1. /\ Before \in Machines /\ Before.state = Setup
        /\ startDate \in Nat /\ startDate > 0 /\ startDate > now
    BY <1>0, <1>1, <1>2, DurationAssumption DEF SetStartDate, CanSetStartDate, Sound
  <2>2. /\ m \in Machines /\ m.state = Setup /\ m.hops = Before.hops
        /\ m.past[Setup] = startDate
        /\ \A s \in ETOStates \ {Setup} : m.past[s] = Before.past[s]
    BY <2>1 DEF RunStateMachine, Machines
  <2>3. machine' = AdvanceLogic(m, now, minReached', capExceeded', confirmed')
    BY <1>2 DEF SetStartDate, After
  <2> HIDE DEF m
  <2>4. Sound(m, now, minReached, confirmed)
    BY <1>1, <2>1, <2>2 DEF Sound, Earned, RunningOnSchedule, HistoryOrdered, Entered
  <2>5. OnTime(m, now) /\ Moves(machine, m)
    BY <1>1, <2>1, <2>2 DEF OnTime, NotOverdue, Moves
  <2>6. now' = now /\ minReached' = minReached /\ capExceeded' = capExceeded /\ confirmed' = confirmed
    BY <1>2 DEF SetStartDate, conditions
  <2>7. ~capExceeded
    BY <1>1, <2>1
  <2> QED
    BY <1>0, <2>3, <2>4, <2>5, <2>6, <2>7, HandlerSound
<1>3. CASE Commit
  <2>1. /\ Before.state \in {Whitelist, Public} /\ now' = now /\ confirmed' = confirmed
        /\ machine' = AdvanceLogic(Before, now, minReached', capExceeded', confirmed')
    BY <1>3 DEF Commit, After
  <2>2. minReached' \in BOOLEAN /\ capExceeded' \in BOOLEAN /\ confirmed' \in BOOLEAN
    BY <1>0, <1>3, <2>1 DEF Commit
  <2>3. (minReached => minReached') /\ (confirmed => confirmed')
    <3>1. minReached' = minReached \/ minReached' = TRUE
      BY <1>3, Zenon DEF Commit
    <3>2. CASE minReached' = minReached
      BY <2>1, <3>2
    <3>3. CASE minReached' = TRUE
      BY <2>1, <3>3
    <3> QED
      BY <3>1, <3>2, <3>3
  <2>4. Before.state # Setup
    BY <2>1
  <2> QED
    BY <1>1, <2>1, <2>2, <2>3, <2>4, HandlerSound
<1>4. CASE NomineeConfirms
  <2>1. /\ minReached' = minReached /\ capExceeded' = capExceeded /\ confirmed' = TRUE /\ now' = now
        /\ Before.state # Setup
        /\ machine' = AdvanceLogic(Before, now, minReached', capExceeded', confirmed')
    BY <1>4 DEF NomineeConfirms, After
  <2> QED
    BY <1>0, <1>1, <2>1, HandlerSound
<1>5. CASE OtherCall
  <2>1. /\ minReached' = minReached /\ capExceeded' = capExceeded /\ confirmed' = confirmed /\ now' = now
        /\ Before.state # Setup
        /\ machine' = AdvanceLogic(Before, now, minReached', capExceeded', confirmed')
    BY <1>5 DEF OtherCall, After, conditions
  <2> QED
    BY <1>0, <1>1, <2>1, HandlerSound
<1>6. CASE HandleStateTransitions
  <2>1. /\ machine' = Before
        /\ minReached' = minReached /\ capExceeded' = capExceeded /\ confirmed' = confirmed /\ now' = now
    BY <1>6 DEF HandleStateTransitions, conditions
  <2> QED
    BY <1>1, <2>1 DEF IInv, TypeOK, Closed, Sound
<1>7. CASE Tick
  <2>1. /\ machine' = machine /\ now' = now + 1 /\ now < MaxTime
        /\ minReached' = minReached /\ capExceeded' = capExceeded /\ confirmed' = confirmed
    BY <1>7 DEF Tick, conditions
  <2>2. Sound(machine, now + 1, minReached, confirmed)
    <3>1. now + 1 \in Nat /\ now <= now + 1 /\ now \in Nat
      BY <1>0
    <3>2. minReached \in BOOLEAN /\ confirmed \in BOOLEAN /\ Sound(machine, now, minReached, confirmed)
      BY <1>0 DEF IInv
    <3> HIDE DEF IInv
    <3> QED
      BY ONLY <3>1, <3>2, SoundWeakens
  <2>3. now + 1 \in 0 .. MaxTime
    BY <1>0, <2>1, DurationAssumption
  <2> QED
    BY <1>0, <2>1, <2>2, <2>3, MovesReflexive DEF IInv, TypeOK, Closed
<1> QED
  BY <1>2, <1>3, <1>4, <1>5, <1>6, <1>7 DEF Next, Transaction

\* The inductive invariant holds in every reachable state.
LEMMA Invariance == Spec => []IInv
<1>1. IInv /\ UNCHANGED vars => IInv'
  BY DEF vars, IInv, TypeOK, Sound, Earned, RunningOnSchedule, HistoryOrdered, Entered, Closed
<1>2. IInv /\ [Next]_vars => IInv'
  BY <1>1, NextSound
<1> QED
  BY InitSound, <1>2, PTL DEF Spec

-----------------------------------------------------------------------------

\* The machine record always has its type and the clock stays within its bound.
THEOREM TypeCorrect == Spec => []TypeOK
  BY Invariance, PTL DEF IInv

\* No cascade of transitions, however late, takes one that validTransition forbids.
THEOREM TransitionsValid == Spec => []OnlyValidTransitions
<1>1. IInv => OnlyValidTransitions
  BY DEF IInv, Sound, OnlyValidTransitions
<1> QED
  BY Invariance, <1>1, PTL

\* An offering reaches Signing only with its minimum sold, and Claim only if the
\* nominee confirmed before the signing deadline.
THEOREM SuccessEarned == Spec => []SuccessIsEarned
<1>1. IInv => SuccessIsEarned
  BY DEF IInv, Sound, Earned, SuccessIsEarned
<1> QED
  BY Invariance, <1>1, PTL

\* Executing transitions late never stretches or reorders the phases.
THEOREM KeepsSchedule == Spec => []ScheduleKept
<1>1. IInv => ScheduleKept
  BY DEF IInv, Sound, HistoryOrdered, ScheduleKept
<1> QED
  BY Invariance, <1>1, PTL

\* A sold out offering is never open, and refunds if it is below its minimum.
THEOREM ClosesWhenSoldOut == Spec => []SoldOutIsClosed
<1>1. IInv => SoldOutIsClosed
  BY DEF IInv, TypeOK, Machines, Sound, Earned, Closed, SoldOutIsClosed
<1> QED
  BY Invariance, <1>1, PTL

\* Success and failure are final and phases are not entered again.
THEOREM OutcomeFinal == Spec => OutcomeIsFinal
<1> DEFINE Step == /\ machine.state = Refund => machine'.state = Refund
                   /\ machine'.state >= machine.state
                   /\ machine.state = Claim => machine'.state \in {Claim, Payout}
                   /\ machine.state = Payout => machine'.state = Payout
<1>1. IInv /\ [Next]_vars => [Step]_vars
  <2>1. IInv /\ Next => Step
    <3> SUFFICES ASSUME IInv, Next PROVE Step
      OBVIOUS
    <3>1. Moves(machine, machine') /\ machine.state \in ETOStates
      BY NextSound DEF IInv, TypeOK, Machines
    <3> QED
      BY <3>1 DEF Moves
  <2> QED
    BY <2>1
<1> QED
  BY Invariance, <1>1, PTL DEF Spec, OutcomeIsFinal

\* Every transaction leaves the machine where a second one in the same block finds
\* nothing to do.
THEOREM LeavesNothingOverdue == Spec => NothingOverdue
<1> DEFINE Step == machine' # machine => AdvanceTimed(Begin(machine'), now, minReached') = Begin(machine')
<1>1. IInv /\ [Next]_vars => [Step]_vars
  <2>1. IInv /\ Next => Step
    <3> SUFFICES ASSUME IInv, Next, machine' # machine
                 PROVE  AdvanceTimed(Begin(machine'), now, minReached') = Begin(machine')
      OBVIOUS
    <3>1. OnTime(machine', now) /\ machine' \in Machines /\ now \in Nat
      BY NextSound, DurationAssumption DEF IInv, TypeOK
    <3>2. Begin(machine') \in Machines /\ OnTime(Begin(machine'), now)
      BY <3>1 DEF Begin, Machines, OnTime, NotOverdue
    <3> QED
      BY <3>1, <3>2, OnTimeIsStill
  <2> QED
    BY <2>1
<1> QED
  BY Invariance, <1>1, PTL DEF Spec, NothingOverdue

-----------------------------------------------------------------------------

\* There are finitely many phases, of whole durations.
LEMMA PhasesAreFinite == IsFiniteSet(ETOStates) /\ ETO_STATE_DURATIONS \in [ETOStates -> Int]
<1>1. IsFiniteSet(0 .. 6)
  <2>1. 0 \in Int /\ 6 \in Int
    OBVIOUS
  <2> QED
    BY ONLY <2>1, FS_Interval
<1>2. \A f \in [ETOStates -> Nat] : f \in [ETOStates -> Int]
  OBVIOUS
<1> QED
  BY <1>1, <1>2, DurationsType

\* The phases after `from` last, up to the start of s, as long as `from` + 1 and the rest.
LEMMA DurationsAdd ==
    ASSUME NEW from \in ETOStates, NEW to \in ETOStates
    PROVE  SumFunctionOnSet(ETO_STATE_DURATIONS, from .. to) =
             IF from > to THEN 0
             ELSE ETO_STATE_DURATIONS[from] + SumFunctionOnSet(ETO_STATE_DURATIONS, (from + 1) .. to)
<1>1. CASE from > to
  <2>1. from .. to = {}
    BY <1>1
  <2> QED
    BY <1>1, <2>1, SumOfNone
<1>2. CASE from <= to
  <2> DEFINE D == ETO_STATE_DURATIONS
             all == from .. to
             rest == (from + 1) .. to
             E == ETOStates
  <2>1. all \in SUBSET E /\ from \in all
    BY <1>2
  <2>2. all \ {from} = rest
    BY <1>2
  <2>3. IsFiniteSet(E) /\ D \in [E -> Int]
    BY PhasesAreFinite
  <2> HIDE DEF D, all, rest, E
  <2>4. SumFunctionOnSet(D, all) = D[from] + SumFunctionOnSet(D, all \ {from})
    <3>1. ASSUME NEW T \in SUBSET E, NEW x \in T
          PROVE  SumFunctionOnSet(D, T) = D[x] + SumFunctionOnSet(D, T \ {x})
      BY ONLY <2>3, <3>1, SumTakesAny, SMT
    <3> QED
      BY ONLY <2>1, <3>1, Zenon
  <2>5. ~(from > to)
    BY <1>2
  <2> QED
    BY <2>2, <2>4, <2>5 DEF D, all, rest
<1> QED
  BY <1>1, <1>2

\* startOf, for the phases an offering may announce.
LEMMA StartOfIs ==
    ASSUME NEW m, NEW s \in Whitelist .. Payout
    PROVE  StartOf(m, s) =
             IF s - 1 <= m.state THEN m.past[s - 1]
             ELSE m.past[m.state] + SumFunctionOnSet(ETO_STATE_DURATIONS, (m.state + 1) .. (s - 1))
<1>1. s # Setup /\ s # Refund
  OBVIOUS
<1> QED
  BY <1>1 DEF StartOf, SumFunctionOnSet

\* Leaving an overdue phase for the next one moves no announced start: the next phase is
\* counted from the deadline, as the forecast was.
LEMMA TimedHopKeepsStarts ==
    ASSUME NEW m \in Machines, NEW from, NEW to, NEW t \in Nat, NEW min \in BOOLEAN,
           <<from, to>> \in {<<Setup, Whitelist>>, <<Whitelist, Public>>, <<Public, Signing>>,
                             <<Signing, Refund>>, <<Claim, Payout>>},
           TimedHop(m, from, to, t, min).state # Refund, NEW s \in Whitelist .. Payout
    PROVE  StartOf(TimedHop(m, from, to, t, min), s) = StartOf(m, s)
<1>1. CASE m.state = from /\ t >= m.past[from]
  <2> DEFINE r == TransitionTo(m, to, t, min)
             D == ETO_STATE_DURATIONS
  <2>1. TimedHop(m, from, to, t, min) = r
    BY <1>1 DEF TimedHop
  <2>2. from \in ETOStates /\ to \in ETOStates /\ m.past \in [ETOStates -> Nat]
    BY DEF Machines
  <2>3. ~(t < m.past[from]) /\ r.state = IF to = Signing /\ ~min THEN Refund ELSE to
    BY <1>1, <2>2 DEF TransitionTo
  <2>4. r.state = to /\ to = from + 1 /\ from # to
    BY <2>1, <2>3
  <2>5. r.past = [m.past EXCEPT ![from] = m.past[from], ![to] = m.past[from] + D[to]]
    BY <1>1, <2>3, <2>4 DEF TransitionTo
  <2> HIDE DEF r, D
  <2>6. r.past[to] = m.past[from] + D[to] /\ \A u \in ETOStates \ {to} : r.past[u] = m.past[u]
    BY <2>2, <2>4, <2>5
  <2>7. s - 1 \in ETOStates /\ from + 1 \in ETOStates /\ to + 1 = from + 2
    BY <2>2, <2>4
  <2>8. SumFunctionOnSet(D, (from + 1) .. (s - 1)) =
          IF from + 1 > s - 1 THEN 0
          ELSE D[from + 1] + SumFunctionOnSet(D, (from + 1 + 1) .. (s - 1))
    BY <2>7, DurationsAdd DEF D
  <2>9. /\ StartOf(m, s) = IF s - 1 <= from THEN m.past[s - 1]
                           ELSE m.past[from] + SumFunctionOnSet(D, (from + 1) .. (s - 1))
        /\ StartOf(r, s) = IF s - 1 <= to THEN r.past[s - 1]
                           ELSE r.past[to] + SumFunctionOnSet(D, (to + 1) .. (s - 1))
    BY <1>1, <2>4, StartOfIs DEF D
  <2>10. CASE s - 1 <= from
    <3>1. s - 1 <= to /\ s - 1 # to
      BY <2>2, <2>4, <2>10
    <3>2. r.past[s - 1] = m.past[s - 1]
      BY <2>6, <2>7, <3>1
    <3> QED
      BY <2>1, <2>9, <2>10, <3>1, <3>2
  <2>11. CASE s - 1 = to
    <3>1. SumFunctionOnSet(D, (from + 1 + 1) .. (s - 1)) = 0
      <4>1. (from + 1 + 1) .. (s - 1) = {}
        BY <2>2, <2>4, <2>11
      <4> QED
        BY <4>1, SumOfNone
    <3>2. D[to] \in Int /\ from + 1 = to /\ ~(s - 1 <= from) /\ s - 1 <= to
      BY <2>2, <2>4, <2>11, DurationsType DEF D
    <3>3. StartOf(m, s) = m.past[from] + (D[to] + 0)
      BY <2>4, <2>8, <2>9, <2>11, <3>1, <3>2
    <3> QED
      BY <2>1, <2>2, <2>6, <2>9, <2>11, <3>2, <3>3
  <2>12. CASE s - 1 > to
    <3> DEFINE rest == SumFunctionOnSet(D, (to + 1) .. (s - 1))
    <3>1. D[to] \in Int /\ rest \in Int /\ m.past[from] \in Int
      <4>1. IsFiniteSet(ETOStates) /\ D \in [ETOStates -> Int]
        BY PhasesAreFinite DEF D
      <4>2. (to + 1) .. (s - 1) \in SUBSET ETOStates
        BY <2>2
      <4>3. rest \in Int
        BY <4>1, <4>2, SumIsInteger
      <4>4. D[to] \in Int /\ m.past[from] \in Int
        BY <2>2, <4>1
      <4> QED
        BY <4>3, <4>4
    <3>2. StartOf(m, s) = m.past[from] + (D[to] + rest)
      BY <2>2, <2>4, <2>8, <2>9, <2>12
    <3>3. StartOf(r, s) = (m.past[from] + D[to]) + rest
      BY <2>2, <2>4, <2>6, <2>9, <2>12
    <3> HIDE DEF rest
    <3> QED
      BY <2>1, <3>1, <3>2, <3>3
  <2> QED
    BY <2>2, <2>4, <2>7, <2>10, <2>11, <2>12
<1>2. CASE ~(m.state = from /\ t >= m.past[from])
  BY <1>2 DEF TimedHop
<1> QED
  BY <1>1, <1>2

\* A hop of the timed cascade leaves a machine of the right type, and Refund for ever.
LEMMA TimedHopType ==
    ASSUME NEW m \in Machines, NEW from \in ETOStates \ {Refund}, NEW to \in ETOStates,
           NEW t \in Nat, NEW min
    PROVE  /\ TimedHop(m, from, to, t, min) \in Machines
           /\ m.state = Refund => TimedHop(m, from, to, t, min).state = Refund
<1>1. CASE m.state = from /\ t >= m.past[from]
  <2> DEFINE r == TransitionTo(m, to, t, min)
             eff == IF to = Signing /\ ~min THEN Refund ELSE to
             end == IF t < m.past[m.state] THEN t ELSE m.past[m.state]
  <2>1. TimedHop(m, from, to, t, min) = r /\ m.state # Refund
    BY <1>1 DEF TimedHop
  <2>2. eff \in ETOStates /\ end \in Nat /\ end + ETO_STATE_DURATIONS[eff] \in Nat
    BY DurationsType DEF Machines
  <2>3. r \in Machines
    BY <2>2 DEF TransitionTo, Machines
  <2> QED
    BY <2>1, <2>3
<1>2. CASE ~(m.state = from /\ t >= m.past[from])
  BY <1>2 DEF TimedHop
<1> QED
  BY <1>1, <1>2

\* The timed cascade of an offering that does not fail moves no announced start.
LEMMA AdvanceTimedKeepsStarts ==
    ASSUME NEW m \in Machines, NEW t \in Nat, NEW min \in BOOLEAN,
           AdvanceTimed(m, t, min).state # Refund, NEW s \in Whitelist .. Payout
    PROVE  StartOf(AdvanceTimed(m, t, min), s) = StartOf(m, s)
<1>1. CASE m.past[Setup] = 0
  BY <1>1 DEF AdvanceTimed
<1>2. CASE m.past[Setup] # 0
  <2> DEFINE m1 == TimedHop(m,  Setup,     Whitelist, t, min)
             m2 == TimedHop(m1, Whitelist, Public,    t, min)
             m3 == TimedHop(m2, Public,    Signing,   t, min)
             m4 == TimedHop(m3, Signing,   Refund,    t, min)
             m5 == TimedHop(m4, Claim,     Payout,    t, min)
  <2>0. AdvanceTimed(m, t, min) = m5 /\ m5.state # Refund
    BY <1>2 DEF AdvanceTimed, m1, m2, m3, m4
  <2>1. m1 \in Machines
    BY TimedHopType
  <2>a. m1.state # Refund => StartOf(m1, s) = StartOf(m, s)
    BY TimedHopKeepsStarts
  <2> HIDE DEF m1
  <2>2. m2 \in Machines /\ (m1.state = Refund => m2.state = Refund)
    BY <2>1, TimedHopType
  <2>b. m2.state # Refund => StartOf(m2, s) = StartOf(m1, s)
    BY <2>1, TimedHopKeepsStarts
  <2> HIDE DEF m2
  <2>3. m3 \in Machines /\ (m2.state = Refund => m3.state = Refund)
    BY <2>2, TimedHopType
  <2>c. m3.state # Refund => StartOf(m3, s) = StartOf(m2, s)
    BY <2>2, TimedHopKeepsStarts
  <2> HIDE DEF m3
  <2>4. m4 \in Machines /\ (m3.state = Refund => m4.state = Refund)
    BY <2>3, TimedHopType
  <2>d. m4.state # Refund => StartOf(m4, s) = StartOf(m3, s)
    BY <2>3, TimedHopKeepsStarts
  <2> HIDE DEF m4
  <2>5. m4.state = Refund => m5.state = Refund
    BY <2>4, TimedHopType
  <2>e. m5.state # Refund => StartOf(m5, s) = StartOf(m4, s)
    BY <2>4, TimedHopKeepsStarts
  <2> HIDE DEF m5
  <2> QED
    BY <2>0, <2>2, <2>3, <2>4, <2>5, <2>a, <2>b, <2>c, <2>d, <2>e
<1> QED
  BY <1>1, <1>2

\* However late the transitions of an offering that does not fail are executed, the starts
\* of its phases stay where startOf announced them.
THEOREM KeepsPublishedStarts == Spec => PublishedStartsKept
<1> DEFINE Step == (HandleStateTransitions /\ machine'.state # Refund)
                      => \A s \in Whitelist .. Payout : StartOf(machine', s) = StartOf(machine, s)
<1>1. IInv /\ [Next]_vars => [Step]_vars
  <2>1. IInv => Step
    <3> SUFFICES ASSUME IInv, HandleStateTransitions, machine'.state # Refund,
                        NEW s \in Whitelist .. Payout
                 PROVE  StartOf(machine', s) = StartOf(machine, s)
      OBVIOUS
    <3>1. /\ now \in Nat /\ machine \in Machines /\ minReached \in BOOLEAN
          /\ machine' = AdvanceTimed(Begin(machine), now, minReached)
      BY DurationAssumption DEF IInv, TypeOK, HandleStateTransitions, Before
    <3> DEFINE b == Begin(machine)
    <3>2. b \in Machines /\ b.state = machine.state /\ b.past = machine.past
      BY <3>1 DEF Begin, Machines
    <3> HIDE DEF b
    <3>3. StartOf(machine', s) = StartOf(b, s)
      BY <3>1, <3>2, AdvanceTimedKeepsStarts DEF b
    <3>4. StartOf(b, s) = StartOf(machine, s)
      BY <3>2, StartOfIs
    <3> QED
      BY <3>3, <3>4
  <2> QED
    BY <2>1
<1> QED
  BY Invariance, <1>1, PTL DEF Spec, PublishedStartsKept

=============================================================================
