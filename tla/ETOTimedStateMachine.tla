------------------------- MODULE ETOTimedStateMachine -------------------------
(***************************************************************************)
(* The time induced state machine of an Equity Token Offering              *)
(* (ETOTimedStateMachine.sol).  Every external function of an offering     *)
(* first advances the machine by the clock (AdvanceTimed), runs its body,  *)
(* then advances it by what the body did (AdvanceLogic); each advance is a *)
(* cascade of TransitionTo.                                                *)
(*                                                                         *)
(* The operators work on a machine record m:                               *)
(*   m.state  _state                                                       *)
(*   m.past   _pastStateTransitionTimes: the deadline of the current       *)
(*            state, and for an earlier one the time it ended              *)
(*   m.hops   the <<old, new>> pairs taken in the running transaction      *)
(*            (the LogStateTransition events)                              *)
(* Their hooks into the offering are the arguments minReached              *)
(* (mBeforeStateTransition), capExceeded and confirmed                     *)
(* (mAdavanceLogicState).                                                  *)
(*                                                                         *)
(* The specification at the end runs the machine on its own: the offering  *)
(* above it is free to change the three conditions in the ways it can.     *)
(***************************************************************************)
EXTENDS Integers, FiniteSets, Functions

CONSTANTS
    WHITELIST_DURATION, PUBLIC_DURATION, SIGNING_DURATION, CLAIM_DURATION,
    DATE_TO_WHITELIST_MIN_DURATION,
    MaxTime,                             \* bound: the clock stops here
    StartDates                           \* bound: the start dates the company may ask for

\* an offering may have no whitelist or no public phase, the other two always last
ASSUME DurationAssumption ==
    /\ \A d \in {WHITELIST_DURATION, PUBLIC_DURATION, SIGNING_DURATION, CLAIM_DURATION,
                 DATE_TO_WHITELIST_MIN_DURATION, MaxTime} : d \in Nat
    /\ SIGNING_DURATION > 0 /\ CLAIM_DURATION > 0
    /\ StartDates \subseteq Nat \ {0}

\* enum ETOState
Setup == 0
Whitelist == 1
Public == 2
Signing == 3
Claim == 4
Payout == 5
Refund == 6

ETOStates == Setup .. Refund

ETO_STATE_DURATIONS ==
    [s \in ETOStates |-> CASE s = Whitelist -> WHITELIST_DURATION
                           [] s = Public    -> PUBLIC_DURATION
                           [] s = Signing   -> SIGNING_DURATION
                           [] s = Claim     -> CLAIM_DURATION
                           [] OTHER         -> 0]

Machines == [state : ETOStates, past : [ETOStates -> Nat], hops : SUBSET (ETOStates \X ETOStates)]

\* faulty: the loop over the phases in between runs one too far
StartOf_LoopTooFar(m, s) ==
    CASE s = Setup -> 0
      [] s = Refund -> IF m.state = Refund THEN m.past[Refund] ELSE 0
      [] s \notin {Setup, Refund} /\ s - 1 <= m.state -> m.past[s - 1]
      [] OTHER -> m.past[m.state] + FoldFunctionOnSet(+, 0, ETO_STATE_DURATIONS, (m.state + 1) .. s)

StartOf(m, s) ==
    CASE s = Setup -> 0
      [] s = Refund -> IF m.state = Refund THEN m.past[Refund] ELSE 0
      [] s \notin {Setup, Refund} /\ s - 1 <= m.state -> m.past[s - 1]
      [] OTHER -> m.past[m.state]
                  + FoldFunctionOnSet(+, 0, ETO_STATE_DURATIONS, (m.state + 1) .. (s - 1))

\* faulty: the floor criteria applied to every transition
TransitionTo_FloorEverywhere(m, newState, t, minReached) ==
    LET effective == IF ~minReached THEN Refund ELSE newState
        deadline  == IF t < m.past[m.state] THEN t ELSE m.past[m.state]
    IN [state |-> effective,
        past  |-> [m.past EXCEPT ![m.state] = deadline,
                                 ![effective] = deadline + ETO_STATE_DURATIONS[effective]],
        hops  |-> m.hops \cup {<<m.state, effective>>}]

\* faulty: a phase lasts until somebody ends it
TransitionTo_CountedFromCall(m, newState, t, minReached) ==
    LET effective == IF newState = Signing /\ ~minReached THEN Refund ELSE newState
    IN [state |-> effective,
        past  |-> [m.past EXCEPT ![m.state] = t,
                                 ![effective] = t + ETO_STATE_DURATIONS[effective]],
        hops  |-> m.hops \cup {<<m.state, effective>>}]

\* faulty: the duration counted back from the deadline
TransitionTo_CountedBack(m, newState, t, minReached) ==
    LET effective == IF newState = Signing /\ ~minReached THEN Refund ELSE newState
        deadline  == IF t < m.past[m.state] THEN t ELSE m.past[m.state]
    IN [state |-> effective,
        past  |-> [m.past EXCEPT ![m.state] = deadline,
                                 ![effective] = deadline - ETO_STATE_DURATIONS[effective]],
        hops  |-> m.hops \cup {<<m.state, effective>>}]

\* A transition before the deadline of the old state ends that state now.
TransitionTo(m, newState, t, minReached) ==
    LET effective == IF newState = Signing /\ ~minReached THEN Refund ELSE newState
        deadline  == IF t < m.past[m.state] THEN t ELSE m.past[m.state]
    IN [state |-> effective,
        past  |-> [m.past EXCEPT ![m.state] = deadline,
                                 ![effective] = deadline + ETO_STATE_DURATIONS[effective]],
        hops  |-> m.hops \cup {<<m.state, effective>>}]

-----------------------------------------------------------------------------

\* one line of advanceTimedState: leave `from` for `to` once its deadline has passed
TimedHop(m, from, to, t, minReached) ==
    IF m.state = from /\ t >= m.past[from] THEN TransitionTo(m, to, t, minReached) ELSE m

\* faulty: the signing deadline is forgotten
AdvanceTimed_SigningNeverExpires(m, t, minReached) ==
    IF m.past[Setup] = 0 THEN m
    ELSE LET m1 == TimedHop(m,  Setup,     Whitelist, t, minReached)
             m2 == TimedHop(m1, Whitelist, Public,    t, minReached)
             m3 == TimedHop(m2, Public,    Signing,   t, minReached)
         IN TimedHop(m3, Claim, Payout, t, minReached)

\* faulty: `else if`, so that one call takes one transition
AdvanceTimed_ElseIf(m, t, minReached) ==
    IF m.past[Setup] = 0 THEN m
    ELSE CASE m.state = Setup     -> TimedHop(m, Setup,     Whitelist, t, minReached)
           [] m.state = Whitelist -> TimedHop(m, Whitelist, Public,    t, minReached)
           [] m.state = Public    -> TimedHop(m, Public,    Signing,   t, minReached)
           [] m.state = Signing   -> TimedHop(m, Signing,   Refund,    t, minReached)
           [] OTHER               -> TimedHop(m, Claim,     Payout,    t, minReached)

\* faulty: Payout waits for a call of its own
AdvanceTimed_NoPayout(m, t, minReached) ==
    IF m.past[Setup] = 0 THEN m
    ELSE LET m1 == TimedHop(m,  Setup,     Whitelist, t, minReached)
             m2 == TimedHop(m1, Whitelist, Public,    t, minReached)
             m3 == TimedHop(m2, Public,    Signing,   t, minReached)
         IN TimedHop(m3, Signing, Refund, t, minReached)

AdvanceTimed(m, t, minReached) ==
    IF m.past[Setup] = 0 THEN m
    ELSE LET m1 == TimedHop(m,  Setup,     Whitelist, t, minReached)
             m2 == TimedHop(m1, Whitelist, Public,    t, minReached)
             m3 == TimedHop(m2, Public,    Signing,   t, minReached)
             m4 == TimedHop(m3, Signing,   Refund,    t, minReached)
         IN TimedHop(m4, Claim, Payout, t, minReached)

\* mAdavanceLogicState of the offering
LogicState(s, capExceeded, confirmed) ==
    CASE s = Whitelist /\ capExceeded -> Public
      [] s = Public    /\ capExceeded -> Signing
      [] s = Signing   /\ confirmed   -> Claim
      [] OTHER -> s

LogicHop(m, t, minReached, capExceeded, confirmed) ==
    LET newState == LogicState(m.state, capExceeded, confirmed)
    IN IF newState = m.state THEN m ELSE TransitionTo(m, newState, t, minReached)

\* faulty: without the recursion
AdvanceLogic_Once(m, t, minReached, capExceeded, confirmed) ==
    LogicHop(m, t, minReached, capExceeded, confirmed)

\* the recursion of advanceLogicState: Whitelist -> Public -> Signing -> Claim at most
AdvanceLogic(m, t, minReached, capExceeded, confirmed) ==
    LET m1 == LogicHop(m,  t, minReached, capExceeded, confirmed)
        m2 == LogicHop(m1, t, minReached, capExceeded, confirmed)
    IN LogicHop(m2, t, minReached, capExceeded, confirmed)

\* runStateMachine: startDate becomes the deadline of Setup
RunStateMachine(m, startDate) == [m EXCEPT !.past[Setup] = startDate]

\* setStartDate: the first date, or a new one while the old one is far enough away
CanSetStartDate(m, t, startDate) ==
    /\ m.state = Setup
    /\ startDate - t > DATE_TO_WHITELIST_MIN_DURATION
    /\ \/ StartOf(m, Whitelist) = 0
       \/ StartOf(m, Whitelist) - t > DATE_TO_WHITELIST_MIN_DURATION

InitMachine == [state |-> Setup, past |-> [s \in ETOStates |-> 0], hops |-> {}]

\* the machine a new transaction starts from
Begin(m) == [m EXCEPT !.hops = {}]

-----------------------------------------------------------------------------

VARIABLES
    machine,        \* the machine record
    now,            \* block.timestamp
    minReached,     \* _totalTokenAmount >= MIN_NUMBER_OF_TOKENS
    capExceeded,    \* not even a minimum ticket fits under the cap any more
    confirmed       \* the nominee confirmed the investment agreement

conditions == <<minReached, capExceeded, confirmed>>
vars == <<machine, now, minReached, capExceeded, confirmed>>

Init ==
    /\ machine = InitMachine
    /\ now = 0
    /\ minReached = FALSE /\ capExceeded = FALSE /\ confirmed = FALSE

\* what the modifier withStateTransition does before the body, and after it
Before == AdvanceTimed(Begin(machine), now, minReached)
After(m) == AdvanceLogic(m, now, minReached', capExceeded', confirmed')

SetStartDate(startDate) ==
    /\ CanSetStartDate(Before, now, startDate)
    /\ UNCHANGED <<now, conditions>>
    /\ machine' = After(RunStateMachine(Before, startDate))

\* tokenFallback: an investment may reach the minimum, or the cap, or both
Commit ==
    /\ Before.state \in {Whitelist, Public}
    /\ minReached' \in {minReached, TRUE}
    /\ capExceeded' \in {capExceeded, TRUE}
    /\ UNCHANGED <<now, confirmed>>
    /\ machine' = After(Before)

NomineeConfirms ==
    /\ Before.state = Signing
    /\ confirmed' = TRUE
    /\ UNCHANGED <<now, minReached, capExceeded>>
    /\ machine' = After(Before)

\* companySignsInvestmentAgreement, claim, refund and payout leave the conditions alone
OtherCall ==
    /\ Before.state \in {Signing, Claim, Payout, Refund}
    /\ UNCHANGED <<now, conditions>>
    /\ machine' = After(Before)

HandleStateTransitions ==
    /\ machine' = Before
    /\ UNCHANGED <<now, conditions>>

Tick ==
    /\ now < MaxTime
    /\ now' = now + 1
    /\ UNCHANGED <<machine, conditions>>

Transaction ==
    \/ \E startDate \in StartDates : SetStartDate(startDate)
    \/ Commit
    \/ NomineeConfirms
    \/ OtherCall
    \/ HandleStateTransitions

Next == Transaction \/ Tick

Spec == Init /\ [][Next]_vars

\* Time passes, and somebody calls the public handleStateTransitions now and then.
FairSpec == Spec /\ WF_vars(Tick) /\ WF_vars(HandleStateTransitions)

-----------------------------------------------------------------------------

\* Every variable has its type; hops only names states of the machine.
TypeOK ==
    /\ machine \in Machines
    /\ now \in 0 .. MaxTime
    /\ minReached \in BOOLEAN /\ capExceeded \in BOOLEAN /\ confirmed \in BOOLEAN

\* the transitions the commented out validTransition lists
ValidTransitions ==
    {<<Setup, Whitelist>>, <<Whitelist, Public>>, <<Whitelist, Signing>>, <<Public, Signing>>,
     <<Public, Refund>>, <<Signing, Refund>>, <<Signing, Claim>>, <<Claim, Payout>>}

\* The check validTransition was disabled, and no cascade of timed and logic
\* transitions, however late it runs, needs it.
OnlyValidTransitions == machine.hops \subseteq ValidTransitions

\* Money only leaves an offering that sold its minimum, and the company only gets
\* it when the nominee confirmed strictly before the signing deadline.
SuccessIsEarned ==
    /\ machine.state \in {Signing, Claim, Payout} => minReached
    /\ machine.state \in {Claim, Payout} =>
          /\ confirmed
          /\ machine.past[Signing] < machine.past[Public] + SIGNING_DURATION

\* the phases the machine entered, in the order of time
Entered(m) == IF m.state = Refund THEN {s \in Whitelist .. Signing : m.past[s] > 0}
                                  ELSE Whitelist .. m.state

\* However late the transitions are executed, no phase starts before the previous
\* one ended and none lasts longer than its duration.
ScheduleKept ==
    machine.past[Setup] > 0 =>
       \A s \in Entered(machine) :
          /\ machine.past[s - 1] <= machine.past[s]
          /\ machine.past[s] <= machine.past[s - 1] + ETO_STATE_DURATIONS[s]

\* A sold out offering never stays open: the transaction that reaches the cap
\* closes it, and below the minimum it closes for refund and nothing else.
SoldOutIsClosed ==
    capExceeded => machine.state \in IF minReached THEN {Signing, Claim, Payout, Refund} ELSE {Refund}

\* A transaction leaves no overdue transition behind: another call in the same
\* block finds the machine where it should be.
NothingOverdue ==
    [][machine' # machine => AdvanceTimed(Begin(machine'), now, minReached') = Begin(machine')]_vars

\* The published start of a phase is not moved by executing a timed transition
\* late, as long as the offering does not fail.
PublishedStartsKept ==
    [][(HandleStateTransitions /\ machine'.state # Refund)
          => \A s \in Whitelist .. Payout : StartOf(machine', s) = StartOf(machine, s)]_vars

\* Success and failure are final, and a phase that ended is never entered again.
OutcomeIsFinal ==
    [][/\ machine.state = Refund => machine'.state = Refund
       /\ machine'.state >= machine.state
       /\ machine.state = Claim => machine'.state \in {Claim, Payout}
       /\ machine.state = Payout => machine'.state = Payout]_vars

\* A started offering is eventually refunded or paid out, whatever investors,
\* company and nominee do or leave undone.
Finalizes == (machine.past[Setup] > 0) ~> (machine.state \in {Refund, Payout})

=============================================================================
