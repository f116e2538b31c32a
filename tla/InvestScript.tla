---------------------------- MODULE InvestScript ----------------------------
(***************************************************************************)
(* An account that invests with scripts/investIntoETO.js in an offering    *)
(* the setup scripts made, and takes transactions back with                *)
(* scripts/cancelTx.js.  The script reads the offering, the account and    *)
(* the rate, waits for the operator, estimates the gas of the transaction  *)
(* and sends it; the transaction is mined later, or never.  In between     *)
(* everything it read may change.  Ether, wrapped ether and euro are       *)
(* counted in units of the fee of a transaction.                           *)
(***************************************************************************)
EXTENDS OfferingDeployment

CONSTANTS Me,             \* the investor whose account the script uses
          Amount,         \* what a run invests
          Funds           \* what the account has of each currency at first

ASSUME AmountAssumption == Amount \in Nat \ {0}
ASSUME FundsAssumption == Funds \in [eth : Nat, etht : Nat, eur : Nat]

VARIABLES
    account,  \* balances of the account, its ticket, and its nonce: transactions mined
    around,   \* what else an investment depends on: KYC, age of the rate, room for the amount
    pending,  \* transactions of the account that wait for a miner
    run,      \* the investment script
    cancel    \* nonce cancelTx has read, or nothing

investVars == <<account, around, pending, run, cancel>>
vars == <<setupVars, investVars>>

-----------------------------------------------------------------------------
Nothing == << >>
Fee == 1
Prices == {"below 20 gwei", "20 gwei or more"}
Waiting == [at |-> "idle"]

InvestInit ==
    /\ account = [eth |-> Funds.eth, etht |-> Funds.etht, eur |-> Funds.eur, ticket |-> 0,
                  nonce |-> 0]
    /\ around = [verified |-> TRUE, fresh |-> TRUE, room |-> TRUE]
    /\ pending = {}
    /\ run = Waiting
    /\ cancel = Nothing

-----------------------------------------------------------------------------
(* The chain: EtherToken.depositAndTransfer, EuroToken.transfer, ETOCommitment.tokenFallback *)

isWhitelisted(n) == offerings[n].whitelist[Me].frac > 0

\* reserveTokens and convertToEurEquiv
tokenFallback(n, currency) ==
    /\ offerings[n].state \in {"Whitelist", "Public"}
    /\ currency = "ETH" => around.fresh
    /\ around.verified /\ around.room
    /\ offerings[n].state = "Whitelist" => isWhitelisted(n)
    /\ canIssueNEU(neuAccessPolicy, n)

Succeeds(tx) ==
    /\ IF tx.currency = "ETH" THEN account.etht + tx.value >= Amount ELSE account.eur >= Amount
    /\ tx.currency = "EUR" => <<"commitment", <<"commitment", tx.offering>> >> \in collections
    /\ tokenFallback(tx.offering, tx.currency)

\* everything the outcome depends on
World(n) == [eth |-> account.eth, etht |-> account.etht, eur |-> account.eur, around |-> around,
             offering |-> offerings[n], neu |-> canIssueNEU(neuAccessPolicy, n)]

-----------------------------------------------------------------------------
(* scripts/investIntoETO.js *)

\* the checks before the operator is asked; the balances are kept, that the account is on the
\* whitelist is shown and not asked for
CheckInvestment(n, currency) ==
    /\ run.at = "idle" /\ Spends("investments")
    /\ <<"commitment", <<"commitment", n>> >> \in collections
    /\ offerings[n].state \in {"Whitelist", "Public"}
    /\ around.verified
    /\ currency = "ETH" => around.fresh
    /\ run' = [at |-> "confirm", offering |-> n, currency |-> currency,
               eth |-> account.eth, etht |-> account.etht, eur |-> account.eur]
    /\ UNCHANGED <<platform, offerings, script, account, around, pending, cancel>>

\* mutant: the wrapped ether of the account may exceed the amount
ethToSendUnclamped == Amount - run.etht

ethToSend == IF run.etht >= Amount THEN 0 ELSE Amount - run.etht

NextNonce == account.nonce + Cardinality(pending)

Investment(price) ==
    [kind |-> "invest", nonce |-> NextNonce, price |-> price, offering |-> run.offering,
     currency |-> run.currency, value |-> IF run.currency = "ETH" THEN ethToSend ELSE 0,
     readEtht |-> run.etht, seen |-> World(run.offering)]

\* mutant: no gas is estimated, the transaction is sent with a fixed limit
estimateGasFixed(tx) == TRUE

\* the node runs the transaction on the state of the chain as it is now
estimateGas(tx) == account.eth >= tx.value /\ Succeeds(tx)

EnoughFunds(tx) ==
    IF tx.currency = "ETH" THEN tx.value + Fee <= run.eth
    ELSE Amount <= run.eur /\ Fee <= run.eth

SendInvestment ==
    /\ run.at = "confirm"
    /\ \E price \in Prices :
         LET tx == Investment(price)
         IN /\ estimateGas(tx) /\ EnoughFunds(tx)
            /\ account.eth >= tx.value + Fee
            /\ pending' = pending \cup {tx}
    /\ run' = [at |-> "sent", nonce |-> NextNonce]
    /\ UNCHANGED <<setupVars, account, around, cancel>>

\* the operator says no, a check throws, the node refuses
AbandonInvestment ==
    /\ run.at = "confirm"
    /\ run' = Waiting
    /\ UNCHANGED <<setupVars, account, around, pending, cancel>>

\* the script reports the mined transaction, or is stopped while it waits for it
EndInvestment ==
    /\ run.at = "sent"
    /\ run' = Waiting
    /\ UNCHANGED <<setupVars, account, around, pending, cancel>>

-----------------------------------------------------------------------------
(* scripts/cancelTx.js *)

BeginCancel ==
    /\ cancel = Nothing /\ Spends("cancels")
    /\ cancel' = <<account.nonce>>
    /\ UNCHANGED <<platform, offerings, script, account, around, pending, run>>

\* mutant: the nonce after the pending transactions is used
CancelNonceAfterPending == NextNonce

CancelNonce == cancel[1]

\* a node replaces a pending transaction by a dearer one with its nonce, of 20 gwei here, and
\* refuses a nonce that is used
Replaced == {tx \in pending : tx.nonce = CancelNonce}
SubmitCancel ==
    /\ cancel # Nothing
    /\ CancelNonce >= account.nonce
    /\ \A tx \in Replaced : tx.kind = "invest" /\ tx.price = "below 20 gwei"
    /\ account.eth >= Fee
    /\ pending' = (pending \ Replaced)
                  \cup {[kind |-> "cancel", nonce |-> CancelNonce,
                         calledOff |-> {tx \in pending : tx.nonce = account.nonce}]}
    /\ cancel' = Nothing
    /\ UNCHANGED <<setupVars, account, around, run>>

\* the node refuses, or the operator says no
AbandonCancel ==
    /\ cancel # Nothing
    /\ cancel' = Nothing
    /\ UNCHANGED <<setupVars, account, around, pending, run>>

-----------------------------------------------------------------------------
(* A miner takes the transactions of the account in the order of their nonces *)

Minable(tx) == tx \in pending /\ tx.nonce = account.nonce

MineInvestment(tx) ==
    /\ Minable(tx) /\ tx.kind = "invest"
    /\ account.eth >= tx.value + Fee
    /\ account' =
         IF ~Succeeds(tx) THEN [account EXCEPT !.eth = @ - Fee, !.nonce = @ + 1]
         ELSE IF tx.currency = "ETH"
         THEN [account EXCEPT !.eth = @ - tx.value - Fee, !.etht = @ + tx.value - Amount,
                              !.ticket = @ + Amount, !.nonce = @ + 1]
         ELSE [account EXCEPT !.eth = @ - Fee, !.eur = @ - Amount, !.ticket = @ + Amount,
                              !.nonce = @ + 1]
    /\ pending' = pending \ {tx}
    /\ UNCHANGED <<setupVars, around, run, cancel>>

MineCancel(tx) ==
    /\ Minable(tx) /\ tx.kind = "cancel"
    /\ account.eth >= Fee
    /\ account' = [account EXCEPT !.eth = @ - Fee, !.nonce = @ + 1]
    /\ pending' = pending \ {tx}
    /\ UNCHANGED <<setupVars, around, run, cancel>>

\* others: the identity manager, the rate oracle, other investors; wrapped ether sent to the
\* account
Change ==
    /\ Spends("changes")
    /\ \/ /\ \E what \in DOMAIN around : around' = [around EXCEPT ![what] = ~@]
          /\ UNCHANGED account
       \/ /\ account' = [account EXCEPT !.etht = @ + 1]
          /\ UNCHANGED around
    /\ UNCHANGED <<platform, offerings, script, pending, run, cancel>>

Invests ==
    \/ \E n \in Numbers, currency \in {"ETH", "EUR"} : CheckInvestment(n, currency)
    \/ SendInvestment \/ AbandonInvestment \/ EndInvestment
    \/ BeginCancel \/ SubmitCancel \/ AbandonCancel
    \/ \E tx \in pending : MineInvestment(tx) \/ MineCancel(tx)
    \/ Change

-----------------------------------------------------------------------------
Init == SetupInit /\ InvestInit

Next ==
    \/ (Scripts \/ Parties) /\ UNCHANGED investVars
    \/ Invests

Spec == Init /\ [][Next]_vars

-----------------------------------------------------------------------------
(* Properties *)

TypeOK ==
    /\ isolated \in BOOLEAN
    /\ DOMAIN access = {accessPolicy, neuAccessPolicy}
    /\ \A n \in Numbers :
         /\ offerings[n].agreements \subseteq {"commitment", "equityToken"}
         /\ offerings[n].state \in {"Setup", "Whitelist", "Public", "Signing"}
         /\ offerings[n].told \in {"nothing", "must give role", "may issue"}
         /\ offerings[n].whitelist \in [Investors -> [slot : Nat, frac : 0 .. 100]]
         /\ offerings[n].listed \in Files \cup {NoFile}
    /\ budget \in [DOMAIN budget -> Nat]
    /\ account \in [eth : Nat, etht : Nat, eur : Nat, ticket : Nat, nonce : Nat]
    /\ \A tx \in pending :
         /\ tx.nonce >= account.nonce
         /\ tx.kind = "invest" => tx.value \in Nat
    /\ \A tx, ty \in pending : tx.nonce = ty.nonce => tx = ty
    /\ run.at \in {"idle", "confirm", "sent"}

\* An offering whose deployment ran to its end and that checkETO (migrations/deployETO.js)
\* shows green is ready: the company may set its start date, and an open one takes an
\* investment of every verified account the terms allow, whichever policy Neumark has.
GreenMeansInvestable ==
    \A n \in Numbers :
      offerings[n].told # "nothing" /\ CheckETO(n) =>
        /\ offerings[n].state = "Setup" => MaySetStartDate(n)
        /\ /\ offerings[n].state \in {"Whitelist", "Public"}
           /\ around = [verified |-> TRUE, fresh |-> TRUE, room |-> TRUE]
           /\ offerings[n].state = "Whitelist" => isWhitelisted(n)
           => \A currency \in {"ETH", "EUR"} : tokenFallback(n, currency)

\* What a script said it did is done, however many earlier runs stopped halfway and whichever
\* right was taken meanwhile: a deployed offering is in the universe and its resolution is
\* registered, on a platform that is not isolated it issues Neumarks if the script did not ask
\* for the role, and each row of a whitelist that was added last for its investor is a ticket.
DoneMeansComplete ==
    \A n \in Numbers :
      /\ offerings[n].told # "nothing" =>
           /\ offerings[n].registered
           /\ \A interface \in Interfaces : InUniverse(n, interface)
      /\ offerings[n].told = "may issue" /\ ~isolated => canIssueNEU(neuAccessPolicy, n)
      /\ \A i \in DOMAIN offerings[n].listed :
           LET row == offerings[n].listed[i]
           IN LastOf(row.investor, i, offerings[n].listed) =>
                offerings[n].whitelist[row.investor] = TicketOf(row)

\* An investment that is mined takes exactly the amount from the account, wrapped ether first
\* if none came in since the script read the balance, and is not one that cancelTx replaced;
\* or it fails, costs the fee alone, and something it depends on has changed since the script
\* estimated it.
InvestmentIsExact ==
    [][ \A tx \in pending :
          tx.kind = "invest" /\ account'.nonce = tx.nonce + 1 /\ tx \notin pending' =>
            IF account'.ticket = account.ticket
            THEN /\ account' = [account EXCEPT !.eth = @ - Fee, !.nonce = @ + 1]
                 /\ World(tx.offering) # tx.seen
            ELSE /\ account'.ticket = account.ticket + Amount
                 /\ account'.eth + account'.etht + account'.eur
                      = account.eth + account.etht + account.eur - Amount - Fee
                 /\ tx.currency = "ETH" /\ tx.readEtht = account.etht =>
                      account'.etht = IF account.etht > Amount THEN account.etht - Amount ELSE 0
                 /\ ~\E other \in pending : other.kind = "cancel" /\ tx \in other.calledOff ]_vars

-----------------------------------------------------------------------------
(* A statement of the scripts that the code does not keep *)

\* deployETO: "neu token manager allows ETOCommitment to issue NEU", when the deployer controls
\* the policy of Neumark, which in an isolated universe is not the universe's
NeuManagerAllowsIssue ==
    \A n \in Numbers : offerings[n].told = "may issue" => canIssueNEU(neuAccessPolicy, n)

=============================================================================
