--------------------------- MODULE MCInvestScript ---------------------------
(***************************************************************************)
(* The scripts of an offering for TLC: two whitelists, of which the second *)
(* has a discount of more than the price, and one investor.                *)
(***************************************************************************)
EXTENDS InvestScript

Row(investor, slot, discount) == [investor |-> investor, slot |-> slot, discount |-> discount]

\* the investor is on the first one twice, in different transactions
MCFiles == {<<Row("me", 10, 40), Row("other", 0, 0), Row("me", 20, 50)>>,
            <<Row("me", 0, 0), Row("other", 5, 10), Row("other", 5, 110)>>}

\* scripts that stop and are run again; one investment in a world that changes; several that
\* wait for a miner together
MCBudgets ==
    {[scripts |-> 4, stops |-> 1, changes |-> 1, investments |-> 0, cancels |-> 0],
     [scripts |-> 3, stops |-> 0, changes |-> 1, investments |-> 1, cancels |-> 0],
     [scripts |-> 2, stops |-> 0, changes |-> 1, investments |-> 2, cancels |-> 1]}

MCFunds == [eth |-> 5, etht |-> 3, eur |-> 2]

=============================================================================
