--------------------------- MODULE MCLockedAccount ---------------------------
(***************************************************************************)
(* Two old accounts with different unlock dates and a commitment.  The     *)
(* amounts do not divide the balances, so every proportional share of the  *)
(* Neumarks due is rounded, up for some and down for others.               *)
(***************************************************************************)
EXTENDS LockedAccount

CONSTANTS a, b

MCSources ==
    {[i \in Investors |-> IF i = a THEN [balance |-> 7, neumarksDue |-> 5, unlockDate |-> 2]
                                   ELSE [balance |-> 5, neumarksDue |-> 3, unlockDate |-> 1]]}

\* everything to one wallet, an exact split, a split with a remainder, and one that
\* asks for too much
To(i, amount) == [investor |-> i, amount |-> amount]
MCSplits ==
    {<< >>, <<To(a, 0)>>, <<To(b, 3), To(a, 4)>>, <<To(a, 3), To(b, 0)>>, <<To(b, 4), To(a, 4)>>}

=============================================================================
