----------------------- MODULE MCETOTimedStateMachine -----------------------
(***************************************************************************)
(* A small instance of the timed state machine: the phases last one to     *)
(* three units, the company may choose among three start dates, and the    *)
(* clock runs past the last deadline the latest of them can lead to.       *)
(***************************************************************************)
EXTENDS ETOTimedStateMachine

MCStartDates == {2, 4, 6}

=============================================================================
