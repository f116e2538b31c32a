-------------------------- MODULE MCSnapshotSearch ---------------------------
(***************************************************************************)
(* All histories of up to seven snapshots; an entry's value is its place,  *)
(* so a wrong entry is a wrong value.                                      *)
(***************************************************************************)
EXTENDS SnapshotSearch, FiniteSets

MCHistories ==
    {[i \in 1 .. Cardinality(S) |-> Entry(SetToSortSeq(S, <)[i], i)] : S \in SUBSET (1 .. LatestSnapshot)}

=============================================================================
