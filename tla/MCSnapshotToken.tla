--------------------------- MODULE MCSnapshotToken ---------------------------
(* Two accounts, three snapshots over two days, and a clone at any time, of *)
(* the snapshot sealed last or of a given one: past, present or future.     *)
EXTENDS SnapshotToken

CONSTANTS a, b

=============================================================================
