--------------------------- MODULE SnapshotSearch ----------------------------
(***************************************************************************)
(* The binary search of Snapshot.getValueAt, step by step.  `min` and      *)
(* `max` are indices from 1, where the code counts from 0.                 *)
(***************************************************************************)
EXTENDS Snapshots

CONSTANTS
    Histories,              \* bound: the series that are searched
    LatestSnapshot             \* bound: the snapshots that are asked for

ASSUME SearchAssumption ==
    /\ LatestSnapshot \in Nat
    /\ \A history \in Histories : IsHistory(history, LatestSnapshot)

VARIABLES values, snapshotId, min, max,
    outcome,                \* "pending", or what the call returned:
    result                  \* "default" value of the caller, or the value "found"

searchVars == <<values, snapshotId, min, max, outcome, result>>

SearchInit ==
    /\ values \in Histories
    /\ snapshotId \in 0 .. LatestSnapshot
    /\ min = 1
    /\ max = Len(values)
    /\ outcome = "pending"
    /\ result = 0

Return(value) ==
    /\ outcome' = "found" /\ result' = value
    /\ UNCHANGED <<values, snapshotId, min, max>>

\* nothing written, or only later than asked for
ReturnDefault ==
    /\ outcome = "pending" /\ ~HasValueAt(values, snapshotId)
    /\ outcome' = "default"
    /\ UNCHANGED <<values, snapshotId, min, max, result>>

\* shortcut: at or after the last entry
ReturnLast ==
    /\ outcome = "pending" /\ HasValueAt(values, snapshotId)
    /\ values[Len(values)].snapshotId <= snapshotId
    /\ Return(values[Len(values)].value)

Searching ==
    /\ outcome = "pending" /\ HasValueAt(values, snapshotId)
    /\ values[Len(values)].snapshotId > snapshotId

\* faulty: rounded down, the search may stop making progress
Middle_Down == (max + min - 2) \div 2 + 1

\* (max + min + 1) / 2 of indices that start at 0
Middle == (max + min - 1) \div 2 + 1

\* faulty: an exact hit is taken for too young
Halve_Strict ==
    /\ Searching /\ max > min
    /\ IF values[Middle].snapshotId < snapshotId
       THEN min' = Middle /\ max' = max
       ELSE min' = min /\ max' = Middle - 1
    /\ UNCHANGED <<values, snapshotId, outcome, result>>

\* one iteration: the lower index for an approximate hit
Halve ==
    /\ Searching /\ max > min
    /\ IF values[Middle].snapshotId <= snapshotId
       THEN min' = Middle /\ max' = max
       ELSE min' = min /\ max' = Middle - 1
    /\ UNCHANGED <<values, snapshotId, outcome, result>>

Found ==
    /\ Searching /\ max <= min
    /\ Return(values[min].value)

SearchNext == ReturnDefault \/ ReturnLast \/ Halve \/ Found

SearchSpec == SearchInit /\ [][SearchNext]_searchVars /\ WF_searchVars(SearchNext)

-----------------------------------------------------------------------------

\* The search returns the value valid at the snapshot (getValueAt), for every history
\* and every snapshot, and the default only if nothing was written by then.
FindsValue ==
    /\ outcome = "default" => ~HasValueAt(values, snapshotId)
    /\ outcome = "found" => HasValueAt(values, snapshotId) /\ result = GetValueAt(values, snapshotId)

\* Every iteration of the loop makes progress: the search ends.
Terminates == <>(outcome # "pending")

=============================================================================
