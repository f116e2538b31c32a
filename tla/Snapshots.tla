------------------------------ MODULE Snapshots ------------------------------
(***************************************************************************)
(* A series of values with history (Snapshot.sol).  An entry tells since   *)
(* which snapshot a value is valid; entries are kept in the order of their *)
(* snapshots, and only the last one, of the current snapshot, is writable. *)
(***************************************************************************)
EXTENDS Naturals, SequencesExt

Entry(snapshotId, value) == [snapshotId |-> snapshotId, value |-> value]
Entries == [snapshotId : Nat, value : Nat]

\* Values written up to snapshot `current`.
IsHistory(values, current) ==
    /\ values \in Seq(Entries)
    /\ \A i, j \in 1 .. Len(values) : i < j => values[i].snapshotId < values[j].snapshotId
    /\ \A i \in 1 .. Len(values) : values[i].snapshotId <= current

\* there is a value at this snapshot
HasValueAt(values, snapshotId) == Len(values) > 0 /\ values[1].snapshotId <= snapshotId

\* i is the entry valid at this snapshot: the last one not younger
IsEntryAt(values, snapshotId, i) ==
    /\ i \in 1 .. Len(values)
    /\ values[i].snapshotId <= snapshotId
    /\ \A j \in i + 1 .. Len(values) : values[j].snapshotId > snapshotId

\* What the binary search of the code finds, see SnapshotSearch.
GetValueAt(values, snapshotId) == values[CHOOSE i \in 1 .. Len(values) : IsEntryAt(values, snapshotId, i)].value

\* faulty: the current snapshot gets a second entry
SetValue_AlwaysNew(values, current, value) ==
    IF Len(values) > 0 /\ Last(values).value = value THEN values
    ELSE Append(values, Entry(current, value))

\* faulty: the entry of an older snapshot is overwritten
SetValue_InPlace(values, current, value) ==
    IF Len(values) = 0 THEN <<Entry(current, value)>>
    ELSE [values EXCEPT ![Len(values)].value = value]

\* Writes the value of the current snapshot, and keeps no entry that repeats the value
\* of the entry before.
SetValue(values, current, value) ==
    LET last == Len(values)
    IN CASE last = 0                                -> <<Entry(current, value)>>
         [] last > 0 /\ values[last].snapshotId < current ->
               IF values[last].value = value THEN values
               ELSE Append(values, Entry(current, value))
         [] last > 0 /\ values[last].snapshotId >= current ->
               IF last > 1 /\ values[last - 1].value = value THEN Front(values)
               ELSE [values EXCEPT ![last] = Entry(@.snapshotId, value)]

=============================================================================
