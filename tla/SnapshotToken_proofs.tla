------------------------ MODULE SnapshotToken_proofs -------------------------
(***************************************************************************)
(* A token with snapshots and a clone of it, for any accounts, amounts,    *)
(* snapshots and forks: histories stay in order, balances add up to the    *)
(* supply at every snapshot, the past never changes; and the binary search *)
(* of a history finds the value valid at the snapshot, however long it is. *)
(***************************************************************************)
EXTENDS SnapshotToken, SnapshotSearch, FiniteSums

-----------------------------------------------------------------------------

\* The places of a history.
LEMMA HistoryTypes ==
    ASSUME NEW entries, NEW current \in Nat, IsHistory(entries, current)
    PROVE  /\ entries \in Seq(Entries) /\ Len(entries) \in Nat
           /\ \A i \in 1 .. Len(entries) :
                 /\ entries[i] \in Entries
                 /\ entries[i].snapshotId \in Nat /\ entries[i].value \in Nat
                 /\ entries[i].snapshotId <= current
           /\ \A i, j \in 1 .. Len(entries) :
                 i < j => entries[i].snapshotId < entries[j].snapshotId
<1>1. entries \in Seq(Entries)
  BY DEF IsHistory
<1>2. \A i \in 1 .. Len(entries) : entries[i] \in Entries
  BY <1>1
<1> QED
  BY <1>1, <1>2 DEF IsHistory, Entries

\* An entry that is valid at a snapshot is the one whose value counts.
LEMMA EntryCounts ==
    ASSUME NEW entries, NEW current \in Nat, IsHistory(entries, current), NEW s \in Nat,
           NEW i, IsEntryAt(entries, s, i)
    PROVE  HasValueAt(entries, s) /\ GetValueAt(entries, s) = entries[i].value
<1> DEFINE c == CHOOSE j \in 1 .. Len(entries) : IsEntryAt(entries, s, j)
<1>1. i \in 1 .. Len(entries)
  BY DEF IsEntryAt
<1>2. c \in 1 .. Len(entries) /\ IsEntryAt(entries, s, c)
  BY <1>1
<1>3. \A j, k \in 1 .. Len(entries) : IsEntryAt(entries, s, j) /\ IsEntryAt(entries, s, k) => ~(j < k)
  BY HistoryTypes DEF IsEntryAt
<1> HIDE DEF c
<1>4. c = i
  BY <1>1, <1>2, <1>3, HistoryTypes
<1>5. entries[1].snapshotId <= s /\ Len(entries) > 0
  BY <1>1, HistoryTypes DEF IsEntryAt
<1> QED
  BY <1>4, <1>5 DEF GetValueAt, HasValueAt, c

\* Where a series has a value, one of its entries is valid.
LEMMA EntryExists ==
    ASSUME NEW entries, NEW current \in Nat, IsHistory(entries, current), NEW s \in Nat,
           HasValueAt(entries, s)
    PROVE  \E i \in 1 .. Len(entries) : IsEntryAt(entries, s, i)
<1> USE HistoryTypes
<1> DEFINE Young == {n \in Nat : n \in 1 .. Len(entries) /\ entries[n].snapshotId > s}
<1>1. CASE Young = {}
  <2>1. Len(entries) \in 1 .. Len(entries) /\ entries[Len(entries)].snapshotId <= s
    BY <1>1 DEF HasValueAt
  <2> QED
    BY <2>1 DEF IsEntryAt
<1>2. CASE Young # {}
  <2>1. PICK n \in Young : \A m \in Young : n <= m
    BY <1>2, LeastNumber
  <2>2. n \in Nat /\ n \in 1 .. Len(entries) /\ n # 1 /\ entries[n].snapshotId > s
    BY <2>1 DEF HasValueAt
  <2>3. n - 1 \in 1 .. Len(entries) /\ n - 1 \notin Young
    BY <2>1, <2>2
  <2>4. \A j \in (n - 1) + 1 .. Len(entries) : entries[j].snapshotId > s
    <3> SUFFICES ASSUME NEW j \in n .. Len(entries) PROVE entries[j].snapshotId > s
      BY <2>2
    <3>1. CASE j = n
      BY <2>2, <3>1
    <3>2. CASE j # n
      <4>1. j \in 1 .. Len(entries) /\ n < j
        BY <2>2, <3>2
      <4>2. entries[n].snapshotId < entries[j].snapshotId
        BY <2>2, <4>1
      <4> QED
        BY <2>2, <4>1, <4>2
    <3> QED
      BY <3>1, <3>2
  <2>5. entries[n - 1].snapshotId <= s
    BY <2>3
  <2> QED
    BY <2>3, <2>4, <2>5 DEF IsEntryAt
<1> QED
  BY <1>1, <1>2

\* A history answers with natural numbers.
LEMMA ValuesAreNatural ==
    ASSUME NEW entries, NEW current \in Nat, IsHistory(entries, current), NEW s \in Nat,
           HasValueAt(entries, s)
    PROVE  GetValueAt(entries, s) \in Nat
BY EntryExists, EntryCounts, HistoryTypes

\* From the current snapshot on a series is constant.
LEMMA ConstantFromCurrent ==
    ASSUME NEW entries, NEW current \in Nat, IsHistory(entries, current),
           NEW s \in Nat, s >= current
    PROVE  /\ HasValueAt(entries, s) <=> HasValueAt(entries, current)
           /\ HasValueAt(entries, s) => GetValueAt(entries, s) = GetValueAt(entries, current)
           /\ HasValueAt(entries, s) <=> entries # << >>
<1> USE HistoryTypes
<1>1. entries # << >> <=> Len(entries) > 0
  OBVIOUS
<1>2. HasValueAt(entries, s) <=> Len(entries) > 0
  BY DEF HasValueAt
<1>3. HasValueAt(entries, current) <=> Len(entries) > 0
  BY DEF HasValueAt
<1>4. ASSUME Len(entries) > 0 PROVE GetValueAt(entries, s) = GetValueAt(entries, current)
  <2>1. IsEntryAt(entries, s, Len(entries)) /\ IsEntryAt(entries, current, Len(entries))
    BY <1>4 DEF IsEntryAt
  <2> QED
    BY <2>1, EntryCounts
<1> QED
  BY <1>1, <1>2, <1>3, <1>4

\* Two histories that agree on every entry up to a snapshot agree on the value there.
LEMMA SamePast ==
    ASSUME NEW v, NEW w, NEW c \in Nat, IsHistory(v, c), IsHistory(w, c), NEW s \in Nat,
           NEW n \in Nat, n <= Len(v), n <= Len(w),
           \A i \in 1 .. n : v[i] = w[i],
           \A i \in n + 1 .. Len(v) : v[i].snapshotId > s,
           \A i \in n + 1 .. Len(w) : w[i].snapshotId > s
    PROVE  /\ HasValueAt(w, s) <=> HasValueAt(v, s)
           /\ HasValueAt(v, s) => GetValueAt(w, s) = GetValueAt(v, s)
<1> USE HistoryTypes
<1>1. CASE n = 0
  <2>1. ~HasValueAt(v, s)
    BY <1>1 DEF HasValueAt
  <2>2. ~HasValueAt(w, s)
    BY <1>1 DEF HasValueAt
  <2> QED
    BY <2>1, <2>2
<1>2. CASE n > 0
  <2>1. HasValueAt(w, s) <=> HasValueAt(v, s)
    BY <1>2 DEF HasValueAt
  <2>2. ASSUME HasValueAt(v, s) PROVE GetValueAt(w, s) = GetValueAt(v, s)
    <3>1. PICK i \in 1 .. Len(v) : IsEntryAt(v, s, i)
      BY <2>2, EntryExists
    <3>2. i \in 1 .. n
      BY <3>1 DEF IsEntryAt
    <3>3. \A j \in i + 1 .. Len(w) : w[j].snapshotId > s
      <4> SUFFICES ASSUME NEW j \in i + 1 .. Len(w) PROVE w[j].snapshotId > s
        OBVIOUS
      <4>1. CASE j <= n
        BY <3>1, <3>2, <4>1 DEF IsEntryAt
      <4>2. CASE j > n
        BY <4>2
      <4> QED
        BY <3>2, <4>1, <4>2
    <3>4. IsEntryAt(w, s, i)
      BY <3>1, <3>2, <3>3 DEF IsEntryAt
    <3> QED
      BY <3>1, <3>2, <3>4, EntryCounts
  <2> QED
    BY <2>1, <2>2
<1> QED
  BY <1>1, <1>2

\* setValue writes the current snapshot and those to come, and nothing before, and keeps
\* the history in order: also when it drops the last entry because the value of the entry
\* before came back.
THEOREM SetValueIsSound ==
    ASSUME NEW entries, NEW before \in Nat, NEW current \in Nat, before <= current,
           IsHistory(entries, before), NEW value \in Nat
    PROVE  LET r == SetValue(entries, current, value)
           IN /\ IsHistory(r, current)
              /\ r # << >>
              /\ entries # << >> => r[1].snapshotId = entries[1].snapshotId
              /\ entries = << >> => r[1].snapshotId = current
              /\ \A s \in Nat :
                    /\ s >= current => HasValueAt(r, s) /\ GetValueAt(r, s) = value
                    /\ s < current =>
                          /\ HasValueAt(r, s) <=> HasValueAt(entries, s)
                          /\ HasValueAt(r, s) => GetValueAt(r, s) = GetValueAt(entries, s)
<1> DEFINE r == SetValue(entries, current, value)
           last == Len(entries)
<1>0. IsHistory(entries, current)
  <2>1. entries \in Seq(Entries) /\ \A i, j \in 1 .. Len(entries) :
           i < j => entries[i].snapshotId < entries[j].snapshotId
    BY ONLY IsHistory(entries, before) DEF IsHistory
  <2>2. \A i \in 1 .. Len(entries) : /\ entries[i].snapshotId \in Nat
                                   /\ entries[i].snapshotId <= before
    BY ONLY IsHistory(entries, before), before \in Nat, HistoryTypes
  <2>3. \A i \in 1 .. Len(entries) : entries[i].snapshotId <= current
    BY ONLY <2>2, before \in Nat, current \in Nat, before <= current
  <2> QED
    BY ONLY <2>1, <2>3 DEF IsHistory
<1>t. /\ entries \in Seq(Entries) /\ last \in Nat
      /\ \A i \in 1 .. last : /\ entries[i] \in Entries
                              /\ entries[i].snapshotId \in Nat /\ entries[i].value \in Nat
                              /\ entries[i].snapshotId <= before
      /\ \A i, j \in 1 .. last : i < j => entries[i].snapshotId < entries[j].snapshotId
  BY HistoryTypes
<1>n. last \in Nat /\ (last > 0 => entries[last].snapshotId \in Nat)
  <2>1. last \in Nat
    BY <1>t
  <2>2. ASSUME last > 0 PROVE last \in 1 .. last
    BY <2>1, <2>2
  <2> QED
    BY <1>t, <2>1, <2>2
<1>e. /\ Entry(current, value) \in Entries
      /\ Entry(current, value).snapshotId = current /\ Entry(current, value).value = value
  BY DEF Entry, Entries
\* it is enough to know the entries up to some place n, and the last entry
<1>1. ASSUME NEW w \in Seq(Entries), NEW n \in Nat, n <= last, n <= Len(w),
             last - 1 <= n, Len(w) > 0,
             \A i \in 1 .. n : w[i] = entries[i],
             n < last => entries[last].snapshotId >= current,
             n < Len(w) => Len(w) = n + 1 /\ w[Len(w)] = Entry(current, value),
             n = Len(w) => entries[n].value = value,
             n < Len(w) /\ n > 0 => entries[n].snapshotId < current
      PROVE  /\ IsHistory(w, current)
             /\ \A s \in Nat :
                    /\ s >= current => HasValueAt(w, s) /\ GetValueAt(w, s) = value
                    /\ s < current =>
                          /\ HasValueAt(w, s) <=> HasValueAt(entries, s)
                          /\ HasValueAt(w, s) => GetValueAt(w, s) = GetValueAt(entries, s)
  <2>1. Len(w) \in Nat /\ Len(w) <= n + 1
    BY <1>1
  <2>2. \A i \in 1 .. Len(w) : w[i].snapshotId \in Nat /\ w[i].snapshotId <= current
    <3> SUFFICES ASSUME NEW i \in 1 .. Len(w)
                 PROVE  w[i].snapshotId \in Nat /\ w[i].snapshotId <= current
      OBVIOUS
    <3>1. CASE i <= n
      <4>1. w[i] = entries[i] /\ i \in 1 .. last
        BY <1>1, <2>1, <3>1, <1>t
      <4> QED
        BY <4>1, <1>t
    <3>2. CASE i > n
      BY <1>1, <1>e, <2>1, <3>2
    <3> QED
      BY <3>1, <3>2
  <2>3. ASSUME NEW i \in 1 .. Len(w), NEW j \in 1 .. Len(w), i < j
        PROVE  w[i].snapshotId < w[j].snapshotId
    <3>1. i <= n /\ i \in 1 .. last /\ w[i] = entries[i]
      BY <1>1, <2>1, <2>3, <1>t
    <3>2. CASE j <= n
      BY <1>1, <1>t, <2>1, <2>3, <3>1, <3>2
    <3>3. CASE j > n
      <4>1. j = Len(w) /\ w[j].snapshotId = current /\ n > 0 /\ n < Len(w)
        BY <1>1, <1>e, <2>1, <3>1, <3>3
      <4>2. n \in 1 .. last /\ entries[n].snapshotId < current /\ entries[n].snapshotId \in Nat
        BY <1>1, <1>t, <4>1
      <4>3. entries[i].snapshotId <= entries[n].snapshotId
        BY <1>t, <3>1, <4>2
      <4>4. entries[i].snapshotId \in Nat
        BY <1>t, <3>1
      <4> QED
        BY <3>1, <4>1, <4>2, <4>3, <4>4
    <3> QED
      BY <2>1, <3>2, <3>3
  <2>4. IsHistory(w, current)
    BY <1>1, <2>2, <2>3 DEF IsHistory
  <2>5. ASSUME NEW s \in Nat, s >= current
        PROVE  HasValueAt(w, s) /\ GetValueAt(w, s) = value
    <3>1. Len(w) \in 1 .. Len(w) /\ w[Len(w)].snapshotId <= s
      BY <1>1, <2>1, <2>2, <2>5
    <3>2. IsEntryAt(w, s, Len(w))
      BY <3>1, <2>1 DEF IsEntryAt
    <3>3. HasValueAt(w, s) /\ GetValueAt(w, s) = w[Len(w)].value
      BY <2>4, <3>2, EntryCounts
    <3>4. w[Len(w)].value = value
      <4>1. CASE n = Len(w)
        BY <1>1, <4>1
      <4>2. CASE n < Len(w)
        BY <1>1, <1>e, <4>2
      <4> QED
        BY <1>1, <2>1, <4>1, <4>2
    <3> QED
      BY <3>3, <3>4
  <2>6. ASSUME NEW s \in Nat, s < current
        PROVE  /\ HasValueAt(w, s) <=> HasValueAt(entries, s)
               /\ HasValueAt(entries, s) => GetValueAt(w, s) = GetValueAt(entries, s)
    <3>1. \A i \in n + 1 .. Len(entries) : entries[i].snapshotId > s
      <4> SUFFICES ASSUME NEW i \in n + 1 .. Len(entries) PROVE entries[i].snapshotId > s
        OBVIOUS
      <4>1. i = last /\ n < last
        BY <1>1, <1>t
      <4>2. entries[last].snapshotId >= current /\ entries[last].snapshotId \in Nat
        BY <1>1, <1>t, <4>1
      <4> QED
        BY <2>6, <4>1, <4>2
    <3>2. \A i \in n + 1 .. Len(w) : w[i].snapshotId > s
      BY <1>1, <1>e, <2>1, <2>6
    <3>3. \A i \in 1 .. n : entries[i] = w[i]
      BY <1>1
    <3>4. n <= Len(entries) /\ n <= Len(w)
      BY <1>1
    <3> QED
      BY ONLY <1>0, <1>1, <2>4, <3>1, <3>2, <3>3, <3>4, SamePast
  <2> QED
    BY <2>4, <2>5, <2>6
<1> DEFINE Sound(w) ==
             /\ IsHistory(w, current)
             /\ w # << >>
             /\ entries # << >> => w[1].snapshotId = entries[1].snapshotId
             /\ entries = << >> => w[1].snapshotId = current
             /\ \A s \in Nat :
                   /\ s >= current => HasValueAt(w, s) /\ GetValueAt(w, s) = value
                   /\ s < current =>
                         /\ HasValueAt(w, s) <=> HasValueAt(entries, s)
                         /\ HasValueAt(w, s) => GetValueAt(w, s) = GetValueAt(entries, s)
<1>2. CASE last = 0
  <2> DEFINE w == <<Entry(current, value)>>
  <2>1. r = w
    BY <1>2 DEF SetValue
  <2>2. w \in Seq(Entries) /\ Len(w) = 1 /\ w[1] = Entry(current, value) /\ w # << >>
    BY <1>e
  <2>3. entries = << >>
    BY <1>2, <1>t
  <2> HIDE DEF w
  <2>4. /\ IsHistory(w, current)
        /\ \A s \in Nat :
               /\ s >= current => HasValueAt(w, s) /\ GetValueAt(w, s) = value
               /\ s < current =>
                     /\ HasValueAt(w, s) <=> HasValueAt(entries, s)
                     /\ HasValueAt(w, s) => GetValueAt(w, s) = GetValueAt(entries, s)
    <3>1. PICK n \in Nat : n = 0
      OBVIOUS
    <3>2. /\ n <= last /\ Len(w) = n + 1 /\ Len(w) > 0 /\ ~ (n < last) /\ last - 1 <= n
          /\ n <= Len(w) /\ n # Len(w) /\ ~ (n > 0)
      BY ONLY <1>2, <2>2, <3>1
    <3>3. (\A i \in 1 .. n : w[i] = entries[i]) /\ w[Len(w)] = Entry(current, value)
      BY ONLY <2>2, <3>1
    <3> QED
      BY <1>1, <2>2, <3>2, <3>3
  <2>5. Sound(w)
    BY <1>e, <2>2, <2>3, <2>4
  <2> QED
    BY <2>1, <2>5
<1>3. CASE last > 0 /\ entries[last].snapshotId < current /\ entries[last].value = value
  <2>1. r = entries
    BY <1>3, <1>t DEF SetValue
  <2>2. entries # << >>
    BY <1>3
  <2>4. /\ IsHistory(entries, current)
        /\ \A s \in Nat :
               /\ s >= current => HasValueAt(entries, s) /\ GetValueAt(entries, s) = value
    <3>1. ASSUME NEW s \in Nat, s >= current
          PROVE  HasValueAt(entries, s) /\ GetValueAt(entries, s) = value
      <4>1. last \in 1 .. last /\ entries[last].snapshotId <= s
        BY ONLY <1>3, <1>n, <3>1, current \in Nat, s \in Nat
      <4>2. IsEntryAt(entries, s, last)
        BY <4>1, <1>n DEF IsEntryAt
      <4> QED
        BY <1>0, <1>3, <4>2, EntryCounts
    <3> QED
      BY <1>0, <3>1
  <2>5. Sound(entries)
    BY <2>2, <2>4
  <2> QED
    BY <2>1, <2>5
<1>4. CASE last > 0 /\ entries[last].snapshotId < current /\ entries[last].value # value
  <2> DEFINE w == Append(entries, Entry(current, value))
  <2>1. r = w
    BY <1>4, <1>t DEF SetValue
  <2>2. /\ w \in Seq(Entries) /\ Len(w) = last + 1 /\ w[last + 1] = Entry(current, value)
        /\ \A i \in 1 .. last : w[i] = entries[i]
    BY <1>e, <1>t
  <2>3. entries # << >> /\ w # << >> /\ w[1] = entries[1]
    BY <1>4, <1>t, <2>2
  <2> HIDE DEF w
  <2>4. /\ IsHistory(w, current)
        /\ \A s \in Nat :
               /\ s >= current => HasValueAt(w, s) /\ GetValueAt(w, s) = value
               /\ s < current =>
                     /\ HasValueAt(w, s) <=> HasValueAt(entries, s)
                     /\ HasValueAt(w, s) => GetValueAt(w, s) = GetValueAt(entries, s)
    <3>1. PICK n \in Nat : n = last
      BY ONLY <1>n
    <3>2. /\ n <= last /\ Len(w) = n + 1 /\ Len(w) > 0 /\ ~ (n < last) /\ last - 1 <= n
          /\ n <= Len(w) /\ n # Len(w)
      BY ONLY <1>n, <2>2, <3>1
    <3>3. (\A i \in 1 .. n : w[i] = entries[i]) /\ w[Len(w)] = Entry(current, value)
      BY ONLY <2>2, <3>1, <3>2
    <3>4. entries[n].snapshotId < current
      BY ONLY <1>4, <3>1
    <3> QED
      BY <1>1, <2>2, <3>2, <3>3, <3>4
  <2>5. Sound(w)
    BY <2>3, <2>4
  <2> QED
    BY <2>1, <2>5
<1>5. CASE /\ last > 1 /\ entries[last].snapshotId >= current
           /\ entries[last - 1].value = value
  <2> DEFINE w == Front(entries)
  <2>1. r = w
    BY <1>5 DEF SetValue
  <2>2. /\ w \in Seq(Entries) /\ Len(w) = last - 1
        /\ \A i \in 1 .. last - 1 : w[i] = entries[i]
    BY <1>5, <1>t DEF Front
  <2>3. entries # << >> /\ w # << >> /\ w[1] = entries[1]
    <3>1. 1 \in 1 .. last - 1 /\ Len(w) > 0 /\ Len(entries) > 0
      BY ONLY <1>5, <1>n, <2>2
    <3> QED
      BY ONLY <2>2, <3>1
  <2> HIDE DEF w
  <2>4. /\ IsHistory(w, current)
        /\ \A s \in Nat :
               /\ s >= current => HasValueAt(w, s) /\ GetValueAt(w, s) = value
               /\ s < current =>
                     /\ HasValueAt(w, s) <=> HasValueAt(entries, s)
                     /\ HasValueAt(w, s) => GetValueAt(w, s) = GetValueAt(entries, s)
    <3>1. PICK n \in Nat : n = last - 1
      BY ONLY <1>5, <1>n
    <3>2. n <= last /\ n = Len(w) /\ Len(w) > 0 /\ n < last /\ last - 1 <= n
      BY ONLY <1>5, <1>n, <2>2, <3>1
    <3>3. \A i \in 1 .. n : w[i] = entries[i]
      BY ONLY <2>2, <3>1
    <3>4. entries[last].snapshotId >= current /\ entries[n].value = value
      BY ONLY <1>5, <3>1
    <3> QED
      BY <1>1, <2>2, <3>2, <3>3, <3>4
  <2>5. Sound(w)
    BY <2>3, <2>4
  <2> QED
    BY <2>1, <2>5
<1>6. CASE /\ last > 0 /\ entries[last].snapshotId >= current
           /\ ~ (last > 1 /\ entries[last - 1].value = value)
  <2> DEFINE w == [entries EXCEPT ![last] = Entry(entries[last].snapshotId, value)]
  <2>0. entries[last].snapshotId = current
    BY <1>6, <1>t
  <2>1. r = w
    BY <1>6, <1>t DEF SetValue
  <2>2. /\ w \in Seq(Entries) /\ Len(w) = last /\ w[last] = Entry(current, value)
        /\ \A i \in 1 .. last - 1 : w[i] = entries[i]
    BY <1>6, <1>e, <1>t, <2>0
  <2>3. entries # << >> /\ w # << >> /\ w[1].snapshotId = entries[1].snapshotId
    <3>1. CASE last = 1
      BY <1>e, <2>0, <2>2, <3>1
    <3>2. CASE last > 1
      BY <1>t, <2>2, <3>2
    <3> QED
      BY <1>6, <1>t, <2>2, <3>1, <3>2
  <2> HIDE DEF w
  <2>4. /\ IsHistory(w, current)
        /\ \A s \in Nat :
               /\ s >= current => HasValueAt(w, s) /\ GetValueAt(w, s) = value
               /\ s < current =>
                     /\ HasValueAt(w, s) <=> HasValueAt(entries, s)
                     /\ HasValueAt(w, s) => GetValueAt(w, s) = GetValueAt(entries, s)
    <3>1. PICK n \in Nat : n = last - 1
      BY ONLY <1>6, <1>n
    <3>2. n > 0 => entries[n].snapshotId < current
      BY <1>6, <1>t, <2>0, <3>1
    <3>3. /\ n <= last /\ Len(w) = n + 1 /\ Len(w) > 0 /\ n < last /\ last - 1 <= n /\ n <= Len(w)
          /\ \A i \in 1 .. n : w[i] = entries[i]
          /\ entries[last].snapshotId >= current
          /\ w[Len(w)] = Entry(current, value) /\ n # Len(w)
      BY <1>6, <1>t, <2>2, <3>1
    <3> QED
      BY <1>1, <2>2, <3>2, <3>3
  <2>5. Sound(w)
    BY <2>3, <2>4
  <2> QED
    BY <2>1, <2>5
<1>7. last > 0 => entries[last].snapshotId < current \/ entries[last].snapshotId >= current
  BY <1>n
<1>8. last = 0 \/ last > 0
  BY <1>n
<1> HIDE DEF Sound, r
<1> QED
  BY ONLY <1>2, <1>3, <1>4, <1>5, <1>6, <1>7, <1>8

-----------------------------------------------------------------------------

TokenRecords ==
    [deployed : BOOLEAN, isClone : BOOLEAN, snapshotId : Nat, parentSnapshotId : Nat,
     values : [Series -> Seq(Entries)]]

InOrder(T, current) == \A x \in Series : IsHistory(T.values[x], current)

\* The value of a series of T where o is its parent, and the two are balanced.
Shown(o, T, x, s) ==
    IF HasValueAt(T.values[x], s) THEN GetValueAt(T.values[x], s)
    ELSE IF T.isClone
         THEN LET fork == Smaller(T.parentSnapshotId, s)
              IN IF HasValueAt(o.values[x], fork) THEN GetValueAt(o.values[x], fork) ELSE 0
         ELSE 0

Balanced(o, T) ==
    \A s \in Nat : Shown(o, T, Supply, s) = SumFunction([a \in Accounts |-> Shown(o, T, a, s)])

\* A sound token: its fields have their types and its histories are in order.
SoundToken(T) ==
    /\ T \in TokenRecords
    /\ T.snapshotId \in AllSnapshots /\ T.parentSnapshotId \in AllSnapshots
    /\ CurrentSnapshotId(T) \in AllSnapshots
    /\ InOrder(T, CurrentSnapshotId(T))

\* R is T written at the current snapshot, as seen beside the parent o.
Follows(o, T, R) ==
    LET current == CurrentSnapshotId(T)
    IN /\ SoundToken(R)
       /\ R.snapshotId = current /\ CurrentSnapshotId(R) = current
       /\ R.deployed = T.deployed /\ R.isClone = T.isClone
       /\ R.parentSnapshotId = T.parentSnapshotId
       /\ StartsAtFork(R) => StartsAtFork(T) /\ (T.isClone => T.parentSnapshotId <= current)
       /\ \A y \in Series, s \in Nat : s < current => Shown(o, R, y, s) = Shown(o, T, y, s)

\* The first snapshot of each day is within the bound.
LEMMA DayBaseFits ==
    ASSUME day \in 1 .. MaxDay
    PROVE  /\ DayBase \in AllSnapshots /\ DayBase \in Nat /\ DayBase > 0
           /\ SnapshotsPerDay * (day + 1) \in Nat
           /\ SnapshotsPerDay * (day + 1) = DayBase + SnapshotsPerDay
           /\ day < MaxDay => SnapshotsPerDay * (day + 1) \in AllSnapshots
           /\ MaxSnapshot \in Nat /\ SnapshotsPerDay \in Nat
<1>1. /\ SnapshotsPerDay \in Nat \ {0} /\ MaxDay \in Nat \ {0} /\ day \in Nat \ {0}
      /\ day <= MaxDay
  BY TokenAssumption
<1>2. /\ SnapshotsPerDay * MaxDay \in Nat
      /\ MaxSnapshot \in Nat /\ SnapshotsPerDay * MaxDay <= MaxSnapshot
  <2>1. SnapshotsPerDay * MaxDay \in Nat /\ SnapshotsPerDay * (MaxDay + 1) \in Nat
    BY <1>1
  <2>2. MaxSnapshot \in SnapshotsPerDay * MaxDay .. SnapshotsPerDay * (MaxDay + 1) - 1
    BY TokenAssumption
  <2> QED
    BY <2>1, <2>2
<1>3. \A d \in Nat : d <= MaxDay => SnapshotsPerDay * d \in Nat
                                    /\ SnapshotsPerDay * d <= SnapshotsPerDay * MaxDay
  BY <1>1, Z3
<1>4. SnapshotsPerDay * day > 0
  BY <1>1, Z3
<1>5. SnapshotsPerDay * (day + 1) = SnapshotsPerDay * day + SnapshotsPerDay
  BY <1>1, Z3
<1>6. SnapshotsPerDay * day \in Nat /\ SnapshotsPerDay * day <= SnapshotsPerDay * MaxDay
  BY <1>1, <1>3
<1>7. day < MaxDay => SnapshotsPerDay * (day + 1) <= SnapshotsPerDay * MaxDay
  <2>1. ASSUME day < MaxDay PROVE day + 1 \in Nat /\ day + 1 <= MaxDay
    BY <1>1, <2>1
  <2> QED
    BY <1>3, <2>1
<1> DEFINE base == SnapshotsPerDay * day
           next == SnapshotsPerDay * (day + 1)
           last == SnapshotsPerDay * MaxDay
<1>8. /\ base \in Nat /\ base <= last /\ last \in Nat /\ last <= MaxSnapshot /\ base > 0
      /\ next = base + SnapshotsPerDay /\ (day < MaxDay => next <= last)
  BY <1>2, <1>4, <1>5, <1>6, <1>7
<1>9. DayBase = base
  BY DEF DayBase
<1> HIDE DEF base, next, last
<1> QED
  BY <1>1, <1>2, <1>8, <1>9 DEF AllSnapshots, base, next, last

\* A value is a natural number, whether it is the token's own or its parent's.
LEMMA ShownIsNatural ==
    ASSUME NEW T \in TokenRecords, NEW current \in Nat, InOrder(T, current),
           NEW o, NEW oCurrent \in Nat, T.isClone => InOrder(o, oCurrent),
           NEW x \in Series, NEW s \in Nat
    PROVE  Shown(o, T, x, s) \in Nat
<1>1. ASSUME HasValueAt(T.values[x], s) PROVE GetValueAt(T.values[x], s) \in Nat
  BY <1>1, ValuesAreNatural DEF InOrder
<1> DEFINE fork == Smaller(T.parentSnapshotId, s)
<1>2. fork \in Nat
  BY DEF Smaller, TokenRecords
<1>3. ASSUME T.isClone, HasValueAt(o.values[x], fork) PROVE GetValueAt(o.values[x], fork) \in Nat
  BY <1>2, <1>3, ValuesAreNatural DEF InOrder
<1> QED
  BY <1>1, <1>3 DEF Shown

\* From the current snapshot on a token shows the same, if its fork is not younger.
LEMMA ShownIsConstant ==
    ASSUME NEW T \in TokenRecords, NEW current \in Nat, InOrder(T, current),
           T.isClone => T.parentSnapshotId <= current,
           NEW o, NEW x \in Series, NEW s \in Nat, s >= current
    PROVE  Shown(o, T, x, s) = Shown(o, T, x, current)
<1>1. IsHistory(T.values[x], current)
  BY DEF InOrder
<1>2. /\ HasValueAt(T.values[x], s) <=> HasValueAt(T.values[x], current)
      /\ HasValueAt(T.values[x], s) =>
            GetValueAt(T.values[x], s) = GetValueAt(T.values[x], current)
  BY <1>1, ConstantFromCurrent
<1>3. T.parentSnapshotId \in Nat /\ T.isClone \in BOOLEAN
  BY DEF TokenRecords
<1>4. T.isClone => Smaller(T.parentSnapshotId, s) = Smaller(T.parentSnapshotId, current)
  BY <1>3 DEF Smaller
<1> QED
  BY <1>2, <1>3, <1>4 DEF Shown

\* Writing one series: it shows the value from the current snapshot on, and nothing else
\* changes.
LEMMA SetFollows ==
    ASSUME NEW o, NEW T, SoundToken(T), day \in 1 .. MaxDay, NEW x \in Series, NEW value \in Nat
    PROVE  /\ Follows(o, T, Set(T, x, value))
           /\ \A y \in Series, s \in Nat :
                 s >= CurrentSnapshotId(T) =>
                    Shown(o, Set(T, x, value), y, s) = IF y = x THEN value ELSE Shown(o, T, y, s)
<1> DEFINE c == CurrentSnapshotId(T)
           new == SetValue(T.values[x], c, value)
           R == Set(T, x, value)
<1>1. /\ T \in TokenRecords /\ c \in AllSnapshots /\ c \in Nat /\ InOrder(T, c)
      /\ T.parentSnapshotId \in AllSnapshots /\ T.parentSnapshotId \in Nat
      /\ T.values \in [Series -> Seq(Entries)]
  BY DayBaseFits DEF SoundToken, AllSnapshots, TokenRecords
<1>2. /\ IsHistory(new, c)
      /\ new # << >>
      /\ T.values[x] # << >> => new[1].snapshotId = T.values[x][1].snapshotId
      /\ T.values[x] = << >> => new[1].snapshotId = c
      /\ \A s \in Nat :
            /\ s >= c => HasValueAt(new, s) /\ GetValueAt(new, s) = value
            /\ s < c =>
                  /\ HasValueAt(new, s) <=> HasValueAt(T.values[x], s)
                  /\ HasValueAt(new, s) => GetValueAt(new, s) = GetValueAt(T.values[x], s)
  <2> DEFINE v == T.values[x]
  <2>1. IsHistory(v, c) /\ c <= c
    BY <1>1 DEF InOrder
  <2> HIDE DEF c, v
  <2>2. new = SetValue(v, c, value)
    BY DEF v
  <2>3. IsHistory(new, c) /\ new # << >>
    <3>1. IsHistory(SetValue(v, c, value), c)
      BY ONLY <1>1, <2>1, SetValueIsSound, value \in Nat, ZenonT(30)
    <3>2. new # << >>
      BY ONLY <1>1, <2>1, <2>2, SetValueIsSound, value \in Nat
    <3> QED
      BY <2>2, <3>1, <3>2
  <2>4. /\ v # << >> => new[1].snapshotId = v[1].snapshotId
        /\ v = << >> => new[1].snapshotId = c
    BY ONLY <1>1, <2>1, <2>2, SetValueIsSound, value \in Nat
  <2>5. \A s \in Nat : s >= c => HasValueAt(new, s) /\ GetValueAt(new, s) = value
    BY ONLY <1>1, <2>1, <2>2, SetValueIsSound, value \in Nat
  <2>6. \A s \in Nat : s < c => /\ HasValueAt(new, s) <=> HasValueAt(v, s)
                                /\ HasValueAt(new, s) => GetValueAt(new, s) = GetValueAt(v, s)
    BY ONLY <1>1, <2>1, <2>2, SetValueIsSound, value \in Nat
  <2> QED
    BY <2>3, <2>4, <2>5, <2>6 DEF v
<1>3. R = [T EXCEPT !.snapshotId = c, !.values[x] = new]
  BY DEF Set
<1> HIDE DEF new, R
<1>4. /\ R.snapshotId = c /\ R.values = [T.values EXCEPT ![x] = new]
      /\ R.deployed = T.deployed /\ R.isClone = T.isClone
      /\ R.parentSnapshotId = T.parentSnapshotId
  BY <1>1, <1>3 DEF TokenRecords
<1>5. new \in Seq(Entries)
  BY <1>2 DEF IsHistory
<1>6. R \in TokenRecords
  BY <1>1, <1>3, <1>5 DEF TokenRecords
<1>7. R.values[x] = new /\ \A y \in Series \ {x} : R.values[y] = T.values[y]
  BY <1>1, <1>4
<1>8. CurrentSnapshotId(R) = c
  <2>1. T.snapshotId \in Nat /\ DayBase \in Nat
    BY <1>1, DayBaseFits DEF TokenRecords
  <2> QED
    BY <1>4, <2>1 DEF CurrentSnapshotId, Larger
<1>9. InOrder(R, c)
  BY <1>1, <1>2, <1>7 DEF InOrder
<1>10. SoundToken(R)
  BY <1>1, <1>4, <1>6, <1>8, <1>9 DEF SoundToken
<1>11. ASSUME StartsAtFork(R) PROVE StartsAtFork(T) /\ (T.isClone => T.parentSnapshotId <= c)
  <2> SUFFICES ASSUME T.isClone PROVE StartsAtFork(T) /\ T.parentSnapshotId <= c
    BY DEF StartsAtFork
  <2>1. \A y \in Series : R.values[y] # << >> => R.values[y][1].snapshotId >= R.parentSnapshotId
    BY <1>4, <1>11 DEF StartsAtFork
  <2>2. new[1].snapshotId >= T.parentSnapshotId
    BY <1>2, <1>4, <1>7, <2>1
  <2>3. new[1].snapshotId \in Nat /\ new[1].snapshotId <= c
    <3>1. 1 \in 1 .. Len(new)
      BY <1>2, <1>5
    <3> QED
      BY <1>1, <1>2, <3>1, HistoryTypes
  <2>4. \A y \in Series : T.values[y] # << >> => T.values[y][1].snapshotId >= T.parentSnapshotId
    BY <1>2, <1>4, <1>7, <2>1, <2>2
  <2> QED
    BY <1>1, <2>2, <2>3, <2>4 DEF StartsAtFork
<1>12. \A y \in Series, s \in Nat : s < c => Shown(o, R, y, s) = Shown(o, T, y, s)
  <2> SUFFICES ASSUME NEW y \in Series, NEW s \in Nat, s < c
               PROVE  Shown(o, R, y, s) = Shown(o, T, y, s)
    OBVIOUS
  <2>1. /\ HasValueAt(R.values[y], s) <=> HasValueAt(T.values[y], s)
        /\ HasValueAt(R.values[y], s) => GetValueAt(R.values[y], s) = GetValueAt(T.values[y], s)
    BY <1>2, <1>7
  <2> QED
    BY <1>4, <2>1 DEF Shown
<1>13. \A y \in Series, s \in Nat :
          s >= c => Shown(o, R, y, s) = IF y = x THEN value ELSE Shown(o, T, y, s)
  <2> SUFFICES ASSUME NEW y \in Series, NEW s \in Nat, s >= c
               PROVE  Shown(o, R, y, s) = IF y = x THEN value ELSE Shown(o, T, y, s)
    OBVIOUS
  <2>1. CASE y = x
    BY <1>2, <1>7, <2>1 DEF Shown
  <2>2. CASE y # x
    BY <1>4, <1>7, <2>2 DEF Shown
  <2> QED
    BY <2>1, <2>2
<1>14. Follows(o, T, R)
  BY <1>4, <1>8, <1>10, <1>11, <1>12 DEF Follows
<1> QED
  BY <1>13, <1>14 DEF R

\* Writing twice is writing.
LEMMA FollowsTwice ==
    ASSUME NEW o, NEW T, NEW U, NEW R, Follows(o, T, U), Follows(o, U, R)
    PROVE  Follows(o, T, R)
BY DEF Follows

-----------------------------------------------------------------------------

Origin == token["origin"]
Clone == token["clone"]

Written(T) == \E x \in Series : T.values[x] # << >>

\* Both tokens are sound and balanced, the clone from its fork on; a clone is only written
\* once its fork is sealed in the parent.
TokenInv ==
    /\ day \in 1 .. MaxDay
    /\ token = [t \in Tokens |-> IF t = "origin" THEN Origin ELSE Clone]
    /\ SoundToken(Origin) /\ SoundToken(Clone)
    /\ ~Origin.isClone /\ Clone.isClone /\ Origin.deployed
    /\ Written(Clone) => IsDecoupled(Clone)
    /\ Balanced(Origin, Origin)
    /\ StartsAtFork(Clone) => Balanced(Origin, Clone)

\* Series are the accounts' and the supply's, which is no account.
LEMMA SeriesFacts ==
    /\ Supply \in Series /\ Supply \notin Accounts
    /\ Accounts \subseteq Series /\ IsFiniteSet(Accounts)
BY TokenAssumption DEF Series

\* The type of a sound token's current snapshot.
LEMMA SoundTypes ==
    ASSUME NEW T, SoundToken(T)
    PROVE  /\ T \in TokenRecords /\ CurrentSnapshotId(T) \in Nat /\ CurrentSnapshotId(T) <= MaxSnapshot
           /\ InOrder(T, CurrentSnapshotId(T))
           /\ T.snapshotId \in Nat /\ T.parentSnapshotId \in Nat /\ T.isClone \in BOOLEAN
           /\ T.values \in [Series -> Seq(Entries)]
BY DEF SoundToken, AllSnapshots, TokenRecords

\* Writing the supply and one account.
LEMMA SetPairIs ==
    ASSUME NEW o, NEW T, SoundToken(T), day \in 1 .. MaxDay, NEW owner \in Accounts,
           NEW v \in Nat, NEW w \in Nat
    PROVE  LET R == Set(Set(T, Supply, v), owner, w)
           IN /\ Follows(o, T, R)
              /\ \A y \in Series, s \in Nat :
                    s >= CurrentSnapshotId(T) =>
                       Shown(o, R, y, s) = IF y = owner THEN w
                                           ELSE IF y = Supply THEN v ELSE Shown(o, T, y, s)
<1> DEFINE c == CurrentSnapshotId(T)
           U == Set(T, Supply, v)
           R == Set(U, owner, w)
<1>1. owner \in Series /\ Supply \in Series /\ owner # Supply
  BY SeriesFacts
<1>2. /\ Follows(o, T, U)
      /\ \A y \in Series, s \in Nat :
            s >= c => Shown(o, U, y, s) = IF y = Supply THEN v ELSE Shown(o, T, y, s)
  BY <1>1, SetFollows
<1>3. SoundToken(U) /\ CurrentSnapshotId(U) = c
  BY <1>2 DEF Follows
<1>4. /\ Follows(o, U, R)
      /\ \A y \in Series, s \in Nat :
            s >= c => Shown(o, R, y, s) = IF y = owner THEN w ELSE Shown(o, U, y, s)
  <2> HIDE DEF U
  <2> QED
    BY <1>1, <1>3, SetFollows
<1>5. Follows(o, T, R)
  <2> HIDE DEF U, R
  <2> QED
    BY <1>2, <1>4, FollowsTwice
<1> HIDE DEF U
<1> QED
  BY <1>1, <1>2, <1>4, <1>5 DEF U

\* A transfer: the sender's balance is written first, the recipient's is read after that.
LEMMA TransferredIs ==
    ASSUME NEW T, SoundToken(T), SoundToken(Origin), day \in 1 .. MaxDay,
           NEW from \in Accounts, NEW to \in Accounts, NEW amount \in Nat,
           Value(T, from) >= amount
    PROVE  LET R == Transferred(T, from, to, amount)
           IN /\ Follows(Origin, T, R)
              /\ \A y \in Series, s \in Nat :
                    s >= CurrentSnapshotId(T) =>
                       Shown(Origin, R, y, s) =
                          IF y = to THEN IF to = from THEN Value(T, from)
                                         ELSE Value(T, to) + amount
                          ELSE IF y = from THEN Value(T, from) - amount
                          ELSE Shown(Origin, T, y, s)
<1> DEFINE c == CurrentSnapshotId(T)
           v == Value(T, from) - amount
           U == Set(T, from, v)
           w == Value(U, to) + amount
           R == Set(U, to, w)
<1>1. from \in Series /\ to \in Series
  BY SeriesFacts
<1>2. c \in Nat /\ T \in TokenRecords /\ InOrder(T, c)
  BY SoundTypes
<1>3. \A y \in Series : Value(T, y) = Shown(Origin, T, y, c)
  BY DEF Value, ValueAt, OriginValueAt, Shown, Origin
<1>4. \A y \in Series : Value(T, y) \in Nat
  <2>1. InOrder(Origin, CurrentSnapshotId(Origin)) /\ CurrentSnapshotId(Origin) \in Nat
    BY SoundTypes
  <2> QED
    BY <1>2, <1>3, <2>1, ShownIsNatural
<1>5. v \in Nat
  BY <1>1, <1>4
<1>6. /\ Follows(Origin, T, U)
      /\ \A y \in Series, s \in Nat :
            s >= c => Shown(Origin, U, y, s) = IF y = from THEN v ELSE Shown(Origin, T, y, s)
  <2> HIDE DEF v
  <2> QED
    BY <1>1, <1>5, SetFollows
<1>7. SoundToken(U) /\ CurrentSnapshotId(U) = c
  BY <1>6 DEF Follows
<1>8. Value(U, to) = Shown(Origin, U, to, c)
  BY <1>7 DEF Value, ValueAt, OriginValueAt, Shown, Origin
<1>9. w = IF to = from THEN v + amount ELSE Value(T, to) + amount
  BY <1>1, <1>2, <1>3, <1>6, <1>8
<1>10. w \in Nat
  BY <1>1, <1>4, <1>5, <1>9
<1>11. /\ Follows(Origin, U, R)
       /\ \A y \in Series, s \in Nat :
             s >= c => Shown(Origin, R, y, s) = IF y = to THEN w ELSE Shown(Origin, U, y, s)
  <2> HIDE DEF U, w
  <2> QED
    BY <1>1, <1>7, <1>10, SetFollows
<1>12. Follows(Origin, T, R)
  <2> HIDE DEF U, R
  <2> QED
    BY <1>6, <1>11, FollowsTwice
<1>13. v + amount = Value(T, from)
  BY <1>1, <1>4
<1>14. R = Transferred(T, from, to, amount)
  BY DEF Transferred
<1> HIDE DEF R, U, w
<1>15. \A y \in Series, s \in Nat :
          s >= c => Shown(Origin, R, y, s) =
                       IF y = to THEN IF to = from THEN Value(T, from) ELSE Value(T, to) + amount
                       ELSE IF y = from THEN v ELSE Shown(Origin, T, y, s)
  <2> HIDE DEF v
  <2> QED
    BY <1>6, <1>9, <1>11, <1>13
<1> QED
  BY <1>12, <1>14, <1>15

\* A token that is balanced stays balanced when it is written, if from the current snapshot
\* on it shows balances that add up to the supply it shows.
LEMMA BalancedWhenWritten ==
    ASSUME NEW o, NEW T, NEW R, SoundToken(T), Follows(o, T, R), Balanced(o, T),
           NEW h, NEW v, SumFunction([a \in Accounts |-> h[a]]) = v,
           \A s \in Nat : s >= CurrentSnapshotId(T) =>
              /\ \A a \in Accounts : Shown(o, R, a, s) = h[a]
              /\ Shown(o, R, Supply, s) = v
    PROVE  Balanced(o, R)
<1> SUFFICES ASSUME NEW s \in Nat
             PROVE  Shown(o, R, Supply, s) = SumFunction([a \in Accounts |-> Shown(o, R, a, s)])
  BY DEF Balanced
<1>1. CurrentSnapshotId(T) \in Nat
  BY SoundTypes
<1>2. CASE s < CurrentSnapshotId(T)
  <2>1. \A y \in Series : Shown(o, R, y, s) = Shown(o, T, y, s)
    BY <1>2 DEF Follows
  <2>2. [a \in Accounts |-> Shown(o, R, a, s)] = [a \in Accounts |-> Shown(o, T, a, s)]
    BY <2>1, SeriesFacts
  <2>3. Shown(o, T, Supply, s) = SumFunction([a \in Accounts |-> Shown(o, T, a, s)])
    BY DEF Balanced
  <2> QED
    BY <2>1, <2>2, <2>3, SeriesFacts
<1>3. CASE s >= CurrentSnapshotId(T)
  <2>1. [a \in Accounts |-> Shown(o, R, a, s)] = [a \in Accounts |-> h[a]]
    BY <1>3
  <2> QED
    BY <1>3, <2>1
<1> QED
  BY <1>1, <1>2, <1>3

\* The balances of a token at its current snapshot.
BalancesOf(o, T) == [a \in Accounts |-> Shown(o, T, a, CurrentSnapshotId(T))]

\* The current balances of a balanced token add up to its supply.
LEMMA BalancesAddUp ==
    ASSUME NEW o, NEW T, SoundToken(T), NEW oCurrent \in Nat, T.isClone => InOrder(o, oCurrent),
           Balanced(o, T)
    PROVE  /\ BalancesOf(o, T) \in [Accounts -> Nat]
           /\ SumFunction(BalancesOf(o, T)) = Shown(o, T, Supply, CurrentSnapshotId(T))
           /\ Shown(o, T, Supply, CurrentSnapshotId(T)) \in Nat
<1>1. /\ T \in TokenRecords /\ CurrentSnapshotId(T) \in Nat
      /\ InOrder(T, CurrentSnapshotId(T))
  BY SoundTypes
<1>2. \A x \in Series : Shown(o, T, x, CurrentSnapshotId(T)) \in Nat
  <2> HIDE DEF Shown
  <2> QED
    BY <1>1, ShownIsNatural
<1> QED
  BY <1>1, <1>2, SeriesFacts DEF BalancesOf, Balanced

\* Generating or destroying changes the supply by what it changes the balance.
LEMMA PairBalanced ==
    ASSUME NEW o, NEW T, SoundToken(T), day \in 1 .. MaxDay, NEW oCurrent \in Nat,
           T.isClone => InOrder(o, oCurrent), NEW owner \in Accounts,
           NEW v \in Nat, NEW w \in Nat,
           v - Shown(o, T, Supply, CurrentSnapshotId(T))
              = w - Shown(o, T, owner, CurrentSnapshotId(T)),
           StartsAtFork(T) => Balanced(o, T),
           StartsAtFork(Set(Set(T, Supply, v), owner, w))
    PROVE  Balanced(o, Set(Set(T, Supply, v), owner, w))
<1> DEFINE R == Set(Set(T, Supply, v), owner, w)
           c == CurrentSnapshotId(T)
           f == BalancesOf(o, T)
           h == [f EXCEPT ![owner] = w]
<1>1. /\ Follows(o, T, R)
      /\ \A y \in Series, s \in Nat :
            s >= c => Shown(o, R, y, s) = IF y = owner THEN w
                                          ELSE IF y = Supply THEN v ELSE Shown(o, T, y, s)
  BY SetPairIs
<1> HIDE DEF R
<1>2. Balanced(o, T) /\ (T.isClone => T.parentSnapshotId <= c)
  BY <1>1 DEF Follows, R
<1>3. /\ f \in [Accounts -> Nat] /\ SumFunction(f) = Shown(o, T, Supply, c)
      /\ Shown(o, T, Supply, c) \in Nat
  BY <1>2, BalancesAddUp
<1>4. f[owner] = Shown(o, T, owner, c)
  BY DEF BalancesOf
<1>5. SumFunction(h) = v
  <2>1. /\ f \in [Accounts -> Int] /\ h \in [Accounts -> Int] /\ h[owner] = w
        /\ \A a \in Accounts \ {owner} : h[a] = f[a]
    BY <1>3
  <2> HIDE DEF f, h
  <2>2. SumFunction(h) = SumFunction(f) - f[owner] + h[owner] /\ f[owner] \in Int
    BY <2>1, SeriesFacts, SumOfChange
  <2> QED
    BY <1>3, <1>4, <2>1, <2>2
<1>6. c \in Nat /\ T \in TokenRecords /\ InOrder(T, c)
  BY SoundTypes
<1>7. \A y \in Series, s \in Nat : s >= c => Shown(o, T, y, s) = Shown(o, T, y, c)
  BY <1>2, <1>6, ShownIsConstant
<1>8. \A s \in Nat : s >= c => /\ \A a \in Accounts : Shown(o, R, a, s) = h[a]
                              /\ Shown(o, R, Supply, s) = v
  <2> SUFFICES ASSUME NEW s \in Nat, s >= c
               PROVE  /\ \A a \in Accounts : Shown(o, R, a, s) = h[a]
                      /\ Shown(o, R, Supply, s) = v
    OBVIOUS
  <2>1. \A a \in Accounts : h[a] = IF a = owner THEN w ELSE Shown(o, T, a, c)
    BY DEF BalancesOf
  <2>2. \A a \in Accounts : Shown(o, R, a, s) = IF a = owner THEN w ELSE Shown(o, T, a, c)
    BY <1>1, <1>7, SeriesFacts
  <2>3. Shown(o, R, Supply, s) = v
    BY <1>1, SeriesFacts
  <2> HIDE DEF h
  <2> QED
    BY <2>1, <2>2, <2>3
<1>9. h = [a \in Accounts |-> h[a]]
  BY <1>3
<1>10. Balanced(o, R)
  <2> HIDE DEF h, c
  <2> QED
    BY <1>1, <1>2, <1>5, <1>8, <1>9, BalancedWhenWritten DEF c
<1> QED
  BY <1>10 DEF R

\* A transfer leaves the sum of the balances as it is, also a transfer to oneself.
LEMMA TransferBalanced ==
    ASSUME NEW T, SoundToken(T), SoundToken(Origin), day \in 1 .. MaxDay,
           NEW from \in Accounts, NEW to \in Accounts, NEW amount \in Nat,
           Value(T, from) >= amount,
           StartsAtFork(T) => Balanced(Origin, T),
           StartsAtFork(Transferred(T, from, to, amount))
    PROVE  Balanced(Origin, Transferred(T, from, to, amount))
<1> DEFINE R == Transferred(T, from, to, amount)
           c == CurrentSnapshotId(T)
           f == BalancesOf(Origin, T)
           g == [f EXCEPT ![from] = @ - amount]
           h == [g EXCEPT ![to] = @ + amount]
           v == Shown(Origin, T, Supply, c)
<1>1. /\ Follows(Origin, T, R)
      /\ \A y \in Series, s \in Nat :
            s >= c => Shown(Origin, R, y, s) =
                         IF y = to THEN IF to = from THEN Value(T, from)
                                        ELSE Value(T, to) + amount
                         ELSE IF y = from THEN Value(T, from) - amount
                         ELSE Shown(Origin, T, y, s)
  BY TransferredIs
<1> HIDE DEF R
<1>2. Balanced(Origin, T) /\ (T.isClone => T.parentSnapshotId <= c)
  BY <1>1 DEF Follows, R
<1>3. f \in [Accounts -> Nat] /\ SumFunction(f) = v /\ v \in Nat
  BY <1>2, BalancesAddUp, SoundTypes
<1>4. \A a \in Accounts : f[a] = Shown(Origin, T, a, c) /\ f[a] = Value(T, a)
  BY DEF BalancesOf, Value, ValueAt, OriginValueAt, Shown, Origin
<1>5. SumFunction(h) = v
  <2>1. /\ f \in [Accounts -> Int] /\ g \in [Accounts -> Int] /\ h \in [Accounts -> Int]
        /\ g[from] = f[from] - amount /\ f[from] \in Int
        /\ \A a \in Accounts \ {from} : g[a] = f[a]
        /\ h[to] = g[to] + amount /\ g[to] \in Int
        /\ \A a \in Accounts \ {to} : h[a] = g[a]
    BY <1>3
  <2> HIDE DEF f, g, h
  <2>2. SumFunction(g) = SumFunction(f) - f[from] + g[from] /\ SumFunction(f) \in Int
    BY <2>1, SeriesFacts, SumOfChange
  <2>3. SumFunction(h) = SumFunction(g) - g[to] + h[to] /\ SumFunction(g) \in Int
    BY <2>1, SeriesFacts, SumOfChange
  <2> QED
    BY <1>3, <2>1, <2>2, <2>3
<1>6. c \in Nat /\ T \in TokenRecords /\ InOrder(T, c)
  BY SoundTypes
<1>7. \A y \in Series, s \in Nat : s >= c => Shown(Origin, T, y, s) = Shown(Origin, T, y, c)
  BY <1>2, <1>6, ShownIsConstant
<1>8. \A a \in Accounts :
         h[a] = IF a = to THEN IF to = from THEN Value(T, from) ELSE Value(T, to) + amount
                ELSE IF a = from THEN Value(T, from) - amount ELSE Shown(Origin, T, a, c)
  <2> HIDE DEF f
  <2> QED
    BY <1>3, <1>4
<1>9. \A s \in Nat : s >= c => /\ \A a \in Accounts : Shown(Origin, R, a, s) = h[a]
                              /\ Shown(Origin, R, Supply, s) = v
  <2> SUFFICES ASSUME NEW s \in Nat, s >= c
               PROVE  /\ \A a \in Accounts : Shown(Origin, R, a, s) = h[a]
                      /\ Shown(Origin, R, Supply, s) = v
    OBVIOUS
  <2>1. Shown(Origin, R, Supply, s) = v
    BY <1>1, <1>7, SeriesFacts
  <2>2. \A a \in Accounts :
           Shown(Origin, R, a, s) =
              IF a = to THEN IF to = from THEN Value(T, from) ELSE Value(T, to) + amount
              ELSE IF a = from THEN Value(T, from) - amount ELSE Shown(Origin, T, a, c)
    BY <1>1, <1>7, SeriesFacts
  <2> HIDE DEF h, v
  <2> QED
    BY <1>8, <2>1, <2>2
<1>10. h = [a \in Accounts |-> h[a]]
  BY <1>3
<1>11. Balanced(Origin, R)
  <2> HIDE DEF h, c, v
  <2> QED
    BY <1>1, <1>2, <1>5, <1>9, <1>10, BalancedWhenWritten DEF c
<1> QED
  BY <1>11 DEF R

-----------------------------------------------------------------------------

\* A token that is no clone shows the same, whatever is taken for its parent.
LEMMA OriginHasNoParent ==
    ASSUME NEW T, ~T.isClone, NEW o, NEW p, NEW x, NEW s
    PROVE  Shown(o, T, x, s) = Shown(p, T, x, s)
BY DEF Shown

\* A clone that was never written shows its parent's balances of the fork.
LEMMA UnwrittenIsBalanced ==
    ASSUME NEW o, ~o.isClone, NEW C \in TokenRecords, C.isClone, ~Written(C), Balanced(o, o)
    PROVE  Balanced(o, C)
<1> SUFFICES ASSUME NEW s \in Nat
             PROVE  Shown(o, C, Supply, s) = SumFunction([a \in Accounts |-> Shown(o, C, a, s)])
  BY DEF Balanced
<1> DEFINE fork == Smaller(C.parentSnapshotId, s)
<1>1. fork \in Nat
  BY DEF Smaller, TokenRecords
<1>2. \A x \in Series : Shown(o, C, x, s) = Shown(o, o, x, fork)
  BY DEF Shown, Written, HasValueAt
<1>3. [a \in Accounts |-> Shown(o, C, a, s)] = [a \in Accounts |-> Shown(o, o, a, fork)]
  BY <1>2, SeriesFacts
<1>4. Shown(o, o, Supply, fork) = SumFunction([a \in Accounts |-> Shown(o, o, a, fork)])
  BY <1>1 DEF Balanced
<1> QED
  BY <1>2, <1>3, <1>4, SeriesFacts

\* A clone does not see what its parent writes after the fork.
LEMMA SealedForkShows ==
    ASSUME NEW o, NEW p, NEW current \in Nat, NEW C \in TokenRecords,
           C.isClone => C.parentSnapshotId < current,
           \A y \in Series, s \in Nat : s < current => Shown(o, p, y, s) = Shown(o, o, y, s),
           ~o.isClone, ~p.isClone
    PROVE  \A y \in Series, s \in Nat : Shown(p, C, y, s) = Shown(o, C, y, s)
<1> SUFFICES ASSUME NEW y \in Series, NEW s \in Nat PROVE Shown(p, C, y, s) = Shown(o, C, y, s)
  OBVIOUS
<1>1. CASE ~C.isClone
  BY <1>1, OriginHasNoParent
<1>2. CASE C.isClone
  <2> DEFINE fork == Smaller(C.parentSnapshotId, s)
  <2>1. fork \in Nat /\ fork < current
    BY <1>2 DEF Smaller, TokenRecords
  <2>2. Shown(o, p, y, fork) = Shown(o, o, y, fork)
    BY <2>1
  <2>3. /\ Shown(o, p, y, fork)
             = IF HasValueAt(p.values[y], fork) THEN GetValueAt(p.values[y], fork) ELSE 0
        /\ Shown(o, o, y, fork)
             = IF HasValueAt(o.values[y], fork) THEN GetValueAt(o.values[y], fork) ELSE 0
    BY DEF Shown
  <2> HIDE DEF fork
  <2> QED
    BY <1>2, <2>2, <2>3 DEF Shown, fork
<1> QED
  BY <1>1, <1>2

\* Of a step that writes one token, what is needed to keep the invariant.
LEMMA WriteKeepsInv ==
    ASSUME TokenInv, NEW t \in Tokens, NEW R, Become(t, R),
           IsDecoupled(token[t]), Follows(Origin, token[t], R),
           StartsAtFork(R) => Balanced(Origin, R)
    PROVE  /\ TokenInv'
           /\ IsDecoupled(Clone) =>
                 \A y \in Series, s \in Nat :
                    s < CurrentSnapshotId(Clone) =>
                       Shown(Origin', Clone', y, s) = Shown(Origin, Clone, y, s)
<1> USE DEF TokenInv
<1>1. day' = day /\ token' = [token EXCEPT ![t] = R]
  BY DEF Become
<1>3. /\ SoundToken(R) /\ CurrentSnapshotId(R) = CurrentSnapshotId(token[t])
      /\ R.deployed = token[t].deployed /\ R.isClone = token[t].isClone
      /\ R.parentSnapshotId = token[t].parentSnapshotId
      /\ StartsAtFork(R) => StartsAtFork(token[t])
      /\ \A y \in Series, s \in Nat :
            s < CurrentSnapshotId(token[t]) =>
               Shown(Origin, R, y, s) = Shown(Origin, token[t], y, s)
  BY DEF Follows
<1>4. /\ Origin \in TokenRecords /\ Clone \in TokenRecords
      /\ CurrentSnapshotId(Origin) \in Nat /\ CurrentSnapshotId(Clone) \in Nat
  BY SoundTypes
<1>5. CASE t = "clone"
  <2>1. Origin' = Origin /\ Clone' = R /\ token[t] = Clone
        /\ token' = [u \in Tokens |-> IF u = "origin" THEN Origin ELSE R]
    BY <1>1, <1>5 DEF Origin, Clone, Tokens
  <2>2. SoundToken(Origin)' /\ SoundToken(Clone)'
    BY <1>1, <1>3, <2>1 DEF SoundToken, CurrentSnapshotId, Larger, DayBase
  <2>3. IsDecoupled(Clone)'
    BY <1>1, <1>3, <1>5, <2>1 DEF IsDecoupled, CurrentSnapshotId, Larger, DayBase, Origin
  <2>4. (StartsAtFork(Clone) => Balanced(Origin, Clone))'
    BY <2>1
  <2> QED
    BY <1>1, <1>3, <2>1, <2>2, <2>3, <2>4
<1>6. CASE t = "origin"
  <2>1. Origin' = R /\ Clone' = Clone /\ token[t] = Origin
        /\ token' = [u \in Tokens |-> IF u = "origin" THEN R ELSE Clone]
    BY <1>1, <1>6 DEF Origin, Clone, Tokens
  <2>2. SoundToken(Origin)' /\ SoundToken(Clone)'
    BY <1>1, <1>3, <2>1 DEF SoundToken, CurrentSnapshotId, Larger, DayBase
  <2>3. IsDecoupled(Clone) => IsDecoupled(Clone)'
    BY <1>1, <1>3, <1>6, <2>1 DEF IsDecoupled, CurrentSnapshotId, Larger, DayBase, Origin
  <2>4. ~R.isClone
    BY <1>3, <2>1
  <2>5. Balanced(R, R)
    <3>1. Balanced(Origin, R)
      BY <2>4 DEF StartsAtFork
    <3>2. \A y \in Series, s \in Nat : Shown(Origin, R, y, s) = Shown(R, R, y, s)
      BY <2>4, OriginHasNoParent
    <3>3. ASSUME NEW s \in Nat
          PROVE  [a \in Accounts |-> Shown(Origin, R, a, s)] = [a \in Accounts |-> Shown(R, R, a, s)]
      BY <3>2, SeriesFacts
    <3> QED
      BY <3>1, <3>2, <3>3, SeriesFacts DEF Balanced
  <2>6. ASSUME IsDecoupled(Clone)
        PROVE  \A y \in Series, s \in Nat : Shown(R, Clone, y, s) = Shown(Origin, Clone, y, s)
    <3>1. Clone.isClone => Clone.parentSnapshotId < CurrentSnapshotId(Origin)
      BY <2>6 DEF IsDecoupled, Origin
    <3>2. \A y \in Series, s \in Nat :
             s < CurrentSnapshotId(Origin) => Shown(Origin, R, y, s) = Shown(Origin, Origin, y, s)
      BY <1>3, <2>1
    <3> QED
      BY <1>4, <2>4, <3>1, <3>2, SealedForkShows
  <2>7. ASSUME StartsAtFork(Clone) PROVE Balanced(R, Clone)
    <3>1. CASE Written(Clone)
      <4>1. \A y \in Series, s \in Nat : Shown(R, Clone, y, s) = Shown(Origin, Clone, y, s)
        BY <2>6, <3>1
      <4>2. ASSUME NEW s \in Nat
            PROVE  [a \in Accounts |-> Shown(R, Clone, a, s)]
                      = [a \in Accounts |-> Shown(Origin, Clone, a, s)]
        BY <4>1, SeriesFacts
      <4>3. Balanced(Origin, Clone)
        BY <2>7
      <4> QED
        BY <4>1, <4>2, <4>3, SeriesFacts DEF Balanced
    <3>2. CASE ~Written(Clone)
      BY <1>4, <2>4, <2>5, <3>2, UnwrittenIsBalanced
    <3> QED
      BY <3>1, <3>2
  <2>8. (StartsAtFork(Clone) => Balanced(Origin, Clone))'
    BY <2>1, <2>7
  <2>9. (Written(Clone) => IsDecoupled(Clone))'
    <3>1. Written(Clone)' => Written(Clone)
      BY <2>1
    <3> QED
      BY <2>3, <3>1
  <2>10. TokenInv'
    BY <1>1, <1>3, <2>1, <2>2, <2>4, <2>5, <2>8, <2>9
  <2> QED
    BY <2>1, <2>6, <2>10
<1> QED
  BY <1>5, <1>6 DEF Tokens

\* A transfer, and what it leaves of the past of a sealed clone.
LEMMA TransferKeepsInv ==
    ASSUME TokenInv, NEW t \in Tokens, NEW from \in Accounts, NEW to \in Accounts,
           NEW amount \in Amounts, Transfer(t, from, to, amount)
    PROVE  /\ TokenInv'
           /\ IsDecoupled(Clone) =>
                 \A y \in Series, s \in Nat :
                    s < CurrentSnapshotId(Clone) =>
                       Shown(Origin', Clone', y, s) = Shown(Origin, Clone, y, s)
<1> DEFINE R == Transferred(token[t], from, to, amount)
<1>1. /\ IsDecoupled(token[t]) /\ Value(token[t], from) >= amount /\ Become(t, R)
  BY DEF Transfer
<1>2. /\ SoundToken(token[t]) /\ SoundToken(Origin) /\ day \in 1 .. MaxDay
      /\ StartsAtFork(token[t]) => Balanced(Origin, token[t])
  BY DEF TokenInv, Tokens, Origin, Clone
<1>3. amount \in Nat
  BY TokenAssumption
<1>4. Follows(Origin, token[t], R)
  BY <1>1, <1>2, <1>3, TransferredIs
<1>5. StartsAtFork(R) => Balanced(Origin, R)
  BY <1>1, <1>2, <1>3, TransferBalanced
<1> HIDE DEF R
<1> QED
  BY <1>1, <1>4, <1>5, WriteKeepsInv

\* Of a token's supply and one account, the values at its current snapshot.
LEMMA CurrentValues ==
    ASSUME TokenInv, NEW t \in Tokens, NEW x \in Series
    PROVE  /\ Value(token[t], x) = Shown(Origin, token[t], x, CurrentSnapshotId(token[t]))
           /\ Value(token[t], x) \in Nat
<1>1. Value(token[t], x) = Shown(Origin, token[t], x, CurrentSnapshotId(token[t]))
  BY DEF Value, ValueAt, OriginValueAt, Shown, Origin
<1>2. SoundToken(token[t]) /\ SoundToken(Origin)
  BY DEF TokenInv, Tokens, Origin, Clone
<1>3. /\ token[t] \in TokenRecords /\ CurrentSnapshotId(token[t]) \in Nat
      /\ InOrder(token[t], CurrentSnapshotId(token[t]))
      /\ InOrder(Origin, CurrentSnapshotId(Origin)) /\ CurrentSnapshotId(Origin) \in Nat
  BY <1>2, SoundTypes
<1>4. Shown(Origin, token[t], x, CurrentSnapshotId(token[t])) \in Nat
  BY <1>3, ShownIsNatural
<1> QED
  BY <1>1, <1>4

\* Writing the supply and one account by the same difference.
LEMMA PairKeepsInv ==
    ASSUME TokenInv, NEW t \in Tokens, NEW owner \in Accounts, NEW v \in Nat, NEW w \in Nat,
           v - Value(token[t], Supply) = w - Value(token[t], owner), IsDecoupled(token[t]),
           Become(t, Set(Set(token[t], Supply, v), owner, w))
    PROVE  /\ TokenInv'
           /\ IsDecoupled(Clone) =>
                 \A y \in Series, s \in Nat :
                    s < CurrentSnapshotId(Clone) =>
                       Shown(Origin', Clone', y, s) = Shown(Origin, Clone, y, s)
<1> DEFINE R == Set(Set(token[t], Supply, v), owner, w)
<1>1. /\ SoundToken(token[t]) /\ SoundToken(Origin) /\ day \in 1 .. MaxDay
      /\ StartsAtFork(token[t]) => Balanced(Origin, token[t])
      /\ InOrder(Origin, CurrentSnapshotId(Origin)) /\ CurrentSnapshotId(Origin) \in Nat
  BY SoundTypes DEF TokenInv, Tokens, Origin, Clone
<1>2. v - Shown(Origin, token[t], Supply, CurrentSnapshotId(token[t]))
         = w - Shown(Origin, token[t], owner, CurrentSnapshotId(token[t]))
  BY CurrentValues, SeriesFacts
<1>3. Follows(Origin, token[t], R)
  BY <1>1, SetPairIs
<1>4. StartsAtFork(R) => Balanced(Origin, R)
  BY <1>1, <1>2, PairBalanced
<1> HIDE DEF R
<1>5. Become(t, R)
  BY DEF R
<1> QED
  BY <1>3, <1>4, <1>5, WriteKeepsInv

\* Generating and destroying tokens.
LEMMA GenerateKeepsInv ==
    ASSUME TokenInv, NEW t \in Tokens, NEW owner \in Accounts, NEW amount \in Amounts,
           GenerateTokens(t, owner, amount) \/ DestroyTokens(t, owner, amount)
    PROVE  /\ TokenInv'
           /\ IsDecoupled(Clone) =>
                 \A y \in Series, s \in Nat :
                    s < CurrentSnapshotId(Clone) =>
                       Shown(Origin', Clone', y, s) = Shown(Origin, Clone, y, s)
<1>1. /\ Value(token[t], Supply) \in Nat /\ Value(token[t], owner) \in Nat /\ amount \in Nat
  BY CurrentValues, SeriesFacts, TokenAssumption
<1>2. CASE GenerateTokens(t, owner, amount)
  <2>1. PICK v \in Nat, w \in Nat : /\ v = Value(token[t], Supply) + amount
                                    /\ w = Value(token[t], owner) + amount
    BY <1>1
  <2>2. /\ IsDecoupled(token[t]) /\ Become(t, Set(Set(token[t], Supply, v), owner, w))
        /\ v - Value(token[t], Supply) = w - Value(token[t], owner)
    BY <1>1, <1>2, <2>1 DEF GenerateTokens
  <2> QED
    BY <2>2, PairKeepsInv
<1>3. CASE DestroyTokens(t, owner, amount)
  <2>0. Value(token[t], Supply) >= amount /\ Value(token[t], owner) >= amount
    BY <1>3 DEF DestroyTokens
  <2>1. PICK v \in Nat, w \in Nat : /\ v = Value(token[t], Supply) - amount
                                    /\ w = Value(token[t], owner) - amount
    BY <1>1, <2>0
  <2>2. /\ IsDecoupled(token[t]) /\ Become(t, Set(Set(token[t], Supply, v), owner, w))
        /\ v - Value(token[t], Supply) = w - Value(token[t], owner)
    BY <1>1, <1>3, <2>1 DEF DestroyTokens
  <2> QED
    BY <2>2, PairKeepsInv
<1> QED
  BY <1>2, <1>3

\* A token keeps what it shows, and stays sound, when only its counter or the day advance.
LEMMA AdvanceKeeps ==
    ASSUME NEW T, SoundToken(T), NEW n \in AllSnapshots, NEW new \in AllSnapshots,
           CurrentSnapshotId(T) <= new
    PROVE  LET R == [T EXCEPT !.snapshotId = n]
           IN /\ R \in TokenRecords /\ InOrder(R, new)
              /\ R.snapshotId = n /\ R.parentSnapshotId = T.parentSnapshotId
              /\ R.isClone = T.isClone /\ R.deployed = T.deployed
              /\ R.values = T.values
              /\ StartsAtFork(R) <=> StartsAtFork(T)
<1> DEFINE R == [T EXCEPT !.snapshotId = n]
<1>1. /\ T \in TokenRecords /\ CurrentSnapshotId(T) \in Nat /\ InOrder(T, CurrentSnapshotId(T))
      /\ n \in Nat /\ new \in Nat
  BY SoundTypes DEF AllSnapshots
<1>2. /\ R \in TokenRecords /\ R.values = T.values
      /\ R.snapshotId = n /\ R.parentSnapshotId = T.parentSnapshotId
      /\ R.isClone = T.isClone /\ R.deployed = T.deployed
  BY <1>1 DEF TokenRecords
<1> HIDE DEF R
<1>3. \A x \in Series : IsHistory(T.values[x], new)
  <2> SUFFICES ASSUME NEW x \in Series PROVE IsHistory(T.values[x], new)
    OBVIOUS
  <2>1. IsHistory(T.values[x], CurrentSnapshotId(T))
    BY <1>1 DEF InOrder
  <2> DEFINE v == T.values[x]
             c == CurrentSnapshotId(T)
  <2>2. /\ v \in Seq(Entries)
        /\ \A i, j \in 1 .. Len(v) : i < j => v[i].snapshotId < v[j].snapshotId
        /\ \A i \in 1 .. Len(v) : v[i].snapshotId \in Nat /\ v[i].snapshotId <= c
    BY <1>1, <2>1, HistoryTypes
  <2>3. \A i \in 1 .. Len(v) : v[i].snapshotId <= new
    <3> HIDE DEF c, v
    <3> QED
      BY <1>1, <2>2 DEF c
  <2> QED
    BY <2>2, <2>3 DEF IsHistory
<1>4. InOrder(R, new) /\ (StartsAtFork(R) <=> StartsAtFork(T))
  BY <1>2, <1>3 DEF InOrder, StartsAtFork
<1> QED
  BY <1>2, <1>4 DEF R

\* Two tokens with the same series and the same fork show the same.
LEMMA SameSeriesShow ==
    ASSUME NEW o, NEW p, NEW T, NEW R, p.values = o.values, R.values = T.values,
           R.isClone = T.isClone, R.parentSnapshotId = T.parentSnapshotId
    PROVE  /\ \A x, s : Shown(p, R, x, s) = Shown(o, T, x, s)
           /\ Balanced(p, R) <=> Balanced(o, T)
<1>1. \A x, s : Shown(p, R, x, s) = Shown(o, T, x, s)
  BY DEF Shown
<1>2. ASSUME NEW s
      PROVE  [a \in Accounts |-> Shown(p, R, a, s)] = [a \in Accounts |-> Shown(o, T, a, s)]
  BY <1>1
<1> QED
  BY <1>1, <1>2 DEF Balanced

\* A new snapshot, of midnight or within the day.
LEMMA CreateSnapshotKeepsInv ==
    ASSUME TokenInv, NEW t \in Tokens, CreateSnapshot(t)
    PROVE  /\ TokenInv'
           /\ \A x, s : Shown(Origin', Clone', x, s) = Shown(Origin, Clone, x, s)
           /\ \A x, s : Shown(Origin', Origin', x, s) = Shown(Origin, Origin, x, s)
           /\ CurrentSnapshotId(Origin)' \in AllSnapshots
           /\ CurrentSnapshotId(Origin)' >= CurrentSnapshotId(Origin)
<1> USE DEF TokenInv
<1> DEFINE T == token[t]
           c == CurrentSnapshotId(T)
           new == IF DayBase > T.snapshotId THEN DayBase ELSE T.snapshotId + 1
           R == [T EXCEPT !.snapshotId = new]
<1>1. /\ new <= MaxSnapshot /\ Become(t, R)
  BY DEF CreateSnapshot
<1>2. SoundToken(T) /\ T.snapshotId \in Nat /\ c = Larger(DayBase, T.snapshotId) /\ DayBase \in Nat
  BY SoundTypes, DayBaseFits DEF Tokens, Origin, Clone, CurrentSnapshotId
<1>3. new \in AllSnapshots /\ new \in Nat /\ c <= new /\ DayBase <= new /\ c \in Nat
  BY <1>1, <1>2, DayBaseFits DEF Larger, AllSnapshots
<1> HIDE DEF new
<1>4. /\ R \in TokenRecords /\ InOrder(R, new)
      /\ R.snapshotId = new /\ R.parentSnapshotId = T.parentSnapshotId
      /\ R.isClone = T.isClone /\ R.deployed = T.deployed
      /\ R.values = T.values
      /\ StartsAtFork(R) <=> StartsAtFork(T)
  <2> HIDE DEF T, c
  <2> QED
    BY <1>2, <1>3, AdvanceKeeps DEF c
<1> HIDE DEF R
<1>5. day' = day /\ token' = [token EXCEPT ![t] = R]
  BY <1>1 DEF Become
<1>6. CurrentSnapshotId(R) = new
  BY <1>2, <1>3, <1>4 DEF CurrentSnapshotId, Larger
<1>7. SoundToken(R)
  BY <1>2, <1>3, <1>4, <1>6 DEF SoundToken
<1>8. CurrentSnapshotId(Origin) \in Nat /\ CurrentSnapshotId(Clone) \in Nat
      /\ CurrentSnapshotId(Origin) \in AllSnapshots /\ Clone.parentSnapshotId \in Nat
  BY SoundTypes DEF SoundToken
<1>9. CASE t = "clone"
  <2>1. Origin' = Origin /\ Clone' = R /\ T = Clone
        /\ token' = [u \in Tokens |-> IF u = "origin" THEN Origin ELSE R]
    BY <1>5, <1>9 DEF Origin, Clone, Tokens
  <2>2. SoundToken(Origin)' /\ SoundToken(Clone)'
    BY <1>5, <1>7, <2>1 DEF SoundToken, CurrentSnapshotId, Larger, DayBase
  <2>3. CurrentSnapshotId(Origin)' = CurrentSnapshotId(Origin)
    BY <1>5, <2>1 DEF CurrentSnapshotId, Larger, DayBase
  <2>4. IsDecoupled(Clone)' <=> IsDecoupled(Clone)
    BY <1>4, <2>1, <2>3 DEF IsDecoupled, Origin
  <2>5. Written(Clone)' <=> Written(Clone)
    BY <1>4, <2>1 DEF Written
  <2>6. (\A x, s : Shown(Origin, R, x, s) = Shown(Origin, Clone, x, s))
        /\ (Balanced(Origin, R) <=> Balanced(Origin, Clone))
    BY <1>4, <2>1, SameSeriesShow
  <2> QED
    BY <1>4, <1>5, <1>8, <2>1, <2>2, <2>3, <2>4, <2>5, <2>6
<1>10. CASE t = "origin"
  <2>1. Origin' = R /\ Clone' = Clone /\ T = Origin
        /\ token' = [u \in Tokens |-> IF u = "origin" THEN R ELSE Clone]
    BY <1>5, <1>10 DEF Origin, Clone, Tokens
  <2>2. SoundToken(Origin)' /\ SoundToken(Clone)'
    BY <1>5, <1>7, <2>1 DEF SoundToken, CurrentSnapshotId, Larger, DayBase
  <2>3. CurrentSnapshotId(Origin)' = new
    BY <1>5, <1>6, <2>1 DEF CurrentSnapshotId, Larger, DayBase
  <2>4. IsDecoupled(Clone) => IsDecoupled(Clone)'
    BY <1>3, <1>8, <2>1, <2>3 DEF IsDecoupled, Origin
  <2>5. Written(Clone)' <=> Written(Clone)
    BY <2>1
  <2>6. /\ \A x, s : Shown(R, Clone, x, s) = Shown(Origin, Clone, x, s)
        /\ Balanced(R, Clone) <=> Balanced(Origin, Clone)
        /\ \A x, s : Shown(R, R, x, s) = Shown(Origin, Origin, x, s)
        /\ Balanced(R, R) <=> Balanced(Origin, Origin)
    BY <1>4, <2>1, SameSeriesShow
  <2>7. /\ ~R.isClone /\ R.deployed
        /\ Balanced(R, R)
        /\ StartsAtFork(Clone) => Balanced(R, Clone)
    BY <1>4, <2>1, <2>6
  <2>8. TokenInv'
    BY <1>5, <2>1, <2>2, <2>4, <2>5, <2>7
  <2> QED
    BY <1>3, <2>1, <2>3, <2>6, <2>8
<1> QED
  BY <1>9, <1>10 DEF Tokens

\* A new day, which both tokens see as a new snapshot.
LEMMA NextDayKeepsInv ==
    ASSUME TokenInv, NextDay
    PROVE  /\ TokenInv'
           /\ CurrentSnapshotId(Origin)' \in AllSnapshots
           /\ CurrentSnapshotId(Origin)' >= CurrentSnapshotId(Origin)
<1> USE DEF TokenInv
<1>1. day < MaxDay /\ day' = day + 1 /\ token' = token /\ Origin' = Origin /\ Clone' = Clone
  BY DEF NextDay, Origin, Clone
<1>2. day' \in 1 .. MaxDay
  BY <1>1, TokenAssumption
<1>3. /\ DayBase \in Nat /\ DayBase' \in AllSnapshots /\ DayBase' \in Nat /\ DayBase <= DayBase'
      /\ MaxSnapshot \in Nat
  <2>1. DayBase' = SnapshotsPerDay * (day + 1)
    BY <1>1 DEF DayBase
  <2> QED
    BY <1>1, <2>1, DayBaseFits
<1>4. ASSUME NEW T, SoundToken(T)
      PROVE  /\ SoundToken(T)'
             /\ CurrentSnapshotId(T)' \in AllSnapshots
             /\ CurrentSnapshotId(T)' >= CurrentSnapshotId(T)
  <2> DEFINE c == Larger(DayBase', T.snapshotId)
  <2>1. CurrentSnapshotId(T)' = c
    BY DEF CurrentSnapshotId
  <2>2. /\ CurrentSnapshotId(T) = Larger(DayBase, T.snapshotId)
        /\ T.snapshotId \in AllSnapshots /\ T.snapshotId \in Nat
    BY <1>4, SoundTypes DEF CurrentSnapshotId, SoundToken
  <2>3. c \in AllSnapshots /\ CurrentSnapshotId(T) <= c
    BY <1>3, <2>2 DEF Larger
  <2> HIDE DEF c
  <2>4. InOrder([T EXCEPT !.snapshotId = T.snapshotId], c)
    BY <1>4, <2>2, <2>3, AdvanceKeeps
  <2>5. [T EXCEPT !.snapshotId = T.snapshotId].values = T.values
    BY <1>4, SoundTypes DEF TokenRecords
  <2>6. InOrder(T, c)
    BY <2>4, <2>5 DEF InOrder
  <2> QED
    BY <1>4, <2>1, <2>2, <2>3, <2>6, DayBaseFits DEF SoundToken, AllSnapshots
<1>5. /\ SoundToken(Origin)' /\ SoundToken(Clone)'
      /\ CurrentSnapshotId(Origin)' \in AllSnapshots
      /\ CurrentSnapshotId(Origin)' >= CurrentSnapshotId(Origin)
  BY <1>1, <1>4
<1>6. IsDecoupled(Clone) => IsDecoupled(Clone)'
  <2>1. /\ CurrentSnapshotId(Origin) \in Nat /\ CurrentSnapshotId(Origin)' \in Nat
        /\ Clone.parentSnapshotId \in Nat
    BY <1>5, SoundTypes DEF AllSnapshots
  <2> QED
    BY <1>1, <1>5, <2>1 DEF IsDecoupled, Origin
<1>7. (Written(Clone)' <=> Written(Clone)) /\ (StartsAtFork(Clone)' <=> StartsAtFork(Clone))
  BY <1>1
<1> QED
  BY <1>1, <1>2, <1>5, <1>6, <1>7

\* A clone is deployed: it shows what its parent shows at the fork.
LEMMA DeployCloneKeepsInv ==
    ASSUME TokenInv, NEW forkAt \in Forks, DeployClone(forkAt)
    PROVE  TokenInv' /\ Origin' = Origin
<1> USE DEF TokenInv
<1> DEFINE now == CurrentSnapshotId(Origin)
           fork == IF forkAt = 0 THEN now - 1 ELSE forkAt
           C == NewToken(TRUE, now, fork)
<1>1. Become("clone", C) /\ (forkAt = 0 => now > 0)
  BY DEF DeployClone, Origin
<1>2. now \in AllSnapshots /\ now \in Nat /\ now = Larger(DayBase, Origin.snapshotId)
      /\ DayBase \in Nat /\ Origin.snapshotId \in Nat
  BY SoundTypes, DayBaseFits DEF SoundToken, CurrentSnapshotId
<1>3. fork \in AllSnapshots
  BY <1>1, <1>2, TokenAssumption DEF AllSnapshots
<1> HIDE DEF now, fork
<1>4. /\ C.isClone /\ C.snapshotId = now /\ C.parentSnapshotId = fork
      /\ C.values = [x \in Series |-> << >>] /\ C.deployed
      /\ C \in TokenRecords
  BY <1>2, <1>3 DEF NewToken, TokenRecords, AllSnapshots
<1> HIDE DEF C
<1>5. ~Written(C)
  BY <1>4 DEF Written
<1>6. CurrentSnapshotId(C) = now
  BY <1>2, <1>4 DEF CurrentSnapshotId, Larger
<1>7. InOrder(C, now)
  BY <1>4 DEF InOrder, IsHistory
<1>8. SoundToken(C)
  BY <1>2, <1>3, <1>4, <1>6, <1>7 DEF SoundToken
<1>9. Balanced(Origin, C)
  BY <1>4, <1>5, UnwrittenIsBalanced
<1>10. day' = day /\ token' = [token EXCEPT !["clone"] = C]
  BY <1>1 DEF Become
<1>11. /\ Origin' = Origin /\ Clone' = C
       /\ token' = [u \in Tokens |-> IF u = "origin" THEN Origin ELSE C]
  BY <1>10 DEF Origin, Clone, Tokens
<1>12. SoundToken(Origin)' /\ SoundToken(Clone)'
  BY <1>8, <1>10, <1>11 DEF SoundToken, CurrentSnapshotId, Larger, DayBase
<1>13. Written(Clone)' = Written(C)
  BY <1>11
<1> QED
  BY <1>4, <1>5, <1>9, <1>10, <1>11, <1>12, <1>13

\* An origin that was never written is balanced.
LEMMA InitTokenInv == Init => TokenInv
<1> SUFFICES ASSUME Init PROVE TokenInv
  OBVIOUS
<1>1. day = 1 /\ day \in 1 .. MaxDay
  BY TokenAssumption DEF Init
<1>2. DayBase \in AllSnapshots /\ DayBase \in Nat /\ DayBase > 0 /\ MaxSnapshot \in Nat
  BY <1>1, DayBaseFits
<1>3. /\ Origin = NewToken(FALSE, 0, 0)
      /\ Clone = NotDeployed
      /\ token = [t \in Tokens |-> IF t = "origin" THEN Origin ELSE Clone]
  BY DEF Init, Origin, Clone, Tokens
<1>4. ASSUME NEW T \in {Origin, Clone}
      PROVE  /\ T \in TokenRecords /\ T.snapshotId = 0 /\ T.parentSnapshotId = 0
             /\ T.values = [x \in Series |-> << >>]
  <2>1. ASSUME NEW b \in BOOLEAN
        PROVE  /\ NewToken(b, 0, 0) \in TokenRecords
               /\ NewToken(b, 0, 0).snapshotId = 0 /\ NewToken(b, 0, 0).parentSnapshotId = 0
               /\ NewToken(b, 0, 0).values = [x \in Series |-> << >>]
    BY DEF NewToken, TokenRecords
  <2>2. /\ NotDeployed \in TokenRecords
        /\ NotDeployed.snapshotId = 0 /\ NotDeployed.parentSnapshotId = 0
        /\ NotDeployed.values = [x \in Series |-> << >>]
    BY <2>1 DEF NotDeployed, TokenRecords
  <2> QED
    BY <1>3, <2>1, <2>2
<1>5. ~Origin.isClone /\ Clone.isClone /\ Origin.deployed
  BY <1>3 DEF NewToken, NotDeployed
<1>6. ASSUME NEW T \in {Origin, Clone} PROVE SoundToken(T) /\ ~Written(T)
  <2>1. CurrentSnapshotId(T) = DayBase
    BY <1>2, <1>4 DEF CurrentSnapshotId, Larger
  <2>2. InOrder(T, DayBase)
    <3>1. T.values = [x \in Series |-> << >>]
      BY <1>4
    <3>2. IsHistory(<< >>, DayBase)
      BY DEF IsHistory
    <3> QED
      BY <3>1, <3>2 DEF InOrder
  <2> QED
    BY <1>2, <1>4, <2>1, <2>2 DEF SoundToken, AllSnapshots, Written
<1>7. Balanced(Origin, Origin)
  <2> SUFFICES ASSUME NEW s \in Nat
               PROVE  Shown(Origin, Origin, Supply, s)
                         = SumFunction([a \in Accounts |-> Shown(Origin, Origin, a, s)])
    BY DEF Balanced
  <2>1. \A x \in Series : Shown(Origin, Origin, x, s) = 0
    BY <1>4, <1>5 DEF Shown, HasValueAt
  <2> DEFINE f == [a \in Accounts |-> Shown(Origin, Origin, a, s)]
  <2>2. f \in [Accounts -> Int] /\ \A a \in Accounts : f[a] = 0
    BY <2>1, SeriesFacts
  <2>3. SumFunction(f) = 0
    <3> HIDE DEF f
    <3> QED
      BY <2>2, SeriesFacts, SumOfZeros
  <2> QED
    BY <2>1, <2>3, SeriesFacts
<1>8. Balanced(Origin, Clone)
  BY <1>4, <1>5, <1>6, <1>7, UnwrittenIsBalanced
<1> QED
  BY <1>1, <1>3, <1>5, <1>6, <1>7, <1>8 DEF TokenInv

\* Every step keeps the invariant.
LEMMA NextTokenInv == TokenInv /\ [Next]_vars => TokenInv'
<1> SUFFICES ASSUME TokenInv, [Next]_vars PROVE TokenInv'
  OBVIOUS
<1>1. ASSUME NEW t \in Tokens, NEW amount \in Amounts, NEW from \in Accounts, NEW to \in Accounts,
             Transfer(t, from, to, amount)
      PROVE  TokenInv'
  BY <1>1, TransferKeepsInv
<1>2. ASSUME NEW t \in Tokens, NEW amount \in Amounts, NEW owner \in Accounts,
             GenerateTokens(t, owner, amount) \/ DestroyTokens(t, owner, amount)
      PROVE  TokenInv'
  BY <1>2, GenerateKeepsInv
<1>3. ASSUME NEW t \in Tokens, CreateSnapshot(t) PROVE TokenInv'
  BY <1>3, CreateSnapshotKeepsInv
<1>4. ASSUME NEW forkAt \in Forks, DeployClone(forkAt) PROVE TokenInv'
  BY <1>4, DeployCloneKeepsInv
<1>5. CASE NextDay
  BY <1>5, NextDayKeepsInv
<1>6. CASE UNCHANGED vars
  BY <1>6 DEF vars, TokenInv, Origin, Clone, SoundToken, CurrentSnapshotId, DayBase, IsDecoupled
<1> QED
  BY <1>1, <1>2, <1>3, <1>4, <1>5, <1>6 DEF Next

\* The inductive invariant holds in every reachable state.
LEMMA TokenInvHolds == Spec => []TokenInv
BY InitTokenInv, NextTokenInv, PTL DEF Spec

\* Every series stays a history, whatever is written, dropped and forked.
THEOREM HistoriesStayInOrder == Spec => []TypeOK
<1>1. TokenInv => TypeOK
  BY DEF TokenInv, TypeOK, SoundToken, InOrder, Tokens, Origin, Clone
<1> QED
  BY <1>1, TokenInvHolds, PTL

\* At every snapshot that can be asked for the balances add up to the supply, in the
\* token and in a clone that was not written before its fork.
THEOREM SupplyIsBalances == Spec => []SupplyIsSumOfBalances
<1>1. ASSUME TokenInv PROVE SupplyIsSumOfBalances
  <2> SUFFICES ASSUME NEW t \in Tokens, StartsAtFork(token[t]), NEW s \in Answered(token[t])
               PROVE  ValueAt(token[t], Supply, s)
                         = SumFunction([a \in Accounts |-> ValueAt(token[t], a, s)])
    BY DEF SupplyIsSumOfBalances
  <2>1. s \in Nat
    BY <1>1, SoundTypes DEF Answered, TokenInv, Origin, Clone, Tokens
  <2>2. Balanced(Origin, token[t])
    BY <1>1 DEF TokenInv, Origin, Clone, Tokens
  <2>3. \A x : ValueAt(token[t], x, s) = Shown(Origin, token[t], x, s)
    BY DEF ValueAt, OriginValueAt, Shown, Origin
  <2>4. [a \in Accounts |-> ValueAt(token[t], a, s)] = [a \in Accounts |-> Shown(Origin, token[t], a, s)]
    BY <2>3
  <2> QED
    BY <2>1, <2>2, <2>3, <2>4 DEF Balanced
<1> QED
  BY <1>1, TokenInvHolds, PTL

\* A clone whose fork is sealed shows the same past forever, however the parent, the clone
\* and the snapshots of both go on.
THEOREM ClonePastIsSealed == Spec => ClonePastNeverChanges
<1> DEFINE Same == \A y \in Series, s \in Nat :
                      s < CurrentSnapshotId(Clone) =>
                         Shown(Origin', Clone', y, s) = Shown(Origin, Clone, y, s)
           Past == Clone.deployed /\ IsDecoupled(Clone) =>
                      \A x \in Series : \A s \in 0 .. CurrentSnapshotId(Clone) - 1 :
                         CloneValueAt(x, s)' = CloneValueAt(x, s)
<1>1. ASSUME TokenInv, [Next]_vars, Clone.deployed, IsDecoupled(Clone) PROVE Same
  <2>1. ASSUME NEW t \in Tokens, NEW amount \in Amounts, NEW from \in Accounts, NEW to \in Accounts,
               Transfer(t, from, to, amount)
        PROVE  Same
    BY <1>1, <2>1, TransferKeepsInv
  <2>2. ASSUME NEW t \in Tokens, NEW amount \in Amounts, NEW owner \in Accounts,
               GenerateTokens(t, owner, amount) \/ DestroyTokens(t, owner, amount)
        PROVE  Same
    BY <1>1, <2>2, GenerateKeepsInv
  <2>3. ASSUME NEW t \in Tokens, CreateSnapshot(t) PROVE Same
    BY <1>1, <2>3, CreateSnapshotKeepsInv
  <2>4. ASSUME NEW forkAt \in Forks, DeployClone(forkAt) PROVE Same
    BY <1>1, <2>4 DEF DeployClone, Clone
  <2>5. ASSUME UNCHANGED token PROVE Same
    BY <2>5 DEF Origin, Clone
  <2> HIDE DEF Same
  <2> QED
    BY <1>1, <2>1, <2>2, <2>3, <2>4, <2>5 DEF Next, NextDay, vars
<1>2. ASSUME TokenInv, [Next]_vars PROVE Past
  <2> SUFFICES ASSUME Clone.deployed, IsDecoupled(Clone), NEW x \in Series,
                      NEW s \in 0 .. CurrentSnapshotId(Clone) - 1
               PROVE  CloneValueAt(x, s)' = CloneValueAt(x, s)
    OBVIOUS
  <2>1. CurrentSnapshotId(Clone) \in Nat /\ s \in Nat /\ s < CurrentSnapshotId(Clone)
    BY <1>2, SoundTypes DEF TokenInv
  <2>2. CloneValueAt(x, s) = Shown(Origin, Clone, x, s)
    BY DEF CloneValueAt, ValueAt, OriginValueAt, Shown, Origin, Clone
  <2>3. CloneValueAt(x, s)' = Shown(Origin', Clone', x, s)
    BY DEF CloneValueAt, ValueAt, OriginValueAt, Shown, Origin, Clone
  <2> QED
    BY <1>1, <1>2, <2>1, <2>2, <2>3
<1>3. TokenInv /\ [Next]_vars => [Past]_vars
  BY <1>2
<1>4. Spec => [][Past]_vars
  <2> HIDE DEF Past
  <2> QED
    BY <1>3, TokenInvHolds, PTL DEF Spec
<1> QED
  BY <1>4 DEF ClonePastNeverChanges, Clone

-----------------------------------------------------------------------------

\* The ledger that a token without a parent stands for.
Own(o, x, s) == IF HasValueAt(o.values[x], s) THEN GetValueAt(o.values[x], s) ELSE 0
LedgerBalances(o) == [s \in AllSnapshots |-> [a \in Accounts |-> Own(o, a, s)]]
LedgerSupply(o) == [s \in AllSnapshots |-> Own(o, Supply, s)]

\* A token without a parent shows its own histories.
LEMMA OwnIsShown ==
    ASSUME NEW o, ~o.isClone, NEW p
    PROVE  \A x, s : Own(o, x, s) = Shown(p, o, x, s)
BY DEF Own, Shown

\* The ledger the origin stands for, now and after a step.
LEMMA LedgerIs ==
    /\ OriginBalances = LedgerBalances(Origin) /\ OriginSupply = LedgerSupply(Origin)
    /\ OriginBalances' = LedgerBalances(Origin') /\ OriginSupply' = LedgerSupply(Origin')
<1>1. OriginBalances = LedgerBalances(Origin) /\ OriginSupply = LedgerSupply(Origin)
  BY DEF OriginBalances, OriginSupply, OriginValueAt, LedgerBalances, LedgerSupply, Own, Origin
<1>2. OriginBalances' = LedgerBalances(Origin') /\ OriginSupply' = LedgerSupply(Origin')
  BY DEF OriginBalances, OriginSupply, OriginValueAt, LedgerBalances, LedgerSupply, Own, Origin
<1> QED
  BY <1>1, <1>2

\* What the ledger shows at the current snapshot and after it is what the token's queries
\* return now.
LEMMA LedgerNow ==
    ASSUME TokenInv
    PROVE  LET now == CurrentSnapshotId(Origin)
           IN /\ now \in AllSnapshots /\ now \in Nat
              /\ \A x \in Series, s \in Nat : s >= now => Own(Origin, x, s) = Value(Origin, x)
              /\ \A x \in Series : Value(Origin, x) \in Nat
              /\ OriginBalances[now] = [a \in Accounts |-> Value(Origin, a)]
              /\ OriginSupply[now] = Value(Origin, Supply)
<1> DEFINE now == CurrentSnapshotId(Origin)
<1>1. SoundToken(Origin) /\ ~Origin.isClone /\ "origin" \in Tokens /\ Origin = token["origin"]
  BY DEF TokenInv, Tokens, Origin
<1>2. now \in AllSnapshots /\ now \in Nat /\ Origin \in TokenRecords /\ InOrder(Origin, now)
  BY <1>1, SoundTypes DEF SoundToken
<1>3. \A x \in Series : Value(Origin, x) = Shown(Origin, Origin, x, now) /\ Value(Origin, x) \in Nat
  BY <1>1, CurrentValues
<1>4. \A x \in Series, s \in Nat : s >= now => Own(Origin, x, s) = Value(Origin, x)
  <2> SUFFICES ASSUME NEW x \in Series, NEW s \in Nat, s >= now
               PROVE  Own(Origin, x, s) = Value(Origin, x)
    OBVIOUS
  <2>1. Shown(Origin, Origin, x, s) = Shown(Origin, Origin, x, now)
    <3> HIDE DEF now
    <3> QED
      BY <1>1, <1>2, ShownIsConstant
  <2> QED
    BY <1>1, <1>3, <2>1, OwnIsShown
<1>5. /\ OriginBalances[now] = [a \in Accounts |-> Own(Origin, a, now)]
      /\ OriginSupply[now] = Own(Origin, Supply, now)
  <2> HIDE DEF now
  <2> QED
    BY <1>2, LedgerIs DEF LedgerBalances, LedgerSupply
<1>6. \A x \in Series : Own(Origin, x, now) = Value(Origin, x)
  BY <1>2, <1>4
<1>7. [a \in Accounts |-> Own(Origin, a, now)] = [a \in Accounts |-> Value(Origin, a)]
  BY <1>6, SeriesFacts
<1> QED
  BY <1>2, <1>3, <1>4, <1>5, <1>6, <1>7, SeriesFacts

\* A written origin is a written ledger: b are its balances from now on and v their sum.
LEMMA WritesLedger ==
    ASSUME TokenInv, NEW R, Become("origin", R), Follows(Origin, Origin, R),
           NEW b \in [Accounts -> Nat], NEW v,
           \A s \in Nat : s >= CurrentSnapshotId(Origin) =>
              /\ \A a \in Accounts : Shown(Origin, R, a, s) = b[a]
              /\ Shown(Origin, R, Supply, s) = v
    PROVE  Ledger!Write(b, v)
<1> DEFINE now == CurrentSnapshotId(Origin)
<1>1. Origin' = R /\ day' = day
  BY DEF Become, TokenInv, Origin, Tokens
<1>2. CurrentSnapshotId(Origin)' = now
  BY <1>1 DEF Follows, CurrentSnapshotId, Larger, DayBase
<1>3. ~Origin.isClone /\ ~R.isClone /\ now \in Nat /\ MaxSnapshot \in Nat
  BY LedgerNow, DayBaseFits DEF Follows, TokenInv
<1>4. \A x, s : Own(R, x, s) = Shown(Origin, R, x, s) /\ Own(Origin, x, s) = Shown(Origin, Origin, x, s)
  BY <1>3, OwnIsShown
<1>5. \A s \in Nat : s < now => \A x \in Series : Own(R, x, s) = Own(Origin, x, s)
  BY <1>4 DEF Follows
<1>6. \A s \in Nat : s >= now => /\ \A a \in Accounts : Own(R, a, s) = b[a]
                                /\ Own(R, Supply, s) = v
  BY <1>4
<1> HIDE DEF now
<1>7. ASSUME NEW s \in AllSnapshots
      PROVE  /\ s < now => /\ LedgerBalances(R)[s] = LedgerBalances(Origin)[s]
                           /\ LedgerSupply(R)[s] = LedgerSupply(Origin)[s]
             /\ ~(s < now) => LedgerBalances(R)[s] = b /\ LedgerSupply(R)[s] = v
  <2>1. s \in Nat
    BY DEF AllSnapshots
  <2>2. /\ LedgerBalances(R)[s] = [a \in Accounts |-> Own(R, a, s)]
        /\ LedgerBalances(Origin)[s] = [a \in Accounts |-> Own(Origin, a, s)]
        /\ LedgerSupply(R)[s] = Own(R, Supply, s)
        /\ LedgerSupply(Origin)[s] = Own(Origin, Supply, s)
    BY DEF LedgerBalances, LedgerSupply
  <2>3. CASE s < now
    <3>1. [a \in Accounts |-> Own(R, a, s)] = [a \in Accounts |-> Own(Origin, a, s)]
      BY <1>5, <2>1, <2>3, SeriesFacts
    <3> QED
      BY <1>5, <2>1, <2>2, <2>3, <3>1, SeriesFacts
  <2>4. CASE ~(s < now)
    <3>1. s >= now
      BY <1>3, <2>1, <2>4
    <3>2. [a \in Accounts |-> Own(R, a, s)] = b
      BY <1>6, <2>1, <3>1
    <3> QED
      BY <1>6, <2>1, <2>2, <2>4, <3>1, <3>2
  <2> QED
    BY <2>3, <2>4
<1>8. /\ OriginBalances' = [s \in AllSnapshots |-> IF s < now THEN OriginBalances[s] ELSE b]
      /\ OriginSupply' = [s \in AllSnapshots |-> IF s < now THEN OriginSupply[s] ELSE v]
  <2>1. LedgerBalances(R) = [s \in AllSnapshots |-> LedgerBalances(R)[s]]
        /\ LedgerSupply(R) = [s \in AllSnapshots |-> LedgerSupply(R)[s]]
    BY DEF LedgerBalances, LedgerSupply
  <2>2. LedgerBalances(R) = [s \in AllSnapshots |-> IF s < now THEN LedgerBalances(Origin)[s] ELSE b]
    BY <1>7, <2>1
  <2>3. LedgerSupply(R) = [s \in AllSnapshots |-> IF s < now THEN LedgerSupply(Origin)[s] ELSE v]
    BY <1>7, <2>1
  <2> QED
    BY <1>1, <2>2, <2>3, LedgerIs
<1>9. Ledger!Snapshots = AllSnapshots
  BY DEF Ledger!Snapshots, AllSnapshots
<1> QED
  BY <1>2, <1>8, <1>9 DEF Ledger!Write, now, Origin

\* A transfer of the origin moves the amount in the ledger.
LEMMA TransferIsMove ==
    ASSUME TokenInv, NEW from \in Accounts, NEW to \in Accounts, NEW amount \in Amounts,
           Transfer("origin", from, to, amount)
    PROVE  Ledger!LedgerNext
<1> DEFINE now == CurrentSnapshotId(Origin)
           R == Transferred(Origin, from, to, amount)
           B == OriginBalances[now]
           taken == [B EXCEPT ![from] = @ - amount]
           b == [taken EXCEPT ![to] = @ + amount]
           v == OriginSupply[now]
<1>1. /\ Value(Origin, from) >= amount /\ Become("origin", R) /\ amount \in Nat
      /\ SoundToken(Origin) /\ day \in 1 .. MaxDay
  BY TokenAssumption DEF Transfer, Origin, TokenInv
<1>2. /\ now \in Nat
      /\ \A x \in Series : Value(Origin, x) \in Nat
      /\ \A x \in Series, s \in Nat : s >= now => Own(Origin, x, s) = Value(Origin, x)
      /\ B = [a \in Accounts |-> Value(Origin, a)]
      /\ v = Value(Origin, Supply)
  BY LedgerNow
<1>3. \A x, s : Own(Origin, x, s) = Shown(Origin, Origin, x, s)
  BY OwnIsShown DEF TokenInv
<1>4. /\ Follows(Origin, Origin, R)
      /\ \A y \in Series, s \in Nat :
            s >= now => Shown(Origin, R, y, s) =
                           IF y = to THEN IF to = from THEN Value(Origin, from)
                                          ELSE Value(Origin, to) + amount
                           ELSE IF y = from THEN Value(Origin, from) - amount
                           ELSE Shown(Origin, Origin, y, s)
  BY <1>1, TransferredIs
<1> HIDE DEF now, R
<1>5. b = [a \in Accounts |-> IF a = to THEN IF to = from THEN Value(Origin, from)
                                             ELSE Value(Origin, to) + amount
                              ELSE IF a = from THEN Value(Origin, from) - amount
                              ELSE Value(Origin, a)]
  <2> HIDE DEF B
  <2>1. /\ Value(Origin, from) \in Nat /\ Value(Origin, to) \in Nat
        /\ B[from] = Value(Origin, from) /\ B[to] = Value(Origin, to)
    BY <1>2, SeriesFacts
  <2>2. taken = [a \in Accounts |-> IF a = from THEN Value(Origin, from) - amount
                                     ELSE Value(Origin, a)]
    BY <1>2, <2>1
  <2>3. (Value(Origin, from) - amount) + amount = Value(Origin, from)
    BY <1>1, <2>1
  <2>4. taken[to] + amount = IF to = from THEN Value(Origin, from) ELSE Value(Origin, to) + amount
    BY <2>2, <2>3
  <2> HIDE DEF taken
  <2>5. b = [a \in Accounts |-> IF a = to THEN taken[to] + amount ELSE taken[a]]
    BY <2>2
  <2> QED
    BY <2>2, <2>4, <2>5
<1>6. b \in [Accounts -> Nat]
  <2> HIDE DEF b
  <2> QED
    BY <1>1, <1>2, <1>5, SeriesFacts
<1>7. amount \in 0 .. B[from]
  BY <1>1, <1>2, SeriesFacts
<1> HIDE DEF B, taken, b, v
<1>8. \A s \in Nat : s >= now => /\ \A a \in Accounts : Shown(Origin, R, a, s) = b[a]
                                /\ Shown(Origin, R, Supply, s) = v
  BY <1>2, <1>3, <1>4, <1>5, SeriesFacts
<1>9. Ledger!Write(b, v)
  BY <1>1, <1>4, <1>6, <1>8, WritesLedger DEF now
<1>10. Ledger!Move(from, to, amount)
  BY <1>1, <1>7, <1>9 DEF Ledger!Move, b, taken, B, v, now, Origin
<1> QED
  BY <1>7, <1>10 DEF Ledger!LedgerNext, B, now, Origin

\* Writing the supply and one account of the origin writes them in the ledger.
LEMMA PairIsWrite ==
    ASSUME TokenInv, NEW owner \in Accounts, NEW v \in Nat, NEW w \in Nat,
           Become("origin", Set(Set(Origin, Supply, v), owner, w))
    PROVE  Ledger!Write([OriginBalances[CurrentSnapshotId(Origin)] EXCEPT ![owner] = w], v)
<1> DEFINE now == CurrentSnapshotId(Origin)
           R == Set(Set(Origin, Supply, v), owner, w)
           B == OriginBalances[now]
           b == [B EXCEPT ![owner] = w]
<1>1. SoundToken(Origin) /\ day \in 1 .. MaxDay /\ Become("origin", R)
  BY DEF TokenInv
<1>2. /\ now \in Nat
      /\ \A x \in Series : Value(Origin, x) \in Nat
      /\ \A x \in Series, s \in Nat : s >= now => Own(Origin, x, s) = Value(Origin, x)
      /\ B = [a \in Accounts |-> Value(Origin, a)]
  BY LedgerNow
<1>3. \A x, s : Own(Origin, x, s) = Shown(Origin, Origin, x, s)
  BY OwnIsShown DEF TokenInv
<1>4. /\ Follows(Origin, Origin, R)
      /\ \A y \in Series, s \in Nat :
            s >= now => Shown(Origin, R, y, s) = IF y = owner THEN w
                                                 ELSE IF y = Supply THEN v
                                                 ELSE Shown(Origin, Origin, y, s)
  BY <1>1, SetPairIs
<1> HIDE DEF now, R
<1>5. b = [a \in Accounts |-> IF a = owner THEN w ELSE Value(Origin, a)]
  BY <1>2
<1>6. b \in [Accounts -> Nat]
  BY <1>2, <1>5, SeriesFacts
<1> HIDE DEF B, b
<1>7. \A s \in Nat : s >= now => /\ \A a \in Accounts : Shown(Origin, R, a, s) = b[a]
                                /\ Shown(Origin, R, Supply, s) = v
  BY <1>2, <1>3, <1>4, <1>5, SeriesFacts
<1>8. Ledger!Write(b, v)
  BY <1>1, <1>4, <1>6, <1>7, WritesLedger DEF now
<1> QED
  BY <1>8 DEF b, B, now

\* Generating tokens of the origin generates them in the ledger.
LEMMA GenerateIsGenerate ==
    ASSUME TokenInv, NEW owner \in Accounts, NEW amount \in Amounts,
           GenerateTokens("origin", owner, amount)
    PROVE  Ledger!LedgerNext
<1> DEFINE now == CurrentSnapshotId(Origin)
           B == OriginBalances[now]
<1>1. /\ now \in AllSnapshots /\ now \in Nat
      /\ B = [a \in Accounts |-> Value(Origin, a)]
      /\ OriginSupply[now] = Value(Origin, Supply)
      /\ Value(Origin, Supply) \in Nat /\ Value(Origin, owner) \in Nat /\ amount \in Nat
  BY LedgerNow, SeriesFacts, TokenAssumption
<1>2. PICK v \in Nat, w \in Nat : /\ v = Value(Origin, Supply) + amount
                                  /\ w = Value(Origin, owner) + amount
  BY <1>1
<1>3. Become("origin", Set(Set(Origin, Supply, v), owner, w))
  BY <1>2 DEF GenerateTokens, Origin
<1>4. Ledger!Write([B EXCEPT ![owner] = w], v)
  BY <1>3, PairIsWrite
<1> HIDE DEF now
<1>5. B[owner] + amount = w /\ OriginSupply[now] + amount = v
  BY <1>1, <1>2
<1> HIDE DEF B
<1>6. [B EXCEPT ![owner] = @ + amount] = [B EXCEPT ![owner] = w]
  BY <1>5
<1>7. Ledger!Generate(owner, amount)
  BY <1>4, <1>5, <1>6 DEF Ledger!Generate, B, now, Origin
<1>8. Ledger!Snapshots = AllSnapshots
  BY DEF Ledger!Snapshots, AllSnapshots
<1>9. OriginSupply' = [s \in AllSnapshots |-> IF s < now THEN OriginSupply[s] ELSE v]
  BY <1>4, <1>8 DEF Ledger!Write, now, Origin
<1>10. OriginSupply'[now] = v
  BY <1>1, <1>9
<1>11. amount \in 0 .. OriginSupply'[now]
  BY <1>1, <1>2, <1>10
<1> QED
  BY <1>7, <1>11 DEF Ledger!LedgerNext, now, Origin

\* Destroying tokens of the origin destroys them in the ledger.
LEMMA DestroyIsDestroy ==
    ASSUME TokenInv, NEW owner \in Accounts, NEW amount \in Amounts,
           DestroyTokens("origin", owner, amount)
    PROVE  Ledger!LedgerNext
<1> DEFINE now == CurrentSnapshotId(Origin)
           B == OriginBalances[now]
<1>1. /\ now \in Nat
      /\ B = [a \in Accounts |-> Value(Origin, a)]
      /\ OriginSupply[now] = Value(Origin, Supply)
      /\ Value(Origin, Supply) \in Nat /\ Value(Origin, owner) \in Nat /\ amount \in Nat
      /\ Value(Origin, Supply) >= amount /\ Value(Origin, owner) >= amount
  BY LedgerNow, SeriesFacts, TokenAssumption DEF DestroyTokens, Origin
<1>2. PICK v \in Nat, w \in Nat : /\ v = Value(Origin, Supply) - amount
                                  /\ w = Value(Origin, owner) - amount
  BY <1>1
<1>3. Become("origin", Set(Set(Origin, Supply, v), owner, w))
  BY <1>2 DEF DestroyTokens, Origin
<1>4. Ledger!Write([B EXCEPT ![owner] = w], v)
  BY <1>3, PairIsWrite
<1> HIDE DEF now
<1>5. /\ B[owner] - amount = w /\ OriginSupply[now] - amount = v
      /\ amount \in 0 .. B[owner] /\ amount <= B[owner]
  BY <1>1, <1>2
<1> HIDE DEF B
<1>6. [B EXCEPT ![owner] = @ - amount] = [B EXCEPT ![owner] = w]
  BY <1>5
<1>7. Ledger!Destroy(owner, amount)
  BY <1>4, <1>5, <1>6 DEF Ledger!Destroy, B, now, Origin
<1> QED
  BY <1>5, <1>7 DEF Ledger!LedgerNext, B, now, Origin

\* A later snapshot, with the same values, is an advance of the ledger or nothing at all.
LEMMA LaterIsAdvance ==
    ASSUME TokenInv, CurrentSnapshotId(Origin)' \in AllSnapshots,
           CurrentSnapshotId(Origin)' >= CurrentSnapshotId(Origin),
           Origin'.values = Origin.values
    PROVE  [Ledger!LedgerNext]_Ledger!ledgerVars
<1>1. OriginBalances' = OriginBalances /\ OriginSupply' = OriginSupply
  BY LedgerIs DEF LedgerBalances, LedgerSupply, Own
<1>2. CurrentSnapshotId(Origin) \in Nat /\ CurrentSnapshotId(Origin)' \in Nat
  BY LedgerNow DEF AllSnapshots
<1>3. CASE CurrentSnapshotId(Origin)' = CurrentSnapshotId(Origin)
  BY <1>1, <1>3 DEF Ledger!ledgerVars, Origin
<1>4. CASE CurrentSnapshotId(Origin)' # CurrentSnapshotId(Origin)
  <2>1. CurrentSnapshotId(Origin)' > CurrentSnapshotId(Origin)
    BY <1>2, <1>4
  <2>2. Ledger!Snapshots = AllSnapshots
    BY DEF Ledger!Snapshots, AllSnapshots
  <2> QED
    BY <1>1, <2>1, <2>2 DEF Ledger!LedgerNext, Ledger!Advance, Origin
<1> QED
  BY <1>3, <1>4

\* What only writes the clone leaves the ledger alone.
LEMMA CloneIsStutter ==
    ASSUME TokenInv, UNCHANGED <<day, Origin>>
    PROVE  [Ledger!LedgerNext]_Ledger!ledgerVars
<1>1. CurrentSnapshotId(Origin)' = CurrentSnapshotId(Origin)
  BY DEF CurrentSnapshotId, DayBase
<1>2. CurrentSnapshotId(Origin) \in AllSnapshots /\ CurrentSnapshotId(Origin) \in Nat
  BY LedgerNow
<1> QED
  BY <1>1, <1>2, LaterIsAdvance

\* At first the ledger shows nothing.
LEMMA InitIsLedgerInit == Init => Ledger!LedgerInit
<1> SUFFICES ASSUME Init PROVE Ledger!LedgerInit
  OBVIOUS
<1>1. CurrentSnapshotId(Origin) \in AllSnapshots
  BY InitTokenInv, LedgerNow
<1>2. \A x \in Series, s \in AllSnapshots : Own(Origin, x, s) = 0
  BY DEF Init, Origin, Tokens, NewToken, Own, HasValueAt
<1>3. /\ OriginBalances = [s \in AllSnapshots |-> [a \in Accounts |-> 0]]
      /\ OriginSupply = [s \in AllSnapshots |-> 0]
  BY <1>2, LedgerIs, SeriesFacts DEF LedgerBalances, LedgerSupply
<1>4. Ledger!Snapshots = AllSnapshots
  BY DEF Ledger!Snapshots, AllSnapshots
<1> QED
  BY <1>1, <1>3, <1>4 DEF Ledger!LedgerInit, Origin

\* Every step of the token is a step of the ledger or changes nothing of it.
LEMMA StepOfLedger ==
    ASSUME TokenInv, [Next]_vars
    PROVE  [Ledger!LedgerNext]_Ledger!ledgerVars
<1>0. \A R : Become("clone", R) => UNCHANGED <<day, Origin>>
  BY DEF Become, Origin, TokenInv, Tokens
<1>1. ASSUME NEW t \in Tokens, NEW amount \in Amounts, NEW from \in Accounts, NEW to \in Accounts,
             Transfer(t, from, to, amount)
      PROVE  [Ledger!LedgerNext]_Ledger!ledgerVars
  <2>1. CASE t = "origin"
    BY <1>1, <2>1, TransferIsMove
  <2>2. CASE t = "clone"
    BY <1>0, <1>1, <2>2, CloneIsStutter DEF Transfer
  <2> QED
    BY <2>1, <2>2 DEF Tokens
<1>2. ASSUME NEW t \in Tokens, NEW amount \in Amounts, NEW owner \in Accounts,
             GenerateTokens(t, owner, amount)
      PROVE  [Ledger!LedgerNext]_Ledger!ledgerVars
  <2>1. CASE t = "origin"
    BY <1>2, <2>1, GenerateIsGenerate
  <2>2. CASE t = "clone"
    BY <1>0, <1>2, <2>2, CloneIsStutter DEF GenerateTokens
  <2> QED
    BY <2>1, <2>2 DEF Tokens
<1>3. ASSUME NEW t \in Tokens, NEW amount \in Amounts, NEW owner \in Accounts,
             DestroyTokens(t, owner, amount)
      PROVE  [Ledger!LedgerNext]_Ledger!ledgerVars
  <2>1. CASE t = "origin"
    BY <1>3, <2>1, DestroyIsDestroy
  <2>2. CASE t = "clone"
    BY <1>0, <1>3, <2>2, CloneIsStutter DEF DestroyTokens
  <2> QED
    BY <2>1, <2>2 DEF Tokens
<1>4. ASSUME NEW t \in Tokens, CreateSnapshot(t)
      PROVE  [Ledger!LedgerNext]_Ledger!ledgerVars
  <2>1. CASE t = "origin"
    <3>1. Origin'.values = Origin.values
      BY <1>4, <2>1, SoundTypes DEF CreateSnapshot, Become, Origin, TokenInv, Tokens, TokenRecords
    <3> QED
      BY <1>4, <3>1, CreateSnapshotKeepsInv, LaterIsAdvance
  <2>2. CASE t = "clone"
    BY <1>0, <1>4, <2>2, CloneIsStutter DEF CreateSnapshot
  <2> QED
    BY <2>1, <2>2 DEF Tokens
<1>5. ASSUME NEW forkAt \in Forks, DeployClone(forkAt)
      PROVE  [Ledger!LedgerNext]_Ledger!ledgerVars
  BY <1>0, <1>5, CloneIsStutter DEF DeployClone
<1>6. CASE NextDay
  <2>1. Origin'.values = Origin.values
    BY <1>6 DEF NextDay, Origin
  <2> QED
    BY <1>6, <2>1, NextDayKeepsInv, LaterIsAdvance
<1>7. CASE UNCHANGED vars
  BY <1>7, CloneIsStutter DEF vars, Origin
<1> QED
  BY <1>1, <1>2, <1>3, <1>4, <1>5, <1>6, <1>7 DEF Next

\* A token without a parent implements the ledger with a sealed past: every write, every new
\* snapshot and every new day is a step of VersionedLedger or changes nothing it shows.
THEOREM TokenIsLedger == Spec => ImplementsLedger
<1>1. TokenInv /\ [Next]_vars => [Ledger!LedgerNext]_Ledger!ledgerVars
  BY StepOfLedger
<1>2. Spec => Ledger!LedgerSpec
  BY <1>1, InitIsLedgerInit, TokenInvHolds, PTL DEF Spec, Ledger!LedgerSpec
<1> QED
  BY <1>2 DEF ImplementsLedger

-----------------------------------------------------------------------------
(* The search of a history *)

\* The entries of a series.
LEMMA EntryTypes ==
    ASSUME NEW history \in Seq(Entries), NEW j \in 1 .. Len(history)
    PROVE  history[j].snapshotId \in Nat /\ history[j].value \in Nat
<1>1. history[j] \in Entries
  OBVIOUS
<1> QED
  BY <1>1 DEF Entries

\* The entry valid at a snapshot is unique, so GetValueAt is its value.
LEMMA EntryIsUnique ==
    ASSUME NEW history \in Seq(Entries), NEW s \in Nat,
           \A i, j \in 1 .. Len(history) : i < j => history[i].snapshotId < history[j].snapshotId,
           NEW i \in 1 .. Len(history), IsEntryAt(history, s, i)
    PROVE  GetValueAt(history, s) = history[i].value
<1> DEFINE c == CHOOSE j \in 1 .. Len(history) : IsEntryAt(history, s, j)
<1>1. c \in 1 .. Len(history) /\ IsEntryAt(history, s, c)
  OBVIOUS
<1>2. \A j \in 1 .. Len(history) : history[j].snapshotId \in Nat
  BY EntryTypes
<1>3. c = i
  <2>1. \A j, k \in 1 .. Len(history) : IsEntryAt(history, s, j) /\ IsEntryAt(history, s, k) => ~(j < k)
    BY <1>2 DEF IsEntryAt
  <2> QED
    BY <1>1, <2>1
<1> QED
  BY <1>3 DEF GetValueAt

\* The search keeps the entry it looks for between min and max.
Bracketed ==
    Searching =>
       /\ min \in 1 .. Len(values) /\ max \in 1 .. Len(values)
       /\ min <= max
       /\ values[min].snapshotId <= snapshotId
       /\ max < Len(values) => values[max + 1].snapshotId > snapshotId

SearchInv ==
    /\ IsHistory(values, LatestSnapshot)
    /\ snapshotId \in Nat
    /\ outcome = "pending" => Bracketed
    /\ FindsValue

\* The whole history brackets the entry.
LEMMA InitSearchInv == SearchInit => SearchInv
<1> SUFFICES ASSUME SearchInit PROVE SearchInv
  OBVIOUS
<1>1. IsHistory(values, LatestSnapshot) /\ snapshotId \in Nat
  BY SearchAssumption DEF SearchInit
<1>2. Searching => Len(values) \in Nat /\ Len(values) > 0 /\ values[1].snapshotId <= snapshotId
  BY <1>1 DEF Searching, HasValueAt, IsHistory
<1> QED
  BY <1>1, <1>2 DEF SearchInit, SearchInv, Bracketed, FindsValue

\* In a sorted history everything after an entry that is too young is too young.
LEMMA AllLaterAreYounger ==
    ASSUME NEW history, NEW current, IsHistory(history, current), NEW s \in Nat,
           NEW k \in 1 .. Len(history), history[k].snapshotId > s
    PROVE  \A j \in k .. Len(history) : history[j].snapshotId > s
<1>1. \A j \in 1 .. Len(history) : history[j].snapshotId \in Nat
  BY EntryTypes DEF IsHistory
<1> QED
  BY <1>1 DEF IsHistory

\* Every iteration keeps it bracketed, and the end finds it.
LEMMA NextSearchInv == SearchInv /\ [SearchNext]_searchVars => SearchInv'
<1> SUFFICES ASSUME SearchInv, [SearchNext]_searchVars PROVE SearchInv'
  OBVIOUS
<1> USE DEF SearchInv
<1>t. /\ values \in Seq(Entries) /\ Len(values) \in Nat /\ snapshotId \in Nat
      /\ \A j \in 1 .. Len(values) : values[j].snapshotId \in Nat
      /\ \A i, j \in 1 .. Len(values) : i < j => values[i].snapshotId < values[j].snapshotId
  BY EntryTypes DEF IsHistory
<1>1. CASE ReturnDefault
  BY <1>1 DEF ReturnDefault, FindsValue, HasValueAt
<1>2. CASE ReturnLast
  <2>1. Len(values) \in 1 .. Len(values) /\ IsEntryAt(values, snapshotId, Len(values))
    BY <1>2, <1>t DEF ReturnLast, HasValueAt, IsEntryAt
  <2>2. GetValueAt(values, snapshotId) = values[Len(values)].value
    BY <1>t, <2>1, EntryIsUnique
  <2> QED
    BY <1>2, <2>2 DEF ReturnLast, Return, FindsValue
<1>3. CASE Halve
  <2>1. Bracketed /\ Searching /\ max > min
    BY <1>3 DEF Halve, Searching
  <2>2. Middle \in min + 1 .. max
    BY <2>1, <1>t DEF Bracketed, Middle
  <2>3. values[Middle].snapshotId \in Nat /\ Middle \in 1 .. Len(values)
    BY <2>1, <2>2, <1>t DEF Bracketed
  <2>4. Bracketed'
    BY <1>3, <2>1, <2>2, <2>3, <1>t DEF Bracketed, Halve, Searching
  <2> QED
    BY <1>3, <2>4 DEF Halve, FindsValue
<1>4. CASE Found
  <2>1. Bracketed /\ min = max /\ Searching
    BY <1>4, <1>t DEF Found, Bracketed, Searching
  <2>2. min \in 1 .. Len(values) /\ values[min].snapshotId <= snapshotId
    BY <2>1 DEF Bracketed
  <2>3. max < Len(values)
    BY <2>1, <1>t DEF Bracketed, Searching
  <2>4. max + 1 \in 1 .. Len(values) /\ values[max + 1].snapshotId > snapshotId
    BY <2>1, <2>3, <1>t DEF Bracketed
  <2>5. \A j \in max + 1 .. Len(values) : values[j].snapshotId > snapshotId
    BY <2>4, <1>t, AllLaterAreYounger
  <2>6. IsEntryAt(values, snapshotId, min)
    BY <2>1, <2>2, <2>5 DEF IsEntryAt
  <2>7. GetValueAt(values, snapshotId) = values[min].value
    BY <1>t, <2>2, <2>6, EntryIsUnique
  <2> QED
    BY <1>4, <2>1, <2>7 DEF Found, Return, FindsValue, Searching
<1>5. CASE UNCHANGED searchVars
  BY <1>5 DEF searchVars, Bracketed, Searching, FindsValue
<1> QED
  BY <1>1, <1>2, <1>3, <1>4, <1>5 DEF SearchNext

\* getValueAt returns the value valid at the snapshot, in every history.
THEOREM SearchIsCorrect == SearchSpec => []FindsValue
<1>1. SearchInit => SearchInv
  BY InitSearchInv
<1>2. SearchInv /\ [SearchNext]_searchVars => SearchInv'
  BY NextSearchInv
<1>3. SearchInv => FindsValue
  BY DEF SearchInv
<1> QED
  BY <1>1, <1>2, <1>3, PTL DEF SearchSpec

=============================================================================
