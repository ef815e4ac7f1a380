--------------------------- MODULE DhcpTableProofs ---------------------------
(***************************************************************************)
(* Proofs about DhcpTable, for every page, every number of matches and     *)
(* every largest int: first what the table lists, where only counts which  *)
(* text a column has last; then what a text is after unescaping, and what  *)
(* search() finds.  Those two are loops over data, proved by induction on  *)
(* the positions.                                                          *)
(***************************************************************************)
EXTENDS DhcpTable, Induction, TLAPS

-----------------------------------------------------------------------------
(* The inductive invariant *)

\* A row has the last text of each of its columns.
HasColumns(i, row) ==
  /\ DOMAIN row = {"macAddress", "ipAddress", "name"}
  /\ Column("MACAddr", i, row.macAddress)
  /\ Column("IPAddr", i, row.ipAddress)
  /\ NameColumn(i, row.name)

\* Of a row that is not in the map the page has not said a thing.
NotMentioned(i) == \A n \in DOMAIN seen, key \in Keys : ~IsOf(n, key, i)

\* The first loop: the map is what the matches so far say.
Scanned ==
  /\ \A i \in DOMAIN deviceMap : HasColumns(i, deviceMap[i])
  /\ \A i \in Nat \ DOMAIN deviceMap : NotMentioned(i)

\* The second loop: the complete rows it has passed, in order.
Copied ==
  /\ devices \in Seq({deviceMap[i] : i \in DOMAIN deviceMap})
  /\ Len(devices) = Len(listed)
  /\ \A k \in 1..Len(listed) :
       /\ listed[k] \in DOMAIN deviceMap \ left
       /\ Complete(deviceMap[listed[k]])
       /\ devices[k] = deviceMap[listed[k]]
       /\ \A j \in left : listed[k] < j
       /\ \A j \in 1..k - 1 : listed[j] < listed[k]
  /\ \A i \in DOMAIN deviceMap \ left :
       Complete(deviceMap[i]) => \E k \in 1..Len(listed) : listed[k] = i

Types ==
  /\ pc \in {"scan", "copy", "done", "aborted"}
  /\ seen \in Seq(Match)
  /\ DOMAIN deviceMap \subseteq 0..MaxInt
  /\ left \subseteq DOMAIN deviceMap
  /\ listed \in Seq(0..MaxInt)

IInv ==
  /\ Types
  /\ pc # "aborted" => Scanned
  /\ pc = "scan" => left = {} /\ listed = << >> /\ devices = << >>
  /\ pc \in {"copy", "done"} => Copied
  /\ pc = "done" => left = {}

-----------------------------------------------------------------------------
(* Columns *)

\* A column has one last text.
LEMMA ColumnUnique ==
  ASSUME seen \in Seq(Match), NEW key, NEW i, NEW v, NEW w, Column(key, i, v), Column(key, i, w)
  PROVE  v = w
<1>1. CASE \A n \in DOMAIN seen : ~IsOf(n, key, i)
  BY <1>1 DEF Column, IsOf
<1>2. CASE \E n \in DOMAIN seen : IsOf(n, key, i)
  <2>1. PICK a \in DOMAIN seen :
          IsOf(a, key, i) /\ (\A k \in a + 1..Len(seen) : ~IsOf(k, key, i)) /\ v = Unescape(seen[a].text)
    BY <1>2 DEF Column
  <2>2. PICK b \in DOMAIN seen :
          IsOf(b, key, i) /\ (\A k \in b + 1..Len(seen) : ~IsOf(k, key, i)) /\ w = Unescape(seen[b].text)
    BY <1>2 DEF Column
  <2>3. DOMAIN seen = 1..Len(seen) /\ Len(seen) \in Nat
    OBVIOUS
  <2>4. a = b
    <3>1. a \in Int /\ b \in Int /\ a <= Len(seen) /\ b <= Len(seen)
      BY <2>3
    <3>2. ~(a < b)
      BY <2>1, <2>2, <2>3, <3>1
    <3>3. ~(b < a)
      BY <2>1, <2>2, <2>3, <3>1
    <3> QED
      BY <3>1, <3>2, <3>3
  <2> QED
    BY <2>1, <2>2, <2>4
<1> QED
  BY <1>1, <1>2

\* The matches before the next one are where they were.
LEMMA SeenGrows ==
  ASSUME seen \in Seq(Match), NEW m \in Match, seen' = Append(seen, m)
  PROVE  /\ seen' \in Seq(Match)
         /\ Len(seen') = Len(seen) + 1 /\ Len(seen) \in Nat
         /\ DOMAIN seen = 1..Len(seen) /\ DOMAIN seen' = 1..Len(seen) + 1
         /\ seen'[Len(seen) + 1] = m
         /\ \A n \in DOMAIN seen : n \in DOMAIN seen' /\ seen'[n] = seen[n]
         /\ \A n \in DOMAIN seen' : n = Len(seen) + 1 \/ n \in DOMAIN seen
  OBVIOUS

\* IsOf() on the longer page.
LEMMA IsOfGrows ==
  ASSUME seen \in Seq(Match), NEW m \in Match, seen' = Append(seen, m), NEW key, NEW i
  PROVE  /\ \A n \in DOMAIN seen : IsOf(n, key, i)' <=> IsOf(n, key, i)
         /\ \A n \in DOMAIN seen' \ DOMAIN seen : IsOf(n, key, i)' <=> m.key = key /\ m.index = i
<1>1. ASSUME NEW n \in DOMAIN seen PROVE IsOf(n, key, i)' <=> IsOf(n, key, i)
  BY SeenGrows DEF IsOf
<1>2. ASSUME NEW n \in DOMAIN seen' \ DOMAIN seen
      PROVE  IsOf(n, key, i)' <=> m.key = key /\ m.index = i
  <2>1. seen'[n] = m
    BY SeenGrows
  <2> QED
    BY <2>1 DEF IsOf
<1> QED
  BY <1>1, <1>2

\* A match for the column is the last word on it.
LEMMA ColumnRead ==
  ASSUME seen \in Seq(Match), NEW m \in Match, seen' = Append(seen, m)
  PROVE  Column(m.key, m.index, Unescape(m.text))'
<1> DEFINE last == Len(seen')
<1>1. last \in DOMAIN seen' \ DOMAIN seen /\ seen'[last] = m /\ last = Len(seen) + 1
  BY SeenGrows
<1>2. last + 1 .. Len(seen') = {}
  BY SeenGrows
<1> QED
  BY <1>1, <1>2 DEF Column, IsOf

\* A match for another column, or for another row, leaves it.
LEMMA ColumnKept ==
  ASSUME seen \in Seq(Match), NEW m \in Match, seen' = Append(seen, m), NEW key, NEW i, NEW v,
         Column(key, i, v), m.key # key \/ m.index # i
  PROVE  Column(key, i, v)'
<1>1. \A n \in DOMAIN seen' : IsOf(n, key, i)' <=> n \in DOMAIN seen /\ IsOf(n, key, i)
  BY IsOfGrows, SeenGrows
<1>2. CASE v = << >> /\ \A n \in DOMAIN seen : ~IsOf(n, key, i)
  BY <1>1, <1>2 DEF Column
<1>3. ASSUME NEW n \in DOMAIN seen, IsOf(n, key, i), \A k \in n + 1..Len(seen) : ~IsOf(k, key, i),
             v = Unescape(seen[n].text)
      PROVE  Column(key, i, v)'
  <2>1. n \in DOMAIN seen' /\ IsOf(n, key, i)' /\ seen'[n] = seen[n]
    BY <1>1, <1>3, SeenGrows
  <2>2. ASSUME NEW k \in n + 1..Len(seen') PROVE ~IsOf(k, key, i)'
    <3>1. k \in DOMAIN seen' /\ (k \in DOMAIN seen => k \in n + 1..Len(seen))
      BY SeenGrows
    <3> QED
      BY <1>1, <1>3, <3>1
  <2> QED
    BY <1>3, <2>1, <2>2 DEF Column
<1> QED
  BY <1>2, <1>3 DEF Column

\* The same of the column that names the row.
LEMMA NameColumnRead ==
  ASSUME seen \in Seq(Match), NEW m \in Match, seen' = Append(seen, m), m.key = "HostName"
  PROVE  NameColumn(m.index, IF Unescape(m.text) = << >> THEN Unknown ELSE Unescape(m.text))'
<1>1. Column("HostName", m.index, Unescape(m.text))'
  BY ColumnRead
<1>2. CASE Unescape(m.text) # << >>
  BY <1>1, <1>2 DEF NameColumn
<1>3. CASE Unescape(m.text) = << >>
  <2>1. PICK n \in DOMAIN seen' \ DOMAIN seen : TRUE
    BY SeenGrows
  <2>2. IsOf(n, "HostName", m.index)'
    BY <2>1, IsOfGrows
  <2> QED
    BY <1>1, <1>3, <2>1, <2>2 DEF NameColumn
<1> QED
  BY <1>2, <1>3

LEMMA NameColumnKept ==
  ASSUME seen \in Seq(Match), NEW m \in Match, seen' = Append(seen, m), NEW i, NEW v,
         NameColumn(i, v), m.key # "HostName" \/ m.index # i
  PROVE  NameColumn(i, v)'
<1>1. \A n \in DOMAIN seen' : IsOf(n, "HostName", i)' <=> n \in DOMAIN seen /\ IsOf(n, "HostName", i)
  BY IsOfGrows, SeenGrows
<1>2. CASE Column("HostName", i, v) /\ (v = << >> => \A n \in DOMAIN seen : ~IsOf(n, "HostName", i))
  <2>1. Column("HostName", i, v)'
    BY <1>2, ColumnKept
  <2> QED
    BY <1>1, <1>2, <2>1 DEF NameColumn
<1>3. CASE v = Unknown /\ Column("HostName", i, << >>) /\ \E n \in DOMAIN seen : IsOf(n, "HostName", i)
  <2>1. Column("HostName", i, << >>)'
    BY <1>3, ColumnKept
  <2>2. \E n \in DOMAIN seen' : IsOf(n, "HostName", i)'
    BY <1>1, <1>3, SeenGrows
  <2> QED
    BY <1>3, <2>1, <2>2 DEF NameColumn
<1> QED
  BY <1>2, <1>3 DEF NameColumn

\* A row the page has not mentioned has no text in any column.
LEMMA NotMentionedColumns ==
  ASSUME NEW i, NotMentioned(i)
  PROVE  HasColumns(i, NoRow)
<1>1. \A key \in Keys : Column(key, i, << >>)
  BY DEF NotMentioned, Column
<1>2. NameColumn(i, << >>)
  BY <1>1 DEF NotMentioned, NameColumn, Keys
<1> QED
  BY <1>1, <1>2 DEF HasColumns, NoRow, Keys

\* With() puts the text of a match where HasColumns() wants it.
LEMMA WithColumns ==
  ASSUME seen \in Seq(Match), NEW m \in Match, seen' = Append(seen, m), m.key \in Keys,
         NEW row, HasColumns(m.index, row), NEW new, new = With(row, m)
  PROVE  HasColumns(m.index, new)'
<1> DEFINE i == m.index
           text == Unescape(m.text)
           name == IF text = << >> THEN Unknown ELSE text
<1>1. DOMAIN row = {"macAddress", "ipAddress", "name"}
  BY DEF HasColumns
<1>2. CASE m.key = "MACAddr"
  <2>1. /\ DOMAIN new = DOMAIN row
        /\ new.macAddress = text /\ new.ipAddress = row.ipAddress /\ new.name = row.name
    <3> HIDE DEF text
    <3>1. new = [row EXCEPT !.macAddress = text]
      BY <1>2 DEF With, text
    <3> QED
      BY <1>1, <3>1
  <2>2. Column("MACAddr", i, new.macAddress)'
    BY <1>2, <2>1, ColumnRead
  <2>3. Column("IPAddr", i, new.ipAddress)'
    BY <1>2, <2>1, ColumnKept DEF HasColumns
  <2>4. NameColumn(i, new.name)'
    BY <1>2, <2>1, NameColumnKept DEF HasColumns
  <2> QED
    BY <1>1, <2>1, <2>2, <2>3, <2>4 DEF HasColumns
<1>3. CASE m.key = "IPAddr"
  <2>1. /\ DOMAIN new = DOMAIN row
        /\ new.macAddress = row.macAddress /\ new.ipAddress = text /\ new.name = row.name
    <3> HIDE DEF text
    <3>1. new = [row EXCEPT !.ipAddress = text]
      BY <1>3 DEF With, text
    <3> QED
      BY <1>1, <3>1
  <2>2. Column("MACAddr", i, new.macAddress)'
    BY <1>3, <2>1, ColumnKept DEF HasColumns
  <2>3. Column("IPAddr", i, new.ipAddress)'
    BY <1>3, <2>1, ColumnRead
  <2>4. NameColumn(i, new.name)'
    BY <1>3, <2>1, NameColumnKept DEF HasColumns
  <2> QED
    BY <1>1, <2>1, <2>2, <2>3, <2>4 DEF HasColumns
<1>4. CASE m.key = "HostName"
  <2>1. /\ DOMAIN new = DOMAIN row
        /\ new.macAddress = row.macAddress /\ new.ipAddress = row.ipAddress /\ new.name = name
    <3> HIDE DEF name
    <3>1. new = [row EXCEPT !.name = name]
      BY <1>4 DEF With, name
    <3> QED
      BY <1>1, <3>1
  <2>2. Column("MACAddr", i, new.macAddress)'
    BY <1>4, <2>1, ColumnKept DEF HasColumns
  <2>3. Column("IPAddr", i, new.ipAddress)'
    BY <1>4, <2>1, ColumnKept DEF HasColumns
  <2>4. NameColumn(i, new.name)'
    BY <1>4, <2>1, NameColumnRead
  <2> QED
    BY <1>1, <2>1, <2>2, <2>3, <2>4 DEF HasColumns
<1> QED
  BY <1>2, <1>3, <1>4 DEF Keys

\* A match that is not about the row leaves its columns.
LEMMA ColumnsKept ==
  ASSUME seen \in Seq(Match), NEW m \in Match, seen' = Append(seen, m),
         NEW i, NEW row, HasColumns(i, row), m.key \notin Keys \/ m.index # i
  PROVE  HasColumns(i, row)'
<1>1. Column("MACAddr", i, row.macAddress)'
  BY ColumnKept DEF HasColumns, Keys
<1>2. Column("IPAddr", i, row.ipAddress)'
  BY ColumnKept DEF HasColumns, Keys
<1>3. NameColumn(i, row.name)'
  BY NameColumnKept DEF HasColumns, Keys
<1> QED
  BY <1>1, <1>2, <1>3 DEF HasColumns

LEMMA NotMentionedKept ==
  ASSUME seen \in Seq(Match), NEW m \in Match, seen' = Append(seen, m),
         NEW i, NotMentioned(i), m.key \notin Keys \/ m.index # i
  PROVE  NotMentioned(i)'
<1> SUFFICES ASSUME NEW n \in DOMAIN seen', NEW key \in Keys PROVE ~IsOf(n, key, i)'
  BY DEF NotMentioned
<1>1. CASE n \in DOMAIN seen
  BY <1>1, IsOfGrows DEF NotMentioned
<1>2. CASE n \notin DOMAIN seen
  BY <1>2, IsOfGrows
<1> QED
  BY <1>1, <1>2

-----------------------------------------------------------------------------
(* Every step keeps the invariant *)

LEMMA InitIInv == Init => IInv
<1> SUFFICES ASSUME Init PROVE IInv
  OBVIOUS
<1>1. DOMAIN deviceMap = {} /\ seen = << >> /\ DOMAIN seen = {}
  BY DEF Init
<1>2. Scanned
  BY <1>1 DEF Scanned, NotMentioned, IsOf
<1>3. Types
  BY <1>1 DEF Init, Types
<1> QED
  BY <1>2, <1>3 DEF Init, IInv

LEMMA ReadMatchIInv == ASSUME NEW m \in Match, IInv, ReadMatch(m) PROVE IInv'
<1>1. /\ pc = "scan" /\ seen \in Seq(Match) /\ seen' = Append(seen, m)
      /\ UNCHANGED <<left, listed, devices>>
      /\ left = {} /\ listed = << >> /\ devices = << >>
      /\ Types /\ Scanned
  BY DEF IInv, Types, ReadMatch
<1>2. m.index \in Nat /\ MaxInt \in Nat
  BY TableAssumption DEF AnyMatch
<1>3. CASE m.index > MaxInt
  <2>1. pc' = "aborted" /\ deviceMap' = deviceMap
    BY <1>3 DEF ReadMatch
  <2> QED
    BY <1>1, <2>1, SeenGrows DEF IInv, Types
<1>4. CASE m.index <= MaxInt /\ m.key \notin Keys
  <2>1. pc' = "scan" /\ deviceMap' = deviceMap
    BY <1>2, <1>4 DEF ReadMatch
  <2>2. Types'
    BY <1>1, <2>1, SeenGrows DEF Types
  <2>3. ASSUME NEW i \in DOMAIN deviceMap PROVE HasColumns(i, deviceMap[i])'
    <3> DEFINE row == deviceMap[i]
    <3>1. HasColumns(i, row)
      BY <1>1 DEF Scanned
    <3>2. PICK r : r = row
      OBVIOUS
    <3>3. HasColumns(i, r)'
      BY <1>1, <1>4, <3>1, <3>2, ColumnsKept
    <3> QED
      BY <2>1, <3>2, <3>3 DEF HasColumns
  <2>4. ASSUME NEW i \in Nat \ DOMAIN deviceMap PROVE NotMentioned(i)'
    BY <1>1, <1>4, NotMentionedKept DEF Scanned
  <2>5. Scanned'
    BY <2>1, <2>3, <2>4 DEF Scanned
  <2> QED
    BY <1>1, <2>1, <2>2, <2>5 DEF IInv
<1>5. CASE m.index <= MaxInt /\ m.key \in Keys
  <2>1. /\ pc' = "scan"
        /\ deviceMap' = [i \in DOMAIN deviceMap \cup {m.index} |->
                           IF i = m.index THEN With(RowAt(i), m) ELSE deviceMap[i]]
    BY <1>2, <1>5 DEF ReadMatch
  <2>2. Types'
    BY <1>1, <1>2, <1>5, <2>1, SeenGrows DEF Types
  <2>3. HasColumns(m.index, RowAt(m.index))
    <3>1. CASE m.index \in DOMAIN deviceMap
      BY <1>1, <3>1 DEF Scanned, RowAt
    <3>2. CASE m.index \notin DOMAIN deviceMap
      BY <1>1, <1>2, <3>2, NotMentionedColumns DEF Scanned, RowAt
    <3> QED
      BY <3>1, <3>2
  <2>4. ASSUME NEW i \in DOMAIN deviceMap' PROVE HasColumns(i, deviceMap[i])'
    <3>1. PICK r : r = deviceMap'[i]
      OBVIOUS
    <3>2. CASE i = m.index
      <4>1. PICK row : row = RowAt(m.index)
        OBVIOUS
      <4>2. r = With(row, m)
        BY <2>1, <3>1, <3>2, <4>1
      <4>3. HasColumns(i, r)'
        BY <1>1, <1>5, <2>3, <3>2, <4>1, <4>2, WithColumns
      <4> QED
        BY <3>1, <4>3 DEF HasColumns
    <3>3. CASE i # m.index
      <4>1. i \in DOMAIN deviceMap /\ r = deviceMap[i]
        BY <2>1, <3>1, <3>3
      <4>2. HasColumns(i, r)
        BY <1>1, <4>1 DEF Scanned
      <4>3. HasColumns(i, r)'
        BY <1>1, <3>3, <4>2, ColumnsKept
      <4> QED
        BY <3>1, <4>3 DEF HasColumns
    <3> QED
      BY <3>2, <3>3
  <2>5. ASSUME NEW i \in Nat \ DOMAIN deviceMap' PROVE NotMentioned(i)'
    <3>1. i \notin DOMAIN deviceMap /\ i # m.index
      BY <2>1
    <3> QED
      BY <1>1, <3>1, NotMentionedKept DEF Scanned
  <2>6. Scanned'
    BY <2>4, <2>5 DEF Scanned
  <2> QED
    BY <1>1, <2>1, <2>2, <2>6 DEF IInv
<1> QED
  BY <1>2, <1>3, <1>4, <1>5

\* Scanned is about the page and the map alone.
LEMMA ScannedStays == Scanned /\ UNCHANGED <<seen, deviceMap>> => Scanned'
<1> SUFFICES ASSUME Scanned, seen' = seen, deviceMap' = deviceMap PROVE Scanned'
  OBVIOUS
<1>1. ASSUME NEW i \in DOMAIN deviceMap PROVE HasColumns(i, deviceMap[i])'
  BY DEF Scanned, HasColumns, Column, NameColumn, IsOf
<1>2. ASSUME NEW i \in Nat \ DOMAIN deviceMap PROVE NotMentioned(i)'
  BY DEF Scanned, NotMentioned, IsOf
<1> QED
  BY <1>1, <1>2 DEF Scanned

LEMMA EndOfPageIInv == IInv /\ EndOfPage => IInv'
<1> SUFFICES ASSUME IInv, EndOfPage PROVE IInv'
  OBVIOUS
<1>1. /\ left' = DOMAIN deviceMap' /\ listed' = << >> /\ devices' = << >>
      /\ pc = "scan" /\ pc' = "copy"
      /\ UNCHANGED <<seen, deviceMap, listed>>
  BY DEF IInv, EndOfPage
<1>2. Copied'
  BY <1>1 DEF Copied
<1>3. Types'
  BY <1>1 DEF IInv, Types
<1>4. Scanned'
  BY <1>1, ScannedStays DEF IInv
<1> QED
  BY <1>1, <1>2, <1>3, <1>4 DEF IInv

LEMMA CopyRowIInv == IInv /\ CopyRow => IInv'
<1> SUFFICES ASSUME IInv, CopyRow PROVE IInv'
  OBVIOUS
<1>1. /\ pc = "copy" /\ pc' = "copy" /\ Copied /\ Scanned /\ Types
      /\ seen' = seen /\ deviceMap' = deviceMap
  BY DEF IInv, CopyRow
<1>2. PICK i \in left :
        /\ \A j \in left : i <= j
        /\ left' = left \ {i}
        /\ IF Complete(deviceMap[i])
             THEN listed' = Append(listed, i) /\ devices' = Append(devices, deviceMap[i])
             ELSE UNCHANGED <<listed, devices>>
  BY DEF CopyRow
<1> DEFINE R == {deviceMap[j] : j \in DOMAIN deviceMap}
<1>3. /\ i \in DOMAIN deviceMap /\ left \subseteq DOMAIN deviceMap
      /\ DOMAIN deviceMap \subseteq 0..MaxInt /\ MaxInt \in Nat
      /\ listed \in Seq(0..MaxInt) /\ devices \in Seq(R) /\ Len(devices) = Len(listed)
      /\ deviceMap[i] \in R
  BY <1>1, <1>2, TableAssumption DEF Types, Copied
<1>4. \A j \in left' : i < j
  BY <1>2, <1>3
<1>5. CASE Complete(deviceMap[i])
  <2>1. listed' = Append(listed, i) /\ devices' = Append(devices, deviceMap[i])
    BY <1>2, <1>5
  <2>2. /\ listed' \in Seq(0..MaxInt) /\ Len(listed') = Len(listed) + 1 /\ Len(listed) \in Nat
        /\ listed'[Len(listed) + 1] = i
        /\ \A k \in 1..Len(listed) : listed'[k] = listed[k]
    BY <1>3, <2>1
  <2>3. /\ devices' \in Seq(R) /\ Len(devices') = Len(listed')
        /\ devices'[Len(listed) + 1] = deviceMap[i]
        /\ \A k \in 1..Len(listed) : devices'[k] = devices[k]
    <3> HIDE DEF R
    <3> QED
      BY <1>3, <2>1, <2>2
  <2>4. ASSUME NEW k \in 1..Len(listed')
        PROVE  /\ listed'[k] \in DOMAIN deviceMap \ left'
               /\ Complete(deviceMap[listed'[k]])
               /\ devices'[k] = deviceMap[listed'[k]]
               /\ \A j \in left' : listed'[k] < j
               /\ \A j \in 1..k - 1 : listed'[j] < listed'[k]
    <3>1. CASE k = Len(listed) + 1
      <4>1. \A j \in 1..k - 1 : listed'[j] = listed[j] /\ listed[j] < i
        BY <1>1, <1>2, <2>2, <3>1 DEF Copied
      <4> QED
        BY <1>2, <1>3, <1>4, <1>5, <2>2, <2>3, <3>1, <4>1
    <3>2. CASE k \in 1..Len(listed)
      <4>1. /\ listed'[k] = listed[k] /\ devices'[k] = devices[k]
            /\ \A j \in 1..k - 1 : listed'[j] = listed[j]
        BY <2>2, <2>3, <3>2
      <4> QED
        BY <1>1, <1>2, <3>2, <4>1 DEF Copied
    <3> QED
      BY <2>2, <3>1, <3>2
  <2>5. ASSUME NEW j \in DOMAIN deviceMap \ left', Complete(deviceMap[j])
        PROVE  \E k \in 1..Len(listed') : listed'[k] = j
    <3>1. CASE j = i
      BY <2>2, <3>1
    <3>2. CASE j # i
      <4>1. PICK k \in 1..Len(listed) : listed[k] = j
        BY <1>1, <1>2, <2>5, <3>2 DEF Copied
      <4> QED
        BY <2>2, <4>1
    <3> QED
      BY <3>1, <3>2
  <2>6. Copied'
    BY <1>1, <2>3, <2>4, <2>5 DEF Copied, Complete
  <2>7. Types'
    BY <1>1, <1>2, <2>2 DEF Types
  <2> QED
    BY <1>1, <2>6, <2>7, ScannedStays DEF IInv
<1>6. CASE ~Complete(deviceMap[i])
  <2>1. listed' = listed /\ devices' = devices
    BY <1>2, <1>6
  <2>2. Copied'
    <3>1. \A j \in DOMAIN deviceMap \ left' : j = i \/ j \in DOMAIN deviceMap \ left
      BY <1>2
    <3> QED
      BY <1>1, <1>2, <1>6, <2>1, <3>1 DEF Copied, Complete
  <2>3. Types'
    BY <1>1, <1>2, <2>1 DEF Types
  <2> QED
    BY <1>1, <2>2, <2>3, ScannedStays DEF IInv
<1> QED
  BY <1>5, <1>6

\* Copied is about what it names alone.
LEMMA CopiedStays == Copied /\ UNCHANGED <<deviceMap, left, listed, devices>> => Copied'
  BY DEF Copied, Complete

LEMMA ReturnIInv == IInv /\ Return => IInv'
<1> SUFFICES ASSUME IInv, Return PROVE IInv'
  OBVIOUS
<1>1. /\ pc = "copy" /\ pc' = "done" /\ left = {}
      /\ UNCHANGED <<seen, deviceMap, left, listed, devices>>
  BY DEF Return
<1>2. Types'
  BY <1>1 DEF IInv, Types
<1> QED
  BY <1>1, <1>2, ScannedStays, CopiedStays DEF IInv

LEMMA NextIInv == IInv /\ [Next]_vars => IInv'
<1> SUFFICES ASSUME IInv, [Next]_vars PROVE IInv'
  OBVIOUS
<1>1. CASE UNCHANGED vars
  <2>1. Types'
    BY <1>1 DEF vars, IInv, Types
  <2> QED
    BY <1>1, <2>1, ScannedStays, CopiedStays DEF vars, IInv
<1> QED
  BY <1>1, ReadMatchIInv, EndOfPageIInv, CopyRowIInv, ReturnIInv DEF Next, Over

-----------------------------------------------------------------------------
(* What the table lists *)

\* The invariant holds in every state.
THEOREM Invariance == Spec => []IInv
<1>1. Init => IInv
  BY InitIInv
<1>2. IInv /\ [Next]_vars => IInv'
  BY NextIInv
<1> QED
  BY <1>1, <1>2, PTL DEF Spec

\* A row of the map is complete exactly if the page has both its addresses.
LEMMA LeaseIsComplete ==
  ASSUME seen \in Seq(Match), Scanned, NEW i \in DOMAIN deviceMap
  PROVE  IsLease(i) <=> Complete(deviceMap[i])
<1>1. /\ Column("MACAddr", i, deviceMap[i].macAddress)
      /\ Column("IPAddr", i, deviceMap[i].ipAddress)
  BY DEF Scanned, HasColumns
<1>2. Column("MACAddr", i, << >>) <=> deviceMap[i].macAddress = << >>
  BY <1>1, ColumnUnique
<1>3. Column("IPAddr", i, << >>) <=> deviceMap[i].ipAddress = << >>
  BY <1>1, ColumnUnique
<1> QED
  BY <1>2, <1>3 DEF IsLease, Complete

LEMMA IInvLists == IInv => ListsTheLeases
<1> SUFFICES ASSUME IInv, pc = "done" PROVE ListsTheLeases
  BY DEF ListsTheLeases
<1>1. Types /\ Scanned /\ Copied /\ left = {}
  BY DEF IInv
<1>2. /\ DOMAIN listed = 1..Len(listed) /\ DOMAIN devices = 1..Len(listed) /\ Len(listed) \in Nat
      /\ seen \in Seq(Match)
  BY <1>1 DEF Types, Copied
<1>3. ASSUME NEW n \in DOMAIN seen, IsLease(seen[n].index)
      PROVE  seen[n].index \in Range(listed)
  <2> DEFINE i == seen[n].index
  <2>1. seen[n] \in Match
    BY <1>2
  <2>2. i \in Nat
    BY <2>1, TableAssumption DEF AnyMatch
  <2>3. i \in DOMAIN deviceMap
    <3>1. SUFFICES ASSUME i \notin DOMAIN deviceMap PROVE FALSE
      OBVIOUS
    <3>2. NotMentioned(i)
      BY <1>1, <2>2, <3>1 DEF Scanned
    <3>3. Column("MACAddr", i, << >>)
      BY <3>2 DEF NotMentioned, Column, Keys
    <3> QED
      BY <1>3, <3>3 DEF IsLease
  <2>4. Complete(deviceMap[i])
    BY <1>1, <1>2, <1>3, <2>3, LeaseIsComplete
  <2>5. PICK k \in 1..Len(listed) : listed[k] = i
    BY <1>1, <2>3, <2>4 DEF Copied
  <2> QED
    BY <1>2, <2>5 DEF Range
<1>4. ASSUME NEW j \in DOMAIN listed, NEW k \in DOMAIN listed, j < k
      PROVE  listed[j] < listed[k]
  <2>1. j \in 1..k - 1
    BY <1>2, <1>4
  <2> QED
    BY <1>1, <1>2, <2>1 DEF Copied
<1>5. ASSUME NEW k \in DOMAIN listed
      PROVE  /\ IsLease(listed[k])
             /\ Column("MACAddr", listed[k], devices[k].macAddress)
             /\ Column("IPAddr", listed[k], devices[k].ipAddress)
             /\ NameColumn(listed[k], devices[k].name)
  <2>1. /\ listed[k] \in DOMAIN deviceMap /\ devices[k] = deviceMap[listed[k]]
        /\ Complete(deviceMap[listed[k]])
    BY <1>1, <1>2 DEF Copied
  <2> QED
    BY <1>1, <1>2, <2>1, LeaseIsComplete DEF Scanned, HasColumns
<1> QED
  BY <1>2, <1>3, <1>4, <1>5 DEF ListsTheLeases

\* The table lists the page's leases, each once, in the order of their
\* numbers, with the last text of each column, for every page.
THEOREM LeasesListed == Spec => []ListsTheLeases
  BY IInvLists, Invariance, PTL

-----------------------------------------------------------------------------
(* unescapeZteStr() *)

\* A digit stands for less than 16.
LEMMA NibbleRange ==
  ASSUME NEW c \in Hex
  PROVE  Nibble(c) \in 0..15
BY DEF Hex, Nibble, Digit, Upper

\* What two characters of an escape stand for is a char, or std::stoi throws.
LEMMA StoiHexRange ==
  ASSUME NEW a \in Char, NEW b \in Char
  PROVE  StoiHex(a, b) = -1 \/ StoiHex(a, b) \in Char
<1>1. CASE a \in Hex /\ b \in Hex
  <2>1. StoiHex(a, b) = 16 * Nibble(a) + Nibble(b)
    <3>1. a \notin Blank \cup {43} /\ a # 45
      BY <1>1 DEF Hex, Digit, Blank
    <3> QED
      BY <1>1, <3>1 DEF StoiHex
  <2>2. Nibble(a) \in 0..15 /\ Nibble(b) \in 0..15
    BY <1>1, NibbleRange
  <2> HIDE DEF Nibble
  <2> QED
    BY <2>1, <2>2 DEF Char
<1>2. CASE a \in Hex /\ b \notin Hex
  <2>1. StoiHex(a, b) = Nibble(a)
    BY <1>2 DEF StoiHex
  <2>2. Nibble(a) \in 0..15
    BY <1>2, NibbleRange
  <2> QED
    BY <2>1, <2>2 DEF Char
<1>3. CASE a \notin Hex /\ b \in Hex
  <2>1. StoiHex(a, b) \in {Nibble(b), (256 - Nibble(b)) % 256, -1}
    BY <1>3 DEF StoiHex
  <2>2. Nibble(b) \in 0..15
    BY <1>3, NibbleRange
  <2>3. (256 - Nibble(b)) % 256 \in 0..255
    BY <2>2
  <2> QED
    BY <2>1, <2>2, <2>3 DEF Char
<1>4. CASE a \notin Hex /\ b \notin Hex
  BY <1>4 DEF StoiHex
<1> QED
  BY <1>1, <1>2, <1>3, <1>4

\* One step of the loop, f being what it makes of the rest.
UnescapeAt(s, f, i) ==
  IF i > Len(s) THEN << >>
  ELSE IF IsEscape(s, i) THEN << StoiHex(s[i + 2], s[i + 3]) >> \o f[i + 4]
  ELSE << s[i] >> \o f[i + 1]

\* f is what the loop makes of the rest of s, at each position.
Unescaped(s, f) == f = [i \in 1..Len(s) + 1 |-> UnescapeAt(s, f, i)]

\* The step looks at what is behind it only.
LEMMA LooksAhead ==
  ASSUME NEW s \in Str, NEW i \in 1..Len(s) + 1, NEW f, NEW g,
         \A j \in i + 1..Len(s) + 1 : f[j] = g[j]
  PROVE  UnescapeAt(s, f, i) = UnescapeAt(s, g, i)
<1>1. Len(s) \in Nat
  BY DEF Str
<1>2. CASE i > Len(s)
  BY <1>2 DEF UnescapeAt
<1>3. CASE i <= Len(s) /\ IsEscape(s, i)
  <2>1. i + 3 <= Len(s)
    BY <1>3 DEF IsEscape
  <2>2. i + 4 \in i + 1..Len(s) + 1
    BY <1>1, <2>1
  <2> QED
    BY <1>1, <1>3, <2>2 DEF UnescapeAt
<1>4. CASE i <= Len(s) /\ ~IsEscape(s, i)
  <2>1. i + 1 \in i + 1..Len(s) + 1
    BY <1>1, <1>4
  <2> QED
    BY <1>1, <1>4, <2>1 DEF UnescapeAt
<1> QED
  BY <1>1, <1>2, <1>3, <1>4

\* The loop makes something of every text.
LEMMA UnescapedExists ==
  ASSUME NEW s \in Str
  PROVE  \E f : Unescaped(s, f)
<1> DEFINE n == Len(s)
           Done(f, k) == \A i \in n + 1 - k..n + 1 : f[i] = UnescapeAt(s, f, i)
           S == {k \in Nat : k <= n => \E f : DOMAIN f = 1..n + 1 /\ f = [i \in 1..n + 1 |-> f[i]] /\ Done(f, k)}
<1>0. n \in Nat
  BY DEF Str
<1>1. 0 \in S
  <2> DEFINE f == [i \in 1..n + 1 |-> << >>]
  <2>1. UnescapeAt(s, f, n + 1) = << >>
    BY <1>0 DEF UnescapeAt
  <2>2. \A i \in n + 1 - 0..n + 1 : i = n + 1
    BY <1>0
  <2>3. f[n + 1] = << >>
    BY <1>0
  <2>4. Done(f, 0)
    BY <2>1, <2>2, <2>3
  <2> QED
    BY <2>4
<1>2. ASSUME NEW k \in Nat, k \in S PROVE k + 1 \in S
  <2> SUFFICES ASSUME k + 1 <= n
               PROVE  \E f : DOMAIN f = 1..n + 1 /\ f = [i \in 1..n + 1 |-> f[i]] /\ Done(f, k + 1)
    OBVIOUS
  <2>1. PICK f : DOMAIN f = 1..n + 1 /\ f = [i \in 1..n + 1 |-> f[i]] /\ Done(f, k)
    BY <1>0, <1>2
  <2> DEFINE g == [i \in 1..n + 1 |-> IF i = n - k THEN UnescapeAt(s, f, i) ELSE f[i]]
  <2>2. ASSUME NEW i \in n + 1 - (k + 1)..n + 1 PROVE g[i] = UnescapeAt(s, g, i)
    <3>1. i \in 1..n + 1 /\ i \in Nat /\ n - k \in Nat /\ i >= n - k
      BY <1>0, <1>2
    <3>2. \A j \in i + 1..n + 1 : g[j] = f[j]
      BY <1>0, <3>1
    <3>3. UnescapeAt(s, g, i) = UnescapeAt(s, f, i)
      <4> HIDE DEF g
      <4> QED
        BY <3>1, <3>2, LooksAhead
    <3>4. CASE i = n - k
      BY <3>1, <3>3, <3>4
    <3>5. CASE i # n - k
      <4>1. i \in n + 1 - k..n + 1
        BY <1>0, <1>2, <3>1, <3>5
      <4>2. f[i] = UnescapeAt(s, f, i)
        BY <2>1, <4>1
      <4> QED
        BY <3>1, <3>3, <3>5, <4>2
    <3> QED
      BY <3>4, <3>5
  <2>3. DOMAIN g = 1..n + 1 /\ g = [i \in 1..n + 1 |-> g[i]]
    OBVIOUS
  <2>4. Done(g, k + 1)
    BY <2>2
  <2> HIDE DEF g, Done
  <2> QED
    BY <2>3, <2>4
<1>3. n \in S
  <2> HIDE DEF S
  <2> QED
    BY <1>0, <1>1, <1>2, NatSetInduction
<1>4. PICK f : DOMAIN f = 1..n + 1 /\ f = [i \in 1..n + 1 |-> f[i]] /\ Done(f, n)
  BY <1>0, <1>3
<1>5. \A i \in 1..n + 1 : f[i] = UnescapeAt(s, f, i)
  BY <1>0, <1>4
<1>6. [i \in 1..n + 1 |-> f[i]] = [i \in 1..n + 1 |-> UnescapeAt(s, f, i)]
  BY <1>5
<1> QED
  BY <1>4, <1>6 DEF Unescaped

\* What it computes, position by position.
LEMMA UnescapedStep ==
  ASSUME NEW s \in Str, NEW f, Unescaped(s, f)
  PROVE  /\ f[Len(s) + 1] = << >>
         /\ \A i \in 1..Len(s) :
              /\ IsEscape(s, i) => f[i] = << StoiHex(s[i + 2], s[i + 3]) >> \o f[i + 4]
              /\ ~IsEscape(s, i) => f[i] = << s[i] >> \o f[i + 1]
<1>0. Len(s) \in Nat
  BY DEF Str
<1>1. \A i \in 1..Len(s) + 1 : f[i] = UnescapeAt(s, f, i)
  BY DEF Unescaped
<1>2. f[Len(s) + 1] = << >>
  <2>1. UnescapeAt(s, f, Len(s) + 1) = << >>
    BY <1>0 DEF UnescapeAt
  <2>2. Len(s) + 1 \in 1..Len(s) + 1
    BY <1>0
  <2> QED
    BY <1>1, <2>1, <2>2
<1>3. ASSUME NEW i \in 1..Len(s)
      PROVE  /\ IsEscape(s, i) => f[i] = << StoiHex(s[i + 2], s[i + 3]) >> \o f[i + 4]
             /\ ~IsEscape(s, i) => f[i] = << s[i] >> \o f[i + 1]
  <2>1. i \in 1..Len(s) + 1 /\ ~(i > Len(s))
    BY <1>0
  <2>2. f[i] = UnescapeAt(s, f, i)
    BY <1>1, <2>1
  <2> QED
    BY <2>1, <2>2 DEF UnescapeAt
<1> QED
  BY <1>2, <1>3

\* The loop leaves characters.
LEMMA UnescapedTyped ==
  ASSUME NEW s \in Str, NEW f, Unescaped(s, f)
  PROVE  \A i \in 1..Len(s) + 1 : f[i] \in Str
<1> DEFINE n == Len(s)
           S == {k \in Nat : k <= n => \A i \in n + 1 - k..n + 1 : f[i] \in Str}
<1>0. n \in Nat /\ \A i \in 1..n : s[i] \in Char
  BY DEF Str
<1>2. 0 \in S
  <2>1. f[n + 1] \in Str
    <3>1. f[n + 1] = << >>
      BY UnescapedStep
    <3> QED
      BY <3>1 DEF Str
  <2>2. \A i \in n + 1 - 0..n + 1 : i = n + 1
    BY <1>0
  <2>3. \A i \in n + 1 - 0..n + 1 : f[i] \in Str
    BY <2>1, <2>2
  <2> QED
    BY <2>3
<1>3. ASSUME NEW k \in Nat, k \in S PROVE k + 1 \in S
  <2> SUFFICES ASSUME k + 1 <= n, NEW i \in n + 1 - (k + 1)..n + 1 PROVE f[i] \in Str
    OBVIOUS
  <2>1. i \in 1..n + 1 /\ n - k \in 1..n
    BY <1>0, <1>3
  <2>2. \A j \in n + 1 - k..n + 1 : f[j] \in Str
    BY <1>0, <1>3
  <2>3. CASE i # n - k
    <3>1. i \in n + 1 - k..n + 1
      BY <1>0, <2>1, <2>3
    <3> QED
      BY <2>2, <3>1
  <2>4. CASE i = n - k /\ IsEscape(s, i)
    <3>1. i + 3 <= n /\ StoiHex(s[i + 2], s[i + 3]) # -1
      BY <2>4 DEF IsEscape
    <3>2. i + 2 \in 1..n /\ i + 3 \in 1..n /\ i + 4 \in n + 1 - k..n + 1
      BY <1>0, <2>1, <2>4, <3>1
    <3>3. StoiHex(s[i + 2], s[i + 3]) \in Char
      BY <1>0, <3>1, <3>2, StoiHexRange
    <3>4. f[i + 4] \in Str
      BY <2>2, <3>2
    <3>5. f[i] = << StoiHex(s[i + 2], s[i + 3]) >> \o f[i + 4]
      BY <2>1, <2>4, UnescapedStep
    <3> QED
      BY <3>3, <3>4, <3>5 DEF Str
  <2>5. CASE i = n - k /\ ~IsEscape(s, i)
    <3>1. i + 1 \in n + 1 - k..n + 1 /\ s[i] \in Char
      BY <1>0, <2>1, <2>5
    <3>2. f[i + 1] \in Str
      BY <2>2, <3>1
    <3>3. f[i] = << s[i] >> \o f[i + 1]
      BY <2>1, <2>5, UnescapedStep
    <3> QED
      BY <3>1, <3>2, <3>3 DEF Str
  <2> QED
    BY <2>3, <2>4, <2>5
<1>4. n \in S
  <2> HIDE DEF S
  <2> QED
    BY <1>0, <1>2, <1>3, NatSetInduction
<1> QED
  BY <1>0, <1>4

\* unescapeZteStr() is what the loop makes of the whole.
LEMMA UnescapeIs ==
  ASSUME NEW s \in Str
  PROVE  \E f : Unescaped(s, f) /\ Unescape(s) = f[1]
<1> DEFINE g == CHOOSE f : Unescaped(s, f)
<1>1. Unescaped(s, g)
  BY UnescapedExists
<1>2. Unescape(s) = g[1]
  BY DEF Unescape, Unescaped, UnescapeAt
<1> QED
  BY <1>1, <1>2

\* And so does unescapeZteStr().
LEMMA UnescapeTyped == \A s \in Str : Unescape(s) \in Str
<1> SUFFICES ASSUME NEW s \in Str PROVE Unescape(s) \in Str
  OBVIOUS
<1>1. 1 \in 1..Len(s) + 1
  BY DEF Str
<1> QED
  BY <1>1, UnescapeIs, UnescapedTyped

-----------------------------------------------------------------------------
(* What the router has written is read as it was *)

\* The parts here are the router's way to write each character.
LEMMA WrittenIs ==
  ASSUME NEW c \in Char
  PROVE  /\ Written(c) \in Seq(Char)
         /\ c \in Digit \cup Upper \cup 97..122 => Written(c) = << c >> /\ c # 92
         /\ c \notin Digit \cup Upper \cup 97..122 =>
              /\ Len(Written(c)) = 4 /\ Written(c)[1] = 92 /\ Written(c)[2] = 120
              /\ StoiHex(Written(c)[3], Written(c)[4]) = c
<1> DEFINE a == HexDigit(c \div 16)
           b == HexDigit(c % 16)
<1>1. c \in Int /\ c \div 16 \in 0..15 /\ c % 16 \in 0..15 /\ c = 16 * (c \div 16) + (c % 16)
  BY DEF Char
<1>2. \A n \in 0..15 : HexDigit(n) \in Hex /\ HexDigit(n) \in Char /\ Nibble(HexDigit(n)) = n
  BY DEF HexDigit, Hex, Digit, Upper, Char, Nibble
<1>3. a \in Hex /\ b \in Hex /\ a \in Char /\ b \in Char /\ Nibble(a) = c \div 16 /\ Nibble(b) = c % 16
  BY <1>1, <1>2
<1>4. StoiHex(a, b) = c
  <2>1. a \notin Blank \cup {43} /\ a # 45
    BY <1>3 DEF Hex, Digit, Blank
  <2>2. StoiHex(a, b) = 16 * Nibble(a) + Nibble(b)
    BY <1>3, <2>1 DEF StoiHex
  <2> QED
    BY <1>1, <1>3, <2>2
<1> HIDE DEF a, b
<1>5. CASE c \in Digit \cup Upper \cup 97..122
  <2>1. Written(c) = << c >> /\ c # 92
    BY <1>5 DEF Written, Digit, Upper
  <2> QED
    BY <1>5, <2>1
<1>6. CASE c \notin Digit \cup Upper \cup 97..122
  <2>1. Written(c) = <<92, 120, a, b>>
    BY <1>6 DEF Written, a, b
  <2>2. <<92, 120, a, b>> \in Seq(Char)
    BY <1>3 DEF Char
  <2> QED
    BY <1>4, <1>6, <2>1, <2>2
<1> QED
  BY <1>5, <1>6

\* What the router has written comes back, from the end of each character on.
LEMMA UnescapeWritten ==
  ASSUME NEW s \in Str, s # << >>
  PROVE  Unescape(WrittenText(s)) = s
<1> DEFINE n == Len(s)
           p == [i \in 1..n |-> Written(s[i])]
<1>1. n \in Nat /\ n # 0 /\ s \in Seq(Char) /\ \A i \in 1..n : s[i] \in Char
  BY DEF Str
<1>2. p \in [1..n -> Seq(Char)]
  BY <1>1, WrittenIs
<1>3. PICK F : Joined(Char, p, F, n)
  <2> HIDE DEF n, p
  <2> QED
    BY <1>1, <1>2, JoinedExists
<1> DEFINE w == WrittenText(s)
<1>4. w = F[n]
  <2>1. w = FlattenSeq(p)
    BY DEF WrittenText
  <2>2. FlattenSeq(p) = F[n]
    <3> HIDE DEF n, p
    <3> QED
      BY <1>1, <1>2, <1>3, FlattenIs
  <2> QED
    BY <2>1, <2>2
<1>5. \A i \in 1..n : p[i] = Written(s[i])
  OBVIOUS
<1> DEFINE end(k) == Len(F[k])
<1> HIDE DEF n, p, w
<1>6. w \in Str
  <2>1. n \in 0..n
    BY <1>1
  <2> QED
    BY <1>3, <1>4, <2>1 DEF Joined, Str
<1>7. PICK f : Unescaped(w, f) /\ Unescape(w) = f[1]
  BY <1>6, UnescapeIs
<1>8. ASSUME NEW k \in 0..n - 1, f[end(k + 1) + 1] = SubSeq(s, k + 2, n)
      PROVE  f[end(k) + 1] = << s[k + 1] >> \o SubSeq(s, k + 2, n)
  <2> DEFINE c == s[k + 1]
             i == end(k) + 1
             q == p[k + 1]
  <2>1. k + 1 \in 1..n
    BY <1>1
  <2>2. c \in Char /\ q = Written(c)
    BY <1>1, <1>5, <2>1
  <2>3. /\ end(k) \in Nat /\ Len(q) \in Nat /\ Len(w) \in Nat
        /\ end(k + 1) = end(k) + Len(q)
        /\ end(k + 1) <= Len(w)
        /\ \A j \in 1..Len(q) : w[end(k) + j] = q[j]
    <3>1. n \in Nat
      BY <1>1
    <3>2. PartAt(p, F, n, k)
      BY ONLY <3>1, <1>2, <1>3, k \in 0..n - 1, PartsOf
    <3> QED
      BY <1>4, <3>2 DEF PartAt
  <2> HIDE DEF end, q, c
  <2>4. CASE c \in Digit \cup Upper \cup 97..122
    <3>1. q = << c >> /\ c # 92
      BY <2>2, <2>4, WrittenIs
    <3>2. Len(q) = 1 /\ q[1] = c
      BY <3>1
    <3>3. w[i] = c /\ end(k + 1) = i /\ i \in 1..Len(w)
      BY <2>3, <3>2
    <3>4. ~IsEscape(w, i)
      BY <3>1, <3>3 DEF IsEscape
    <3> HIDE DEF i
    <3>5. f[i] = << w[i] >> \o f[i + 1]
      BY <1>6, <1>7, <3>3, <3>4, UnescapedStep
    <3>6. f[i] = << c >> \o SubSeq(s, k + 2, n)
      BY <1>8, <3>3, <3>5
    <3> QED
      BY <3>6 DEF i, c
  <2>5. CASE c \notin Digit \cup Upper \cup 97..122
    <3>1. Len(q) = 4 /\ q[1] = 92 /\ q[2] = 120 /\ StoiHex(q[3], q[4]) = c
      <4>1. /\ Len(Written(c)) = 4 /\ Written(c)[1] = 92 /\ Written(c)[2] = 120
            /\ StoiHex(Written(c)[3], Written(c)[4]) = c
        BY ONLY <2>2, <2>5, WrittenIs
      <4> QED
        BY ONLY <2>2, <4>1
    <3>2. /\ w[end(k) + 1] = q[1] /\ w[end(k) + 2] = q[2]
          /\ w[end(k) + 3] = q[3] /\ w[end(k) + 4] = q[4]
      BY <2>3, <3>1
    <3>3. /\ i + 1 = end(k) + 2 /\ i + 2 = end(k) + 3 /\ i + 3 = end(k) + 4
          /\ i + 3 <= Len(w) /\ i \in 1..Len(w) /\ i + 4 = end(k + 1) + 1
      <4> DEFINE e == end(k)
                 h == end(k + 1)
                 l == Len(w)
      <4>1. e \in Nat /\ l \in Nat /\ h = e + 4 /\ h <= l
        BY ONLY <2>3, <3>1
      <4> HIDE DEF e, h, l
      <4>2. /\ (e + 1) + 1 = e + 2 /\ (e + 1) + 2 = e + 3 /\ (e + 1) + 3 = e + 4
            /\ (e + 1) + 3 <= l /\ e + 1 \in 1..l /\ (e + 1) + 4 = h + 1
        BY ONLY <4>1
      <4> QED
        BY ONLY <4>2 DEF e, h, l
    <3>4. c # -1
      BY <2>2 DEF Char
    <3> HIDE DEF i
    <3>5. w[i] = 92 /\ w[i + 1] = 120 /\ StoiHex(w[i + 2], w[i + 3]) = c
      BY <3>1, <3>2, <3>3 DEF i
    <3>6. IsEscape(w, i)
      BY <3>3, <3>4, <3>5 DEF IsEscape
    <3>7. f[i] = << StoiHex(w[i + 2], w[i + 3]) >> \o f[i + 4]
      BY <1>6, <1>7, <3>3, <3>6, UnescapedStep
    <3>8. f[i] = << c >> \o SubSeq(s, k + 2, n)
      BY <1>8, <3>3, <3>5, <3>7
    <3> QED
      BY <3>8 DEF i, c
  <2> QED
    BY <2>4, <2>5
<1>9. ASSUME NEW k \in 0..n - 1
      PROVE  << s[k + 1] >> \o SubSeq(s, k + 2, n) = SubSeq(s, k + 1, n)
  <2> DEFINE t == SubSeq(s, k + 2, n)
             u == << s[k + 1] >> \o t
             v == SubSeq(s, k + 1, n)
  <2>1. k \in Nat /\ k + 1 \in 1..n /\ s[k + 1] \in Char
    BY <1>1
  <2>2. t \in Seq(Char) /\ Len(t) = n - (k + 1) /\ \A j \in 1..Len(t) : t[j] = s[k + 1 + j]
    BY <1>1, <2>1 DEF n
  <2>3. v \in Seq(Char) /\ Len(v) = n - k /\ \A j \in 1..Len(v) : v[j] = s[k + j]
    BY <1>1, <2>1 DEF n
  <2> HIDE DEF t, v
  <2>4. u \in Seq(Char) /\ Len(u) = 1 + Len(t) /\ u[1] = s[k + 1]
        /\ \A j \in 2..Len(u) : u[j] = t[j - 1]
    BY <2>1, <2>2
  <2>5. Len(u) = Len(v)
    BY <1>1, <2>1, <2>2, <2>3, <2>4
  <2>6. ASSUME NEW j \in 1..Len(u) PROVE u[j] = v[j]
    <3>1. CASE j = 1
      BY <2>1, <2>3, <2>4, <2>5, <3>1
    <3>2. CASE j # 1
      <4>1. j \in 2..Len(u) /\ j - 1 \in 1..Len(t) /\ k + 1 + (j - 1) = k + j
        BY <2>1, <2>2, <2>4, <3>2
      <4>2. u[j] = s[k + 1 + (j - 1)]
        BY <2>2, <2>4, <4>1
      <4> QED
        BY <2>3, <2>5, <4>1, <4>2
    <3> QED
      BY <3>1, <3>2
  <2> HIDE DEF u
  <2>7. u = v
    BY <2>3, <2>4, <2>5, <2>6
  <2> QED
    BY <2>7 DEF u, v, t
<1> DEFINE S == {d \in Nat : d <= n => f[end(n - d) + 1] = SubSeq(s, n - d + 1, n)}
<1>10. 0 \in S
  <2>1. f[Len(w) + 1] = << >>
    BY <1>6, <1>7, UnescapedStep
  <2>2. n - 0 = n /\ SubSeq(s, n + 1, n) = << >>
    BY <1>1
  <2>3. f[end(n - 0) + 1] = SubSeq(s, n - 0 + 1, n)
    BY <1>4, <2>1, <2>2
  <2> QED
    BY <2>3
<1>11. ASSUME NEW d \in Nat, d \in S PROVE d + 1 \in S
  <2> SUFFICES ASSUME d + 1 <= n
               PROVE  f[end(n - (d + 1)) + 1] = SubSeq(s, n - (d + 1) + 1, n)
    OBVIOUS
  <2> DEFINE k == n - (d + 1)
  <2>1. k \in 0..n - 1 /\ k + 1 = n - d /\ k + 2 = n - d + 1 /\ d <= n
    BY <1>1
  <2>2. f[end(n - d) + 1] = SubSeq(s, n - d + 1, n)
    BY <1>11, <2>1
  <2> HIDE DEF k, end
  <2>3. f[end(k + 1) + 1] = SubSeq(s, k + 2, n)
    BY <2>1, <2>2
  <2>4. f[end(k) + 1] = SubSeq(s, k + 1, n)
    BY <1>8, <1>9, <2>1, <2>3
  <2> QED
    BY <2>4 DEF k
<1>12. n \in S
  <2> HIDE DEF S
  <2> QED
    BY <1>1, <1>10, <1>11, NatSetInduction
<1>13. f[1] = s
  <2>1. n - n = 0 /\ F[0] = << >> /\ 0 + 1 = 1
    BY <1>1, <1>3 DEF Joined
  <2>2. end(0) = 0
    BY <2>1
  <2>3. f[end(n - n) + 1] = SubSeq(s, n - n + 1, n)
    BY <1>1, <1>12
  <2>4. f[1] = SubSeq(s, 1, n)
    BY <2>1, <2>2, <2>3
  <2>5. SubSeq(s, 1, n) = s
    BY <1>1 DEF n
  <2> QED
    BY <2>4, <2>5
<1> QED
  BY <1>7, <1>13 DEF w

\* A name the router has written is read as it was before.
LEMMA NamesRead == ListsTheLeases /\ seen \in Seq(Match) => NamesAreShown
<1> SUFFICES ASSUME ListsTheLeases, seen \in Seq(Match), pc = "done",
                    NEW k \in DOMAIN listed, NEW given \in Given \ {<< >>}, NEW n \in DOMAIN seen,
                    IsOf(n, "HostName", listed[k]),
                    \A j \in n + 1..Len(seen) : ~IsOf(j, "HostName", listed[k]),
                    seen[n].text = WrittenText(given)
             PROVE  devices[k].name = given
  BY DEF NamesAreShown
<1> DEFINE i == listed[k]
<1>1. given \in Str /\ given # << >>
  BY TableAssumption
<1>2. Unescape(seen[n].text) = given
  BY <1>1, UnescapeWritten
<1>3. Column("HostName", i, given)
  BY <1>2 DEF Column
<1>4. NameColumn(i, devices[k].name)
  BY DEF ListsTheLeases
<1>5. \A v : Column("HostName", i, v) => v = given
  BY <1>3, ColumnUnique
<1> QED
  BY <1>1, <1>4, <1>5 DEF NameColumn

\* A name with any characters in it, escaped by the router, is in the table
\* as the user gave it to the device.
THEOREM NamesReadBack == Spec => []NamesAreShown
<1>1. IInv => seen \in Seq(Match)
  BY DEF IInv, Types
<1> QED
  BY <1>1, NamesRead, LeasesListed, Invariance, PTL

-----------------------------------------------------------------------------
(* The types *)

\* A match puts text into a row of text.
LEMMA WithTyped ==
  ASSUME NEW row \in Row, NEW m \in Match, m.key \in Keys
  PROVE  With(row, m) \in Row
<1>1. m.text \in Str
  BY TableAssumption DEF AnyMatch
<1>2. Unescape(m.text) \in Str
  BY <1>1, UnescapeTyped
<1>3. Unknown \in Str
  BY DEF Unknown, Str, Char
<1> DEFINE T == Str
           u == Unescape(m.text)
           v == IF u = << >> THEN Unknown ELSE u
<1>4. Row = [macAddress : T, ipAddress : T, name : T] /\ u \in T /\ v \in T
  BY <1>2, <1>3 DEF Row
<1>5. /\ m.key = "MACAddr" => With(row, m) = [row EXCEPT !.macAddress = u]
      /\ m.key = "IPAddr" => With(row, m) = [row EXCEPT !.ipAddress = u]
      /\ m.key = "HostName" => With(row, m) = [row EXCEPT !.name = v]
  BY DEF With
<1> HIDE DEF T, u, v
<1> QED
  BY <1>4, <1>5 DEF Keys

\* What is in the map and in the table is text.
RowsTyped == (\A i \in DOMAIN deviceMap : deviceMap[i] \in Row) /\ devices \in Seq(Row)

\* At first there is none.
LEMMA InitTyped == Init => RowsTyped
<1> SUFFICES ASSUME Init PROVE RowsTyped
  OBVIOUS
<1>1. DOMAIN deviceMap = {}
  BY DEF Init
<1>2. devices = << >>
  BY DEF Init
<1> QED
  BY <1>1, <1>2 DEF RowsTyped

\* Every step leaves text.
LEMMA NextTyped == IInv /\ RowsTyped /\ [Next]_vars => RowsTyped'
<1> SUFFICES ASSUME IInv, RowsTyped, [Next]_vars PROVE RowsTyped'
  OBVIOUS
<1>1. ASSUME NEW m \in Match, ReadMatch(m) PROVE RowsTyped'
  <2>1. devices' = devices
    BY <1>1 DEF ReadMatch
  <2>2. CASE m.index > MaxInt \/ m.key \notin Keys
    <3>1. deviceMap' = deviceMap
      BY <1>1, <2>2 DEF ReadMatch
    <3> QED
      BY <2>1, <3>1 DEF RowsTyped
  <2>3. CASE ~(m.index > MaxInt \/ m.key \notin Keys)
    <3>1. deviceMap' = [i \in DOMAIN deviceMap \cup {m.index} |->
                          IF i = m.index THEN With(RowAt(i), m) ELSE deviceMap[i]]
      BY <1>1, <2>3 DEF ReadMatch
    <3>2. RowAt(m.index) \in Row
      <4>1. NoRow \in Row
        BY DEF NoRow, Row, Str
      <4> QED
        BY <4>1 DEF RowAt, RowsTyped
    <3>3. With(RowAt(m.index), m) \in Row
      BY <2>3, <3>2, WithTyped
    <3>4. \A i \in DOMAIN deviceMap' : deviceMap'[i] \in Row
      BY <3>1, <3>3 DEF RowsTyped
    <3> QED
      BY <2>1, <3>4 DEF RowsTyped
  <2> QED
    BY <2>2, <2>3
<1>2. CASE EndOfPage \/ Return \/ UNCHANGED vars
  BY <1>2 DEF EndOfPage, Return, vars, RowsTyped
<1>3. CASE CopyRow
  <2>1. PICK i \in left :
          \/ devices' = Append(devices, deviceMap[i])
          \/ devices' = devices
    BY <1>3 DEF CopyRow
  <2>2. i \in DOMAIN deviceMap
    BY DEF IInv, Types
  <2>3. deviceMap' = deviceMap
    BY <1>3 DEF CopyRow
  <2>4. devices' \in Seq(Row)
    BY <2>1, <2>2 DEF RowsTyped
  <2> QED
    BY <2>3, <2>4 DEF RowsTyped
<1> QED
  BY <1>1, <1>2, <1>3 DEF Next, Over

\* The rows hold text, whatever the page holds.
THEOREM TextInRows == Spec => []RowsTyped
<1>1. Init => RowsTyped
  BY InitTyped
<1>2. IInv /\ RowsTyped /\ [Next]_vars => RowsTyped'
  BY NextTyped
<1> QED
  BY <1>1, <1>2, Invariance, PTL DEF Spec

\* Every variable keeps its type, the bytes of the table among them: an escape
\* is one character, also where the page has a wrong one.
THEOREM TypeCorrect == Spec => []TypeOK
<1>1. IInv /\ RowsTyped => TypeOK
  BY DEF IInv, Types, RowsTyped, TypeOK
<1> QED
  BY <1>1, Invariance, TextInRows, PTL

-----------------------------------------------------------------------------
(* search() *)

\* What copy_if has found in the first k rows.
Finds(table, query, f) ==
  f = [k \in 0..Len(table) |->
         IF k = 0 THEN << >>
         ELSE IF Matches(table[k], query) THEN Append(f[k - 1], table[k]) ELSE f[k - 1]]

\* copy_if comes to an end.
LEMMA FindsExists ==
  ASSUME NEW table \in Seq(Row), NEW query
  PROVE  \E f : Finds(table, query, f)
<1> DEFINE n == Len(table)
           Next1(f, k) == IF Matches(table[k + 1], query) THEN Append(f[k], table[k + 1]) ELSE f[k]
           Upto(f, m) == /\ f = [k \in 0..n |-> f[k]]
                         /\ f[0] = << >>
                         /\ \A k \in 0..n : k < m => f[k + 1] = Next1(f, k)
           S == {m \in Nat : m <= n => \E f : Upto(f, m)}
<1>1. n \in Nat
  OBVIOUS
<1>2. 0 \in S
  <2> DEFINE f == [k \in 0..n |-> << >>]
  <2>1. f = [k \in 0..n |-> f[k]] /\ f[0] = << >>
    BY <1>1
  <2>2. \A k \in 0..n : ~(k < 0)
    OBVIOUS
  <2>3. Upto(f, 0)
    BY <2>1, <2>2
  <2> QED
    BY <2>3
<1>3. ASSUME NEW m \in Nat, m \in S PROVE m + 1 \in S
  <2> SUFFICES ASSUME m + 1 <= n PROVE \E f : Upto(f, m + 1)
    OBVIOUS
  <2>0. m <= n /\ m \in 0..n /\ m + 1 \in 0..n /\ m # m + 1 /\ m + 1 # 0
    BY <1>1
  <2>1. PICK f : Upto(f, m)
    BY <1>3, <2>0
  <2> DEFINE g == [k \in 0..n |-> IF k = m + 1 THEN Next1(f, m) ELSE f[k]]
  <2>2. g = [k \in 0..n |-> g[k]]
    OBVIOUS
  <2>3. g[0] = << >>
    BY <1>1, <2>0, <2>1
  <2>4. ASSUME NEW k \in 0..n, k < m + 1 PROVE g[k + 1] = Next1(g, k)
    <3>1. k # m + 1 /\ k + 1 \in 0..n /\ k <= m
      BY <1>1, <2>0, <2>4
    <3>2. g[k] = f[k]
      BY <3>1
    <3>3. Next1(g, k) = Next1(f, k)
      BY <3>2
    <3>4. CASE k = m
      BY <3>1, <3>3, <3>4
    <3>5. CASE k # m
      <4>1. k < m /\ k + 1 # m + 1
        BY <3>1, <3>5
      <4>2. f[k + 1] = Next1(f, k)
        BY <2>1, <4>1
      <4>3. g[k + 1] = f[k + 1]
        BY <3>1, <4>1
      <4> QED
        BY <3>3, <4>2, <4>3
    <3> QED
      BY <3>4, <3>5
  <2> HIDE DEF g, Next1
  <2>5. Upto(g, m + 1)
    BY <2>2, <2>3, <2>4
  <2> QED
    BY <2>5
<1>4. n \in S
  <2> HIDE DEF S
  <2> QED
    BY <1>1, <1>2, <1>3, NatSetInduction
<1>5. PICK f : Upto(f, n)
  BY <1>1, <1>4
<1>6. ASSUME NEW k \in 0..n
      PROVE  f[k] = IF k = 0 THEN << >>
                    ELSE IF Matches(table[k], query) THEN Append(f[k - 1], table[k]) ELSE f[k - 1]
  <2>1. CASE k = 0
    BY <1>5, <2>1
  <2>2. CASE k # 0
    <3> DEFINE j == k - 1
    <3>1. j \in 0..n /\ j < n /\ j + 1 = k
      BY <1>1, <2>2
    <3>2. f[j + 1] = Next1(f, j)
      BY <1>5, <3>1
    <3> HIDE DEF j
    <3>3. f[k] = IF Matches(table[k], query) THEN Append(f[j], table[k]) ELSE f[j]
      BY <3>1, <3>2
    <3> QED
      BY <2>2, <3>3 DEF j
  <2> QED
    BY <2>1, <2>2
<1>7. [k \in 0..n |-> f[k]] = [k \in 0..n |->
         IF k = 0 THEN << >>
         ELSE IF Matches(table[k], query) THEN Append(f[k - 1], table[k]) ELSE f[k - 1]]
  BY <1>6
<1>8. f = [k \in 0..n |-> f[k]]
  BY <1>5
<1>9. Finds(table, query, f)
  BY <1>7, <1>8 DEF Finds
<1> QED
  BY <1>9

\* search() passes over no row that matches.
LEMMA SearchFinds ==
  ASSUME NEW table \in Seq(Row), NEW query, NEW i \in 1..Len(table), Matches(table[i], query)
  PROVE  table[i] \in Range(Search(table, query))
<1> DEFINE n == Len(table)
           f == CHOOSE g : Finds(table, query, g)
           row == table[i]
           S == {d \in Nat : i + d <= n => f[i + d] \in Seq(Row) /\ row \in Range(f[i + d])}
           R == {k \in Nat : k <= n => f[k] \in Seq(Row)}
<1>1. n \in Nat /\ i \in Nat /\ \A k \in 1..n : table[k] \in Row
  OBVIOUS
<1>2. Search(table, query) = f[n]
  BY DEF Search, Finds
<1>3. Finds(table, query, f)
  BY FindsExists
<1> HIDE DEF f
<1>4. /\ f[0] = << >>
      /\ \A k \in 1..n : f[k] = IF Matches(table[k], query) THEN Append(f[k - 1], table[k]) ELSE f[k - 1]
  <2>1. \A k \in 0..n : f[k] = IF k = 0 THEN << >>
          ELSE IF Matches(table[k], query) THEN Append(f[k - 1], table[k]) ELSE f[k - 1]
    BY <1>3 DEF Finds
  <2> QED
    BY <1>1, <2>1
<1>5. 0 \in R
  <2>1. f[0] \in Seq(Row)
    BY <1>4
  <2> QED
    BY <2>1
<1>6. ASSUME NEW k \in Nat, k \in R PROVE k + 1 \in R
  <2> DEFINE m == k + 1
  <2> SUFFICES ASSUME m <= n PROVE f[m] \in Seq(Row)
    OBVIOUS
  <2>1. m \in 1..n /\ m - 1 = k /\ k <= n
    BY <1>1
  <2>2. f[k] \in Seq(Row)
    BY <1>6, <2>1
  <2> HIDE DEF m
  <2>3. f[m] = Append(f[k], table[m]) \/ f[m] = f[k]
    BY <1>4, <2>1
  <2>4. table[m] \in Row
    BY <1>1, <2>1
  <2>5. Append(f[k], table[m]) \in Seq(Row)
    BY ONLY <2>2, <2>4
  <2> QED
    BY <2>2, <2>3, <2>5
<1>7. \A k \in Nat : k \in R
  <2> HIDE DEF R
  <2> QED
    BY <1>5, <1>6, NatSetInduction
<1>8. \A s \in Seq(Row), x \in Row : row \in Range(s) \/ row = x => row \in Range(Append(s, x))
  <2> SUFFICES ASSUME NEW s \in Seq(Row), NEW x \in Row, row \in Range(s) \/ row = x
               PROVE  row \in Range(Append(s, x))
    OBVIOUS
  <2>1. /\ Len(s) \in Nat /\ DOMAIN s = 1..Len(s) /\ DOMAIN Append(s, x) = 1..Len(s) + 1
        /\ Append(s, x)[Len(s) + 1] = x /\ \A k \in 1..Len(s) : Append(s, x)[k] = s[k]
    OBVIOUS
  <2>2. CASE row = x
    <3>1. Len(s) + 1 \in 1..Len(s) + 1
      BY <2>1
    <3> QED
      BY <2>1, <2>2, <3>1 DEF Range
  <2>3. CASE row \in Range(s)
    <3>1. PICK k \in DOMAIN s : row = s[k]
      BY <2>3 DEF Range
    <3>2. k \in DOMAIN Append(s, x) /\ row = Append(s, x)[k]
      BY <2>1, <3>1
    <3> QED
      BY <3>2 DEF Range
  <2> QED
    BY <2>2, <2>3
<1>9. 0 \in S
  <2>1. i + 0 = i /\ i - 1 \in Nat /\ i - 1 <= n
    BY <1>1
  <2>2. f[i - 1] \in Seq(Row) /\ f[i] = Append(f[i - 1], table[i]) /\ table[i] \in Row
    BY <1>1, <1>4, <1>7, <2>1
  <2> HIDE DEF row
  <2>3. f[i] \in Seq(Row) /\ row \in Range(f[i])
    BY <1>8, <2>2 DEF row
  <2> QED
    BY <2>1, <2>3
<1>10. ASSUME NEW d \in Nat, d \in S PROVE d + 1 \in S
  <2> DEFINE m == i + d
             j == m + 1
  <2> SUFFICES ASSUME j <= n PROVE f[j] \in Seq(Row) /\ row \in Range(f[j])
    BY <1>1
  <2>1. j \in 1..n /\ j - 1 = m /\ m <= n
    BY <1>1
  <2>2. f[m] \in Seq(Row) /\ row \in Range(f[m])
    BY <1>10, <2>1
  <2>3. f[j] = Append(f[m], table[j]) \/ f[j] = f[m]
    <3> HIDE DEF j, m
    <3> QED
      BY <1>4, <2>1
  <2>4. table[j] \in Row
    BY <1>1, <2>1
  <2> HIDE DEF j, m, row
  <2>5. f[j] \in Seq(Row)
    <3>1. Append(f[m], table[j]) \in Seq(Row)
      BY ONLY <2>2, <2>4
    <3> QED
      BY <2>2, <2>3, <3>1
  <2> QED
    BY <1>8, <2>2, <2>3, <2>4, <2>5
<1>11. \A d \in Nat : d \in S
  <2> HIDE DEF S
  <2> QED
    BY <1>9, <1>10, NatSetInduction
<1> DEFINE e == n - i
<1>12. e \in Nat /\ i + e = n
  BY <1>1
<1> HIDE DEF e
<1>13. row \in Range(f[n])
  BY <1>11, <1>12
<1> QED
  BY <1>2, <1>13

\* The two conversions of a character.
Low(c) == IF c \in Upper THEN c + 32 ELSE c
Up(c)  == IF c \in 97..122 THEN c - 32 ELSE c

\* To small letters, after whatever was done to the letters before.
LEMMA LowUp ==
  ASSUME NEW c \in Char
  PROVE  Low(c) \in Char /\ Up(c) \in Char /\ Low(Up(c)) = Low(c) /\ Low(Low(c)) = Low(c)
BY DEF Low, Up, Char, Upper

\* LowerCase() and UpperCase() change each character by itself.
LEMMA CaseIs ==
  ASSUME NEW s \in Seq(Char)
  PROVE  /\ LowerCase(s) \in Seq(Char) /\ Len(LowerCase(s)) = Len(s)
         /\ \A k \in 1..Len(s) : LowerCase(s)[k] = Low(s[k])
         /\ UpperCase(s) \in Seq(Char) /\ Len(UpperCase(s)) = Len(s)
         /\ \A k \in 1..Len(s) : UpperCase(s)[k] = Up(s[k])
<1>1. DOMAIN s = 1..Len(s) /\ Len(s) \in Nat /\ \A k \in 1..Len(s) : s[k] \in Char
  OBVIOUS
<1> DEFINE n == Len(s)
           l == [k \in 1..n |-> Low(s[k])]
           u == [k \in 1..n |-> Up(s[k])]
<1>2. LowerCase(s) = l /\ UpperCase(s) = u
  BY <1>1 DEF LowerCase, UpperCase, Low, Up
<1>3. \A k \in 1..n : Low(s[k]) \in Char /\ Up(s[k]) \in Char
  BY <1>1, LowUp
<1>4. n \in Nat
  BY <1>1
<1> HIDE DEF n
<1>5. l \in Seq(Char) /\ Len(l) = n /\ \A k \in 1..n : l[k] = Low(s[k])
  BY <1>3, <1>4
<1>6. u \in Seq(Char) /\ Len(u) = n /\ \A k \in 1..n : u[k] = Up(s[k])
  BY <1>3, <1>4
<1> HIDE DEF l, u
<1> QED
  BY <1>2, <1>5, <1>6 DEF n

LEMMA PieceIs ==
  ASSUME NEW S, NEW s \in Seq(S), NEW i \in 1..Len(s), NEW j \in i..Len(s)
  PROVE  /\ SubSeq(s, i, j) \in Seq(S) /\ Len(SubSeq(s, i, j)) = j - i + 1
         /\ \A k \in 1..j - i + 1 : SubSeq(s, i, j)[k] = s[i + k - 1]
  OBVIOUS

\* A part of a text is in it, however it is typed.
LEMMA PartIsFound ==
  ASSUME NEW value \in Str, NEW i \in 1..Len(value), NEW j \in i..Len(value), NEW query,
         query \in {SubSeq(value, i, j), UpperCase(SubSeq(value, i, j)), LowerCase(SubSeq(value, i, j))}
  PROVE  ContainsIgnoreCase(value, query)
<1> DEFINE part == SubSeq(value, i, j)
           n == j - i + 1
           low == LowerCase(value)
<1>1. Len(value) \in Nat /\ value \in Seq(Char) /\ i \in Nat /\ j \in Nat
  BY DEF Str
<1>2. /\ part \in Seq(Char) /\ Len(part) = n /\ n \in Nat
      /\ \A k \in 1..n : i + k - 1 \in 1..Len(value) /\ part[k] = value[i + k - 1] /\ part[k] \in Char
  BY <1>1
<1> HIDE DEF part
<1>3. low \in Seq(Char) /\ Len(low) = Len(value) /\ \A k \in 1..Len(value) : low[k] = Low(value[k])
  BY <1>1, CaseIs
<1> HIDE DEF low
<1>4. query \in {part, UpperCase(part), LowerCase(part)}
  BY DEF part
<1>5. query \in Seq(Char) /\ Len(query) = n /\ \A k \in 1..n : query[k] \in {part[k], Up(part[k]), Low(part[k])}
  BY <1>2, <1>4, CaseIs
<1>6. /\ LowerCase(query) \in Seq(Char) /\ Len(LowerCase(query)) = n
      /\ \A k \in 1..n : LowerCase(query)[k] = Low(part[k])
  <2>1. /\ LowerCase(query) \in Seq(Char) /\ Len(LowerCase(query)) = n
        /\ \A k \in 1..n : LowerCase(query)[k] = Low(query[k])
    BY <1>5, CaseIs
  <2>2. \A k \in 1..n : Low(query[k]) = Low(part[k])
    BY <1>2, <1>5, LowUp
  <2> QED
    BY <2>1, <2>2
<1> DEFINE x == i - 1
           q == LowerCase(query)
           t == SubSeq(low, x + 1, x + Len(q))
<1>7. x \in 0..Len(low) - Len(q) /\ x + 1 = i /\ x + Len(q) = j
  BY <1>1, <1>2, <1>3, <1>6
<1>8. t = q
  <2> HIDE DEF q, x
  <2>1. t \in Seq(Char) /\ Len(t) = n /\ \A k \in 1..n : t[k] = low[i + k - 1]
    <3>1. t = SubSeq(low, i, j)
      BY <1>7 DEF q
    <3>2. /\ i \in 1..Len(low) /\ j \in i..Len(low) /\ n = j - i + 1
          /\ low \in Seq(Char)
      BY <1>1, <1>3
    <3>3. /\ SubSeq(low, i, j) \in Seq(Char) /\ Len(SubSeq(low, i, j)) = n
          /\ \A k \in 1..n : SubSeq(low, i, j)[k] = low[i + k - 1]
      BY ONLY <3>2, PieceIs
    <3> QED
      BY ONLY <3>1, <3>3
  <2>2. \A k \in 1..n : t[k] = q[k]
    BY <1>2, <1>3, <1>6, <2>1 DEF q
  <2> HIDE DEF t
  <2> QED
    BY <1>6, <2>1, <2>2 DEF q
<1> HIDE DEF x
<1>9. Holds(low, q)
  BY <1>7, <1>8 DEF Holds
<1> QED
  BY <1>9 DEF ContainsIgnoreCase, low

\* What the table shows of a row is a part of one of its texts.
LEMMA ShownIsFound == devices \in Seq(Row) => FoundByWhatIsShown
<1> SUFFICES ASSUME devices \in Seq(Row), NEW row \in Range(devices),
                    NEW value \in {row.name, row.ipAddress, row.macAddress},
                    NEW i \in 1..Len(value), NEW j \in i..Len(value),
                    NEW query \in {SubSeq(value, i, j), UpperCase(SubSeq(value, i, j)),
                                   LowerCase(SubSeq(value, i, j))}
             PROVE  row \in Range(Search(devices, query))
  BY DEF FoundByWhatIsShown
<1>1. PICK k \in 1..Len(devices) : row = devices[k]
  <2>1. DOMAIN devices = 1..Len(devices)
    OBVIOUS
  <2>2. \E k \in DOMAIN devices : row = devices[k]
    BY ONLY row \in Range(devices) DEF Range
  <2> QED
    BY <2>1, <2>2
<1>2. row \in Row
  BY <1>1
<1>3. value \in Str
  BY <1>2 DEF Row
<1>4. ContainsIgnoreCase(value, query)
  BY <1>3, PartIsFound
<1>5. Matches(row, query)
  BY <1>4 DEF Matches
<1> QED
  BY <1>1, <1>5, SearchFinds

\* Whatever part of a device's row the user types, in capitals or not, the
\* device is among those found, for tables of every length.
THEOREM FoundAsShown == Spec => []FoundByWhatIsShown
<1>1. RowsTyped => FoundByWhatIsShown
  BY ShownIsFound DEF RowsTyped
<1> QED
  BY <1>1, TextInRows, PTL

=============================================================================
