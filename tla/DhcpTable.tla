------------------------------ MODULE DhcpTable ------------------------------
(***************************************************************************)
(* The device table connectedDevices() reads off the DHCP page, and the    *)
(* search of DeviceService in it.                                          *)
(*                                                                         *)
(* The page lists its leases as calls of a script function,                *)
(* Transfer_meaning('MACAddr0','fe\x3a5e'), in any order, each with one    *)
(* column of one row.  A match is such a call as the regular expression    *)
(* finds it: the key, the number its digits stand for, the quoted text.    *)
(* Two loops: one over the matches, which fills a std::map by row number,  *)
(* one over the map, which copies the rows that have an address of both    *)
(* kinds.  A step is one turn of a loop.                                   *)
(*                                                                         *)
(* Texts are sequences of bytes.  What the table becomes is page.leases of *)
(* ZteF670LRouterClient, "aborted" its Overflow.                           *)
(***************************************************************************)
EXTENDS Integers, Sequences, SequencesExt

CONSTANTS
  Match,       \* the matches a page may hold
  Given,       \* the names the devices may have been given
  MaxInt,      \* the largest int
  MaxMatches   \* bound: the matches of one page

Char == 0..255
Str  == Seq(Char)
Keys == {"MACAddr", "IPAddr", "HostName"}

\* Any other name before the digits is a match as well, and has no effect.
AnyMatch == [key : Keys \cup {"other"}, index : Nat, text : Str]

ASSUME TableAssumption == /\ Match \subseteq AnyMatch
                         /\ Given \subseteq Str
                         /\ MaxInt \in Nat
                         /\ MaxMatches \in Nat

\* The columns of models::Device; blocked is never set.
Row    == [macAddress : Str, ipAddress : Str, name : Str]
NoRow  == [macAddress |-> << >>, ipAddress |-> << >>, name |-> << >>]

VARIABLES
  pc,         \* "scan" and "copy" are the two loops
  seen,       \* the matches read so far
  deviceMap,  \* std::map<int, Device>
  left,       \* the row numbers the second loop has not come to
  listed,     \* those it has copied, in that order
  devices     \* the result

vars == <<pc, seen, deviceMap, left, listed, devices>>

Init ==
  /\ pc = "scan"
  /\ seen = << >>
  /\ deviceMap = [i \in {} |-> NoRow]
  /\ left = {}
  /\ listed = << >>
  /\ devices = << >>

-----------------------------------------------------------------------------
(* unescapeZteStr() *)

Digit   == 48..57
Upper   == 65..90
Hex     == Digit \cup 65..70 \cup 97..102
Blank   == {32} \cup 9..13
Nibble(c) == IF c \in Digit THEN c - 48 ELSE IF c \in Upper THEN c - 55 ELSE c - 87

\* What std::stoi(.., 16) makes of two characters, cut to a char; -1: it throws.
StoiHexSigned(a, b) ==
  CASE a \in Hex /\ b \in Hex -> 16 * Nibble(a) + Nibble(b)
    [] a \in Hex /\ b \notin Hex -> Nibble(a)
    [] a \in Blank \cup {43} /\ b \in Hex -> Nibble(b)
    [] a = 45 /\ b \in Hex -> 0 - Nibble(b)
    [] OTHER -> -1
StoiHex(a, b) ==
  CASE a \in Hex /\ b \in Hex -> 16 * Nibble(a) + Nibble(b)
    [] a \in Hex /\ b \notin Hex -> Nibble(a)
    [] a \in Blank \cup {43} /\ b \in Hex -> Nibble(b)
    [] a = 45 /\ b \in Hex -> (256 - Nibble(b)) % 256
    [] OTHER -> -1

\* A backslash, an x, and two characters std::stoi takes.
IsEscapeShort(s, i) ==
  i + 3 < Len(s) /\ s[i] = 92 /\ s[i + 1] = 120 /\ StoiHex(s[i + 2], s[i + 3]) # -1
IsEscape(s, i) ==
  i + 3 <= Len(s) /\ s[i] = 92 /\ s[i + 1] = 120 /\ StoiHex(s[i + 2], s[i + 3]) # -1

Unescape(s) ==
  LET from[i \in 1..Len(s) + 1] ==
        IF i > Len(s) THEN << >>
        ELSE IF IsEscape(s, i) THEN << StoiHex(s[i + 2], s[i + 3]) >> \o from[i + 4]
        ELSE << s[i] >> \o from[i + 1]
  IN  from[1]

-----------------------------------------------------------------------------
(* The two loops *)

Unknown == <<85, 110, 107, 110, 111, 119, 110>>

RowAt(i) == IF i \in DOMAIN deviceMap THEN deviceMap[i] ELSE NoRow

\* deviceMap[index] makes the row if there is none.
With(row, m) ==
  CASE m.key = "MACAddr"  -> [row EXCEPT !.macAddress = Unescape(m.text)]
    [] m.key = "IPAddr"   -> [row EXCEPT !.ipAddress = Unescape(m.text)]
    [] m.key = "HostName" ->
         [row EXCEPT !.name = IF Unescape(m.text) = << >> THEN Unknown ELSE Unescape(m.text)]

\* The index is converted before the key is looked at.
ReadMatch(m) ==
  /\ pc = "scan" /\ Len(seen) < MaxMatches
  /\ seen' = Append(seen, m)
  /\ pc' = IF m.index > MaxInt THEN "aborted" ELSE "scan"
  /\ deviceMap' =
       IF m.index > MaxInt \/ m.key \notin Keys THEN deviceMap
       ELSE [i \in DOMAIN deviceMap \cup {m.index} |->
               IF i = m.index THEN With(RowAt(i), m) ELSE deviceMap[i]]
  /\ UNCHANGED <<left, listed, devices>>

EndOfPage ==
  /\ pc = "scan"
  /\ pc' = "copy"
  /\ left' = DOMAIN deviceMap
  /\ UNCHANGED <<seen, deviceMap, listed, devices>>

CompleteByMac(row) == row.macAddress # << >>
Complete(row) == row.macAddress # << >> /\ row.ipAddress # << >>

\* The map is in the order of its keys, as numbers.
CopyRow ==
  /\ pc = "copy"
  /\ \E i \in left :
       /\ \A j \in left : i <= j
       /\ left' = left \ {i}
       /\ IF Complete(deviceMap[i])
            THEN listed' = Append(listed, i) /\ devices' = Append(devices, deviceMap[i])
            ELSE UNCHANGED <<listed, devices>>
  /\ UNCHANGED <<pc, seen, deviceMap>>

Return ==
  /\ pc = "copy" /\ left = {}
  /\ pc' = "done"
  /\ UNCHANGED <<seen, deviceMap, left, listed, devices>>

Over == pc \in {"done", "aborted"} /\ UNCHANGED vars

Next == (\E m \in Match : ReadMatch(m)) \/ EndOfPage \/ CopyRow \/ Return \/ Over

Spec == Init /\ [][Next]_vars

-----------------------------------------------------------------------------
(* DeviceService::search() *)

LowerCase(s) == [i \in DOMAIN s |-> IF s[i] \in Upper THEN s[i] + 32 ELSE s[i]]

Holds(value, query) ==
  \E i \in 0..Len(value) - Len(query) : SubSeq(value, i + 1, i + Len(query)) = query

ContainsAsTyped(value, query) == Holds(LowerCase(value), query)
ContainsIgnoreCase(value, query) == Holds(LowerCase(value), LowerCase(query))

Matches(row, query) ==
  \/ ContainsIgnoreCase(row.name, query)
  \/ ContainsIgnoreCase(row.ipAddress, query)
  \/ ContainsIgnoreCase(row.macAddress, query)

\* std::ranges::copy_if over devices_.
Search(table, query) ==
  LET matches[k \in 0..Len(table)] ==
        IF k = 0 THEN << >>
        ELSE IF Matches(table[k], query) THEN Append(matches[k - 1], table[k])
        ELSE matches[k - 1]
  IN  matches[Len(table)]

-----------------------------------------------------------------------------
(* Properties *)

TypeOK ==
  /\ pc \in {"scan", "copy", "done", "aborted"}
  /\ seen \in Seq(Match)
  /\ DOMAIN deviceMap \subseteq 0..MaxInt
  /\ \A i \in DOMAIN deviceMap : deviceMap[i] \in Row
  /\ left \subseteq DOMAIN deviceMap
  /\ listed \in Seq(0..MaxInt)
  /\ devices \in Seq(Row)

IsOf(n, key, i) == n \in DOMAIN seen /\ seen[n].key = key /\ seen[n].index = i

\* The page's last word on a column of row i, "" if it has none.
Column(key, i, value) ==
  \/ \E n \in DOMAIN seen :
       /\ IsOf(n, key, i)
       /\ \A k \in n + 1..Len(seen) : ~IsOf(k, key, i)
       /\ value = Unescape(seen[n].text)
  \/ value = << >> /\ \A n \in DOMAIN seen : ~IsOf(n, key, i)

NameColumn(i, value) ==
  \/ Column("HostName", i, value) /\ (value = << >> => \A n \in DOMAIN seen : ~IsOf(n, "HostName", i))
  \/ value = Unknown /\ Column("HostName", i, << >>) /\ \E n \in DOMAIN seen : IsOf(n, "HostName", i)

\* A lease: a row number with both addresses.
IsLease(i) == ~Column("MACAddr", i, << >>) /\ ~Column("IPAddr", i, << >>)

(***************************************************************************)
(* The table is the page's: a row for each number that has both addresses, *)
(* in the order of the numbers however the calls are mixed on the page,    *)
(* with the last text of each column; a name the page leaves empty is      *)
(* "Unknown" (the comment on the page's format in connectedDevices()).     *)
(***************************************************************************)
ListsTheLeases ==
  pc = "done" =>
    /\ \A n \in DOMAIN seen : IsLease(seen[n].index) => seen[n].index \in Range(listed)
    /\ \A j, k \in DOMAIN listed : j < k => listed[j] < listed[k]
    /\ DOMAIN devices = DOMAIN listed
    /\ \A k \in DOMAIN listed :
         /\ IsLease(listed[k])
         /\ Column("MACAddr", listed[k], devices[k].macAddress)
         /\ Column("IPAddr", listed[k], devices[k].ipAddress)
         /\ NameColumn(listed[k], devices[k].name)

\* How the router writes a text: letters and digits as they are, any other
\* character as \x and two digits.
HexDigit(n) == IF n < 10 THEN 48 + n ELSE 87 + n
Written(c) ==
  IF c \in Digit \cup Upper \cup 97..122 THEN << c >>
  ELSE <<92, 120, HexDigit(c \div 16), HexDigit(c % 16)>>
WrittenText(s) == FlattenSeq([i \in 1..Len(s) |-> Written(s[i])])

(***************************************************************************)
(* What the router has escaped is shown as it was before: of two texts the *)
(* user may have given a device, the one on the page is the one in the     *)
(* table ("My\x2dPC", the comment in connectedDevices(); hex-unescaping in *)
(* docs/TESTING.md).                                                       *)
(***************************************************************************)
NamesAreShown ==
  pc = "done" =>
    \A k \in DOMAIN listed : \A given \in Given \ {<< >>} : \A n \in DOMAIN seen :
      /\ IsOf(n, "HostName", listed[k])
      /\ \A j \in n + 1..Len(seen) : ~IsOf(j, "HostName", listed[k])
      /\ seen[n].text = WrittenText(given)
      => devices[k].name = given

UpperCase(s) == [i \in DOMAIN s |-> IF s[i] \in 97..122 THEN s[i] - 32 ELSE s[i]]

(***************************************************************************)
(* A device is found by any part of what the table shows of it, typed in   *)
(* capitals or not ("Search by name, IP, or MAC", searchDevices()).        *)
(***************************************************************************)
FoundByWhatIsShown ==
  pc = "done" =>
    \A row \in Range(devices) : \A value \in {row.name, row.ipAddress, row.macAddress} :
      \A i \in 1..Len(value) : \A j \in i..Len(value) :
        LET part == SubSeq(value, i, j)
        IN  \A query \in {part, UpperCase(part), LowerCase(part)} :
              row \in Range(Search(devices, query))

=============================================================================
