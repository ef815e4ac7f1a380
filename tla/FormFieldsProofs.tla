-------------------------- MODULE FormFieldsProofs --------------------------
(***************************************************************************)
(* What the helpers of FormFields return, for every list of fields.  The   *)
(* first lemma is about the search they all are: SelectInSeq is the least  *)
(* index of a set, and a nonempty set of naturals has a least member.      *)
(***************************************************************************)
EXTENDS FormFields, FiniteSetTheorems, SequenceTheorems, WellFoundedInduction, TLAPS

(***************************************************************************)
(* The least member of a nonempty set of naturals exists, and Min is it:   *)
(* the smallest of the intervals below its members is below the least one. *)
(***************************************************************************)
LEMMA MinIsLeast ==
  ASSUME NEW S \in SUBSET Nat, S # {}
  PROVE  Min(S) \in S /\ \A n \in S : Min(S) <= n
<1> DEFINE Below(k) == 0..(k - 1)
           Belows == {Below(k) : k \in S}
<1>1. Belows \subseteq FiniteSubsetsOf(Nat)
  <2>1. ASSUME NEW k \in S PROVE IsFiniteSet(Below(k)) /\ Below(k) \subseteq Nat
    BY FS_Interval
  <2> QED
    BY <2>1 DEF FiniteSubsetsOf
<1>2. PICK x \in Belows : \A y \in Belows : ~(<<y, x>> \in StrictSubsetOrdering(Nat))
  <2>1. Belows # {}
    OBVIOUS
  <2> HIDE DEF Belows
  <2> QED
    BY <1>1, <2>1, FS_StrictSubsetOrderingWellFounded, WFMin
<1>3. PICK m \in S : x = Below(m)
  OBVIOUS
<1>4. ASSUME NEW n \in S, n < m PROVE FALSE
  <2>1. Below(n) \subseteq Below(m) /\ n \in Below(m) /\ n \notin Below(n)
    BY <1>4
  <2>2. Below(n) \in SUBSET Nat /\ Below(m) \in SUBSET Nat
    OBVIOUS
  <2>3. <<Below(n), Below(m)>> \in StrictSubsetOrdering(Nat)
    BY <2>1, <2>2 DEF StrictSubsetOrdering
  <2> QED
    BY <1>2, <1>3, <2>3
<1>5. \A n \in S : m <= n
  BY <1>4
<1> QED
  BY <1>5 DEF Min

\* So does that of a nonempty set of positions of a list.
LEMMA Positions ==
  ASSUME NEW fields \in Seq(Field), NEW S \in SUBSET (1..Len(fields)), S # {}
  PROVE  Min(S) \in S /\ \A n \in S : Min(S) <= n
<1>1. Len(fields) \in Nat
  BY LenProperties
<1>2. S \in SUBSET Nat
  BY <1>1
<1> QED
  BY <1>2, MinIsLeast

LEMMA LiteralsAreText == Literals \subseteq Text /\ Digits \subseteq Text \ {NoText}
BY TextAssumption

LEMMA NamesInBase ==
  /\ "IF_ACTION" \in Base /\ "IF_ERRORSTR" \in Base /\ "IF_ERRORPARAM" \in Base
  /\ "IF_ERRORTYPE" \in Base /\ "IF_INDEX" \in Base /\ "IF_INSTNUM" \in Base
  /\ "IF_VIEWID" \in Base /\ "_SESSION_TOKEN" \in Base /\ "action" \in Base
  /\ "ViewName" \in Base /\ "Interface" \in Base /\ "MACAddress" \in Base
  /\ "ACLPolicy" \in Base /\ "Frm_Logintoken" \in Base
  /\ "Frm_Loginchecktoken" \in Base
BY TextAssumption DEF Names

LEMMA LiteralsInText ==
  /\ NoText \in Text /\ "new" \in Text /\ "delete" \in Text /\ "SUCC" \in Text
  /\ "-1" \in Text /\ "0" \in Text /\ "1" \in Text /\ "NULL" \in Text
  /\ "Ban" \in Text /\ "IGD.ACL1" \in Text /\ "login" \in Text
BY TextAssumption DEF Literals

LEMMA PlainIsName == ASSUME NEW base \in Base PROVE Plain(base) \in Name
BY DEF Plain, Name

(***************************************************************************)
(* The two cases of both searches: no field has the name, or there is a    *)
(* first one.                                                              *)
(***************************************************************************)
Absent(fields, name) == \A i \in 1..Len(fields) : fields[i].name # name
IsFirst(fields, name, k) ==
  /\ fields[k].name = name
  /\ \A i \in 1..Len(fields) : fields[i].name = name => k <= i

LEMMA FirstExists ==
  ASSUME NEW fields \in Seq(Field), NEW name, ~Absent(fields, name)
  PROVE  \E k \in 1..Len(fields) : IsFirst(fields, name, k)
<1> DEFINE S == {i \in 1..Len(fields) : fields[i].name = name}
<1>1. S # {} /\ S \in SUBSET (1..Len(fields))
  BY DEF Absent
<1>2. Min(S) \in S /\ \A n \in S : Min(S) <= n
  BY <1>1, Positions
<1> HIDE DEF S
<1>3. Min(S) \in 1..Len(fields) /\ IsFirst(fields, name, Min(S))
  BY <1>2 DEF S, IsFirst
<1> QED
  BY <1>3

LEMMA FirstNamedAbsent ==
  ASSUME NEW fields \in Seq(Field), NEW name, Absent(fields, name)
  PROVE  FirstNamed(fields, name) = 0
<1>1. {i \in 1..Len(fields) : fields[i].name = name} = {}
  BY DEF Absent
<1> QED
  BY <1>1 DEF FirstNamed, SelectInSeq

LEMMA FirstNamedFirst ==
  ASSUME NEW fields \in Seq(Field), NEW name, NEW k \in 1..Len(fields),
         IsFirst(fields, name, k)
  PROVE  FirstNamed(fields, name) = k /\ k # 0
<1> DEFINE S == {i \in 1..Len(fields) : fields[i].name = name}
<1>1. k \in S /\ S # {} /\ S \in SUBSET (1..Len(fields)) /\ \A n \in S : k <= n
  BY DEF IsFirst
<1>2. Min(S) \in S /\ \A n \in S : Min(S) <= n
  BY <1>1, Positions
<1>3. FirstNamed(fields, name) = Min(S)
  BY <1>1 DEF FirstNamed, SelectInSeq
<1>4. Len(fields) \in Nat
  BY LenProperties
<1> HIDE DEF S
<1>5. Min(S) <= k /\ k <= Min(S) /\ Min(S) \in 1..Len(fields)
  BY <1>1, <1>2
<1> QED
  BY <1>3, <1>4, <1>5

LEMMA PairIsField ==
  ASSUME NEW name \in Name, NEW value \in Text PROVE Pair(name, value) \in Field
BY DEF Pair, Field

LEMMA FieldType ==
  ASSUME NEW fields \in Seq(Field), NEW i \in 1..Len(fields)
  PROVE  fields[i].name \in Name /\ fields[i].value \in Text
<1>1. fields[i] \in Field
  BY ElementOfSeq
<1> QED
  BY <1>1 DEF Field

-----------------------------------------------------------------------------
(* getField() and setField(), case by case *)

LEMMA GetFieldAbsent ==
  ASSUME NEW fields \in Seq(Field), NEW name, Absent(fields, name)
  PROVE  GetField(fields, name) = NoText
BY FirstNamedAbsent DEF GetField

LEMMA GetFieldFirst ==
  ASSUME NEW fields \in Seq(Field), NEW name, NEW k \in 1..Len(fields),
         IsFirst(fields, name, k)
  PROVE  GetField(fields, name) = fields[k].value
BY FirstNamedFirst DEF GetField

LEMMA SetFieldAbsent ==
  ASSUME NEW fields \in Seq(Field), NEW name, NEW value, Absent(fields, name)
  PROVE  SetField(fields, name, value) = Append(fields, Pair(name, value))
BY FirstNamedAbsent, Zenon DEF SetField, Put

LEMMA SetFieldFirst ==
  ASSUME NEW fields \in Seq(Field), NEW name, NEW value, NEW k \in 1..Len(fields),
         IsFirst(fields, name, k)
  PROVE  SetField(fields, name, value) = [fields EXCEPT ![k] = Pair(name, value)]
BY FirstNamedFirst, Zenon DEF SetField, Put

LEMMA GetFieldType ==
  ASSUME NEW fields \in Seq(Field), NEW name
  PROVE  GetField(fields, name) \in Text
<1>1. CASE Absent(fields, name)
  BY <1>1, GetFieldAbsent, LiteralsAreText DEF Literals
<1>2. ASSUME NEW k \in 1..Len(fields), IsFirst(fields, name, k)
      PROVE  GetField(fields, name) \in Text
  BY <1>2, FieldType, GetFieldFirst
<1> QED
  BY <1>1, <1>2, FirstExists

\* A value that is read is the value of a field of that name.
LEMMA GetFieldIsThere ==
  ASSUME NEW fields \in Seq(Field), NEW name, GetField(fields, name) # NoText
  PROVE  \E f \in Range(fields) : f.name = name /\ f.value = GetField(fields, name)
<1>1. PICK k \in 1..Len(fields) : IsFirst(fields, name, k)
  BY GetFieldAbsent, FirstExists
<1>2. fields[k].name = name /\ fields[k].value = GetField(fields, name)
  BY <1>1, GetFieldFirst DEF IsFirst
<1>3. fields[k] \in Range(fields)
  BY DEF Range
<1> QED
  BY <1>2, <1>3

LEMMA SetFieldType ==
  ASSUME NEW fields \in Seq(Field), NEW name \in Name, NEW value \in Text
  PROVE  SetField(fields, name, value) \in Seq(Field)
<1>1. Pair(name, value) \in Field
  BY DEF Pair, Field
<1>2. CASE Absent(fields, name)
  BY <1>1, <1>2, SetFieldAbsent, AppendProperties
<1>3. ASSUME NEW k \in 1..Len(fields), IsFirst(fields, name, k)
      PROVE  SetField(fields, name, value) \in Seq(Field)
  BY <1>1, <1>3, SetFieldFirst, ExceptSeq
<1> QED
  BY <1>2, <1>3, FirstExists

(***************************************************************************)
(* Where setField() leaves its name: after it the field is there, first at *)
(* a place that holds the value; every other place is as it was.           *)
(***************************************************************************)
LEMMA SetFieldPlaces ==
  ASSUME NEW fields \in Seq(Field), NEW name \in Name, NEW value \in Text,
         NEW new, new = SetField(fields, name, value)
  PROVE  \E k \in 1..Len(new) :
            /\ IsFirst(new, name, k) /\ new[k] = Pair(name, value)
            /\ \A i \in 1..Len(new) : i # k => i \in 1..Len(fields) /\ new[i] = fields[i]
            /\ \A i \in 1..Len(fields) : i \in 1..Len(new)
            /\ k \in 1..Len(fields) => fields[k].name = name
<1>0. Pair(name, value) \in Field /\ Pair(name, value).name = name /\ Len(fields) \in Nat
  BY LenProperties DEF Pair, Field
<1>1. CASE Absent(fields, name)
  <2>1. /\ Len(new) = Len(fields) + 1 /\ new[Len(new)] = Pair(name, value)
        /\ \A i \in 1..Len(fields) : new[i] = fields[i]
    BY <1>0, <1>1, SetFieldAbsent, AppendProperties
  <2>2. IsFirst(new, name, Len(new))
    BY <1>0, <1>1, <2>1 DEF IsFirst, Absent
  <2> QED
    BY <1>0, <2>1, <2>2
<1>2. ASSUME NEW k \in 1..Len(fields), IsFirst(fields, name, k)
      PROVE  /\ Len(new) = Len(fields) /\ new[k] = Pair(name, value)
             /\ \A i \in 1..Len(fields) : i # k => new[i] = fields[i]
             /\ IsFirst(new, name, k) /\ fields[k].name = name
  <2>1. /\ Len(new) = Len(fields) /\ new[k] = Pair(name, value)
        /\ \A i \in 1..Len(fields) : i # k => new[i] = fields[i]
    BY <1>0, <1>2, SetFieldFirst, ExceptSeq
  <2>2. IsFirst(new, name, k)
    BY <1>0, <1>2, <2>1 DEF IsFirst
  <2> QED
    BY <1>2, <2>1, <2>2 DEF IsFirst
<1>3. CASE ~Absent(fields, name)
  <2>1. PICK k \in 1..Len(fields) : IsFirst(fields, name, k)
    BY <1>3, FirstExists
  <2> QED
    BY <1>0, <1>2, <2>1
<1> QED
  BY <1>1, <1>3

(***************************************************************************)
(* What setField() writes, getField() reads back, and a field of another   *)
(* name reads as before: later writes of a form cannot undo earlier ones.  *)
(***************************************************************************)
THEOREM GetFieldOfSetField ==
  ASSUME NEW fields \in Seq(Field), NEW name \in Name, NEW value \in Text
  PROVE  GetField(SetField(fields, name, value), name) = value
<1> DEFINE new == SetField(fields, name, value)
<1>1. new \in Seq(Field)
  BY SetFieldType
<1>2. PICK k \in 1..Len(new) : IsFirst(new, name, k) /\ new[k] = Pair(name, value)
  BY SetFieldPlaces
<1> HIDE DEF new
<1>3. GetField(new, name) = new[k].value
  BY <1>1, <1>2, GetFieldFirst
<1>4. GetField(new, name) = value
  BY <1>2, <1>3 DEF Pair
<1> QED
  BY <1>4 DEF new

\* What setField() does to one name getField() does not see in another: the fields
\* of the page that the two ACL forms do not set stay as they are.
THEOREM SetFieldKeepsOthers ==
  ASSUME NEW fields \in Seq(Field), NEW name \in Name, NEW value \in Text,
         NEW other, other # name
  PROVE  GetField(SetField(fields, name, value), other) = GetField(fields, other)
<1> SUFFICES ASSUME NEW new, new = SetField(fields, name, value)
             PROVE  GetField(new, other) = GetField(fields, other)
  OBVIOUS
<1>1. new \in Seq(Field) /\ Pair(name, value).name = name
  BY SetFieldType DEF Pair
<1>2. PICK k \in 1..Len(new) :
         /\ new[k] = Pair(name, value)
         /\ \A i \in 1..Len(new) : i # k => i \in 1..Len(fields) /\ new[i] = fields[i]
         /\ \A i \in 1..Len(fields) : i \in 1..Len(new)
         /\ k \in 1..Len(fields) => fields[k].name = name
  BY SetFieldPlaces
<1>3. CASE Absent(fields, other)
  <2>1. Absent(new, other)
    BY <1>1, <1>2, <1>3 DEF Absent
  <2> QED
    BY <1>1, <1>3, <2>1, GetFieldAbsent
<1>4. CASE ~Absent(fields, other)
  <2>1. PICK j \in 1..Len(fields) : IsFirst(fields, other, j)
    BY <1>4, FirstExists
  <2>2. j # k /\ j \in 1..Len(new) /\ new[j] = fields[j]
    BY <1>2, <2>1 DEF IsFirst
  <2>3. IsFirst(new, other, j)
    BY <1>1, <1>2, <2>1, <2>2 DEF IsFirst
  <2> QED
    BY <1>1, <2>1, <2>2, <2>3, GetFieldFirst
<1> QED
  BY <1>3, <1>4

-----------------------------------------------------------------------------
(* The page and its rows *)

ScrapedPage(page) ==
  page.inputs \in Seq(Field) /\ page.hidden \in Seq(Field) /\ page.scripts \in Seq(Script)

LEMMA ExtractType ==
  ASSUME NEW page, ScrapedPage(page)
  PROVE  ExtractFormFields(page) \in Seq(Field)
<1> DEFINE S == {i \in 1..Len(page.scripts) : MakesTokenField(page.scripts[i])}
           first == SelectInSeq(page.scripts, MakesTokenField)
           token == << Pair(Plain("_SESSION_TOKEN"), page.scripts[first].token) >>
<1>1. CASE S = {}
  <2>1. first = 0
    BY <1>1 DEF SelectInSeq
  <2> QED
    BY <2>1, ConcatProperties, EmptySeq DEF ExtractFormFields, ScrapedPage
<1>2. CASE S # {}
  <2>1. Len(page.scripts) \in Nat
    BY LenProperties DEF ScrapedPage
  <2>2. S \in SUBSET Nat
    BY <2>1
  <2>3. Min(S) \in S
    BY <1>2, <2>2, MinIsLeast
  <2>4. first = Min(S)
    BY <1>2 DEF SelectInSeq
  <2>5. first \in 1..Len(page.scripts) /\ first # 0
    BY <2>1, <2>3, <2>4
  <2> HIDE DEF S, first
  <2>6. page.scripts[first] \in Script
    BY <2>5, ElementOfSeq DEF ScrapedPage
  <2>6a. page.scripts[first].token \in Text
    BY <2>6 DEF Script
  <2>6b. Plain("_SESSION_TOKEN") \in Name
    BY NamesInBase, PlainIsName
  <2>7. Pair(Plain("_SESSION_TOKEN"), page.scripts[first].token) \in Field
    BY <2>6a, <2>6b, PairIsField
  <2>8. token \in Seq(Field)
    BY <2>7
  <2>9. page.inputs \o page.hidden \in Seq(Field)
    BY ConcatProperties DEF ScrapedPage
  <2> HIDE DEF token
  <2>10. (page.inputs \o page.hidden) \o token \in Seq(Field)
    BY <2>8, <2>9, ConcatProperties
  <2> QED
    BY <2>5, <2>10 DEF ExtractFormFields, first, token
<1> QED
  BY <1>1, <1>2

(***************************************************************************)
(* The index an unblock uses is that of a row of the list that holds the   *)
(* address, letters of either case alike.                                  *)
(***************************************************************************)
THEOREM AclIndexIsARow ==
  ASSUME NEW fields \in Seq(Field), NEW mac, FindAclIndexByMac(fields, mac) # NoText
  PROVE  \E i \in 1..Len(fields) :
            /\ fields[i].name = Indexed("MACAddress", FindAclIndexByMac(fields, mac))
            /\ Lower[fields[i].value] = Lower[mac]
<1> DEFINE S == {i \in 1..Len(fields) : IsAclRow(fields[i], mac)}
           first == SelectInSeq(fields, LAMBDA f : IsAclRow(f, mac))
<1>1. S # {}
  BY DEF FindAclIndexByMac, SelectInSeq
<1>2. Min(S) \in S
  BY <1>1, Positions
<1>3. first = Min(S)
  BY <1>1 DEF SelectInSeq
<1>4. Len(fields) \in Nat
  BY LenProperties
<1>5a. first \in S
  BY <1>2, <1>3
<1> HIDE DEF first
<1>5. first \in 1..Len(fields) /\ first # 0 /\ IsAclRow(fields[first], mac)
  BY <1>4, <1>5a
<1>6. FindAclIndexByMac(fields, mac) = IF first = 0 THEN NoText ELSE fields[first].name.suffix
  BY Zenon DEF FindAclIndexByMac, first
<1>6a. FindAclIndexByMac(fields, mac) = fields[first].name.suffix
  BY <1>5, <1>6
<1>7. fields[first].name \in Name
  BY <1>5, FieldType
<1>8. fields[first].name = Indexed("MACAddress", fields[first].name.suffix)
  BY <1>5, <1>7 DEF IsAclRow, Indexed, Name
<1> QED
  BY <1>5, <1>6a, <1>8 DEF IsAclRow, AsciiEqualIgnoreCase

LEMMA AclIndexType ==
  ASSUME NEW fields \in Seq(Field), NEW mac
  PROVE  FindAclIndexByMac(fields, mac) \in Digits \cup {NoText}
<1>1. CASE FindAclIndexByMac(fields, mac) # NoText
  <2>1. PICK i \in 1..Len(fields) :
           fields[i].name = Indexed("MACAddress", FindAclIndexByMac(fields, mac))
    BY <1>1, AclIndexIsARow
  <2>2. fields[i].name \in [base : Base, suffix : Digits \cup {NoText}]
    BY FieldType DEF Name
  <2>3. Indexed("MACAddress", FindAclIndexByMac(fields, mac)).suffix
           = FindAclIndexByMac(fields, mac)
    BY DEF Indexed
  <2> HIDE DEF Indexed
  <2> QED
    BY <2>1, <2>2, <2>3
<1> QED
  BY <1>1

-----------------------------------------------------------------------------
(* The two forms *)

(***************************************************************************)
(* One setField() seen from a chain of them: new is fields with base read  *)
(* as value and every other name read as before.                           *)
(***************************************************************************)
Written(fields, base, value, new) ==
  /\ new \in Seq(Field)
  /\ GetField(new, Plain(base)) = value
  /\ \A n : n # Plain(base) => GetField(new, n) = GetField(fields, n)

LEMMA SetFieldWrites ==
  ASSUME NEW fields \in Seq(Field), NEW base \in Base, NEW value \in Text
  PROVE  Written(fields, base, value, SetField(fields, Plain(base), value))
<1>1. Plain(base) \in Name
  BY PlainIsName
<1> QED
  BY <1>1, SetFieldType, GetFieldOfSetField, SetFieldKeepsOthers DEF Written

LEMMA WrittenType ==
  ASSUME NEW fields, NEW base, NEW value, NEW new, Written(fields, base, value, new)
  PROVE  new \in Seq(Field)
BY DEF Written

LEMMA PlainInjective == \A a, b : Plain(a) = Plain(b) => a = b
BY DEF Plain

CommandNames == {Plain(b) : b \in {"IF_ACTION", "IF_ERRORSTR", "IF_ERRORPARAM",
                                    "IF_ERRORTYPE", "IF_INDEX", "IF_INSTNUM"}}
RuleNames    == {Plain(b) : b \in {"ViewName", "Interface", "MACAddress", "ACLPolicy"}}

(***************************************************************************)
(* The first six writes of blockDevice() change the six fields they name.  *)
(***************************************************************************)
LEMMA NewRuleCommandEffect ==
  ASSUME NEW fields \in Seq(Field), NEW new, new = NewRuleCommand(fields)
  PROVE  /\ new \in Seq(Field)
         /\ GetField(new, Plain("IF_ACTION")) = "new"
         /\ \A n : n \notin CommandNames => GetField(new, n) = GetField(fields, n)
<1> DEFINE f1 == SetField(fields, Plain("IF_ACTION"), "new")
           f2 == SetField(f1, Plain("IF_ERRORSTR"), "SUCC")
           f3 == SetField(f2, Plain("IF_ERRORPARAM"), "SUCC")
           f4 == SetField(f3, Plain("IF_ERRORTYPE"), "-1")
           f5 == SetField(f4, Plain("IF_INDEX"), "-1")
           f6 == SetField(f5, Plain("IF_INSTNUM"), "0")
<1>0. new = f6
  BY DEF NewRuleCommand
<1>1. Written(fields, "IF_ACTION", "new", f1)
  BY SetFieldWrites, NamesInBase, LiteralsInText
<1>1t. f1 \in Seq(Field)
  BY <1>1, WrittenType
<1> HIDE DEF f1
<1>2. Written(f1, "IF_ERRORSTR", "SUCC", f2)
  BY <1>1t, SetFieldWrites, NamesInBase, LiteralsInText
<1>2t. f2 \in Seq(Field)
  BY <1>2, WrittenType
<1> HIDE DEF f2
<1>3. Written(f2, "IF_ERRORPARAM", "SUCC", f3)
  BY <1>2t, SetFieldWrites, NamesInBase, LiteralsInText
<1>3t. f3 \in Seq(Field)
  BY <1>3, WrittenType
<1> HIDE DEF f3
<1>4. Written(f3, "IF_ERRORTYPE", "-1", f4)
  BY <1>3t, SetFieldWrites, NamesInBase, LiteralsInText
<1>4t. f4 \in Seq(Field)
  BY <1>4, WrittenType
<1> HIDE DEF f4
<1>5. Written(f4, "IF_INDEX", "-1", f5)
  BY <1>4t, SetFieldWrites, NamesInBase, LiteralsInText
<1>5t. f5 \in Seq(Field)
  BY <1>5, WrittenType
<1> HIDE DEF f5
<1>6. Written(f5, "IF_INSTNUM", "0", f6)
  BY <1>5t, SetFieldWrites, NamesInBase, LiteralsInText
<1>6t. f6 \in Seq(Field)
  BY <1>6, WrittenType
<1> HIDE DEF f6
<1>7. \A b \in {"IF_ERRORSTR", "IF_ERRORPARAM", "IF_ERRORTYPE", "IF_INDEX", "IF_INSTNUM"} :
        Plain("IF_ACTION") # Plain(b)
  BY PlainInjective
<1>8. GetField(f6, Plain("IF_ACTION")) = "new"
  BY <1>1, <1>2, <1>3, <1>4, <1>5, <1>6, <1>7 DEF Written
<1>9. ASSUME NEW n, n \notin CommandNames PROVE GetField(f6, n) = GetField(fields, n)
  BY <1>1, <1>2, <1>3, <1>4, <1>5, <1>6, <1>9 DEF Written, CommandNames
<1> QED
  BY <1>0, <1>6t, <1>8, <1>9

(***************************************************************************)
(* The form of a block: the rule for the address that was asked, and every *)
(* field of the page that is not one of the ten as the page had it, the    *)
(* token first of all.                                                     *)
(***************************************************************************)
THEOREM BlockFormEffect ==
  ASSUME NEW page, ScrapedPage(page), NEW mac \in Text,
         NEW new, new = BlockForm(page, mac)
  PROVE  /\ new \in Seq(Field)
         /\ GetField(new, Plain("IF_ACTION")) = "new"
         /\ GetField(new, Plain("MACAddress")) = mac
         /\ \A n : n \notin CommandNames \cup RuleNames =>
              GetField(new, n) = GetField(ExtractFormFields(page), n)
<1> DEFINE f0 == ExtractFormFields(page)
           f6 == NewRuleCommand(f0)
           f7 == SetField(f6, Plain("ViewName"), "NULL")
           f8 == SetField(f7, Plain("Interface"), "0")
           f9 == SetField(f8, Plain("MACAddress"), mac)
           f10 == SetField(f9, Plain("ACLPolicy"), "Ban")
<1>0. new = f10
  BY DEF BlockForm
<1>5. f0 \in Seq(Field)
  BY ExtractType
<1> HIDE DEF f0
<1>6t. f6 \in Seq(Field)
  BY <1>5, NewRuleCommandEffect
<1>6. /\ GetField(f6, Plain("IF_ACTION")) = "new"
      /\ \A n : n \notin CommandNames => GetField(f6, n) = GetField(f0, n)
  BY <1>5, NewRuleCommandEffect
<1> HIDE DEF f6
<1>7. Written(f6, "ViewName", "NULL", f7)
  BY <1>6t, SetFieldWrites, NamesInBase, LiteralsInText
<1>7t. f7 \in Seq(Field)
  BY <1>7, WrittenType
<1> HIDE DEF f7
<1>8. Written(f7, "Interface", "0", f8)
  BY <1>7t, SetFieldWrites, NamesInBase, LiteralsInText
<1>8t. f8 \in Seq(Field)
  BY <1>8, WrittenType
<1> HIDE DEF f8
<1>9. Written(f8, "MACAddress", mac, f9)
  BY <1>8t, SetFieldWrites, NamesInBase, LiteralsInText
<1>9t. f9 \in Seq(Field)
  BY <1>9, WrittenType
<1> HIDE DEF f9
<1>10. Written(f9, "ACLPolicy", "Ban", f10)
  BY <1>9t, SetFieldWrites, NamesInBase, LiteralsInText
<1>10t. f10 \in Seq(Field)
  BY <1>10, WrittenType
<1> HIDE DEF f10
<1>11. /\ \A b \in {"ViewName", "Interface", "MACAddress", "ACLPolicy"} :
             Plain("IF_ACTION") # Plain(b)
       /\ Plain("MACAddress") # Plain("ACLPolicy")
  BY PlainInjective
<1>12. GetField(f10, Plain("IF_ACTION")) = "new"
  BY <1>6, <1>7, <1>8, <1>9, <1>10, <1>11 DEF Written
<1>13. GetField(f10, Plain("MACAddress")) = mac
  BY <1>9, <1>10, <1>11 DEF Written
<1>14. ASSUME NEW n, n \notin CommandNames \cup RuleNames
       PROVE  GetField(f10, n) = GetField(f0, n)
  BY <1>6, <1>7, <1>8, <1>9, <1>10, <1>14 DEF Written, RuleNames
<1> QED
  BY <1>0, <1>10t, <1>12, <1>13, <1>14 DEF f0

(***************************************************************************)
(* The form of an unblock: the page's own token, the index it was given,   *)
(* and under that index the address that was asked.                        *)
(***************************************************************************)
THEOREM UnblockFormEffect ==
  ASSUME NEW page, ScrapedPage(page), NEW mac \in Text, NEW index \in Digits,
         NEW new, new = UnblockForm(page, mac, index)
  PROVE  /\ new \in Seq(Field)
         /\ GetField(new, Plain("IF_ACTION")) = "delete"
         /\ GetField(new, Plain("_SESSION_TOKEN")) =
              GetField(ExtractFormFields(page), Plain("_SESSION_TOKEN"))
         /\ GetField(new, Plain("IF_INDEX")) = index
         /\ GetField(new, Indexed("MACAddress", index)) = mac
<1> DEFINE fields == ExtractFormFields(page)
           token  == GetField(fields, Plain("_SESSION_TOKEN"))
           view   == GetField(fields, Plain("IF_VIEWID"))
<1>1. fields \in Seq(Field)
  BY ExtractType
<1>2. token \in Text /\ view \in Text
  BY <1>1, GetFieldType
<1>3. index \in Text /\ index # NoText
  BY LiteralsAreText
<1>4. \A b \in Base : Plain(b) \in Name /\ Indexed(b, index) \in Name
  BY DEF Plain, Indexed, Name
<1>5. /\ Plain("IF_ACTION") \in Name /\ Plain("IF_ERRORSTR") \in Name
      /\ Plain("IF_ERRORPARAM") \in Name /\ Plain("IF_ERRORTYPE") \in Name
      /\ Plain("IF_VIEWID") \in Name /\ Plain("_SESSION_TOKEN") \in Name
      /\ Plain("IF_INDEX") \in Name /\ Plain("IF_INSTNUM") \in Name
      /\ Indexed("ViewName", index) \in Name /\ Indexed("Interface", index) \in Name
      /\ Indexed("MACAddress", index) \in Name
  BY <1>4, NamesInBase
<1> HIDE DEF fields, token, view
<1>6. new = << Pair(Plain("IF_ACTION"), "delete"), Pair(Plain("IF_ERRORSTR"), "SUCC"),
               Pair(Plain("IF_ERRORPARAM"), "SUCC"), Pair(Plain("IF_ERRORTYPE"), "-1"),
               Pair(Plain("IF_VIEWID"), view), Pair(Plain("_SESSION_TOKEN"), token),
               Pair(Plain("IF_INDEX"), index), Pair(Plain("IF_INSTNUM"), "1"),
               Pair(Indexed("ViewName", index), "IGD.ACL1"),
               Pair(Indexed("Interface", index), "0"),
               Pair(Indexed("MACAddress", index), mac) >>
  BY Zenon DEF UnblockForm, fields, token, view
<1>7. /\ Pair(Plain("IF_ACTION"), "delete") \in Field /\ Pair(Plain("IF_ERRORSTR"), "SUCC") \in Field
      /\ Pair(Plain("IF_ERRORPARAM"), "SUCC") \in Field /\ Pair(Plain("IF_ERRORTYPE"), "-1") \in Field
      /\ Pair(Plain("IF_VIEWID"), view) \in Field /\ Pair(Plain("_SESSION_TOKEN"), token) \in Field
      /\ Pair(Plain("IF_INDEX"), index) \in Field /\ Pair(Plain("IF_INSTNUM"), "1") \in Field
      /\ Pair(Indexed("ViewName", index), "IGD.ACL1") \in Field
      /\ Pair(Indexed("Interface", index), "0") \in Field
      /\ Pair(Indexed("MACAddress", index), mac) \in Field
  BY <1>2, <1>3, <1>5, LiteralsInText, PairIsField
<1>8. new \in Seq(Field)
  BY <1>6, <1>7
<1>9. /\ Len(new) = 11
      /\ new[1].name = Plain("IF_ACTION") /\ new[2].name = Plain("IF_ERRORSTR")
      /\ new[3].name = Plain("IF_ERRORPARAM") /\ new[4].name = Plain("IF_ERRORTYPE")
      /\ new[5].name = Plain("IF_VIEWID") /\ new[6].name = Plain("_SESSION_TOKEN")
      /\ new[7].name = Plain("IF_INDEX") /\ new[8].name = Plain("IF_INSTNUM")
      /\ new[9].name = Indexed("ViewName", index)
      /\ new[10].name = Indexed("Interface", index)
      /\ new[11].name = Indexed("MACAddress", index)
      /\ new[1].value = "delete" /\ new[6].value = token /\ new[7].value = index
      /\ new[11].value = mac
  BY <1>6 DEF Pair
<1>10. \A a, b : (Plain(a) = Plain(b) => a = b) /\ Plain(a) # Indexed(b, index)
                /\ (Indexed(a, index) = Indexed(b, index) => a = b)
  BY <1>3 DEF Plain, Indexed
<1>11. /\ IsFirst(new, Plain("IF_ACTION"), 1) /\ IsFirst(new, Plain("_SESSION_TOKEN"), 6)
       /\ IsFirst(new, Plain("IF_INDEX"), 7)
       /\ IsFirst(new, Indexed("MACAddress", index), 11)
  <2>1. \A i \in 1..Len(new) : i \in {1, 2, 3, 4, 5, 6, 7, 8, 9, 10, 11}
    BY <1>9
  <2> QED
    BY <1>9, <1>10, <2>1 DEF IsFirst
<1>12. 1 \in 1..Len(new) /\ 6 \in 1..Len(new) /\ 7 \in 1..Len(new) /\ 11 \in 1..Len(new)
  BY <1>9
<1>13. /\ GetField(new, Plain("IF_ACTION")) = new[1].value
       /\ GetField(new, Plain("_SESSION_TOKEN")) = new[6].value
       /\ GetField(new, Plain("IF_INDEX")) = new[7].value
       /\ GetField(new, Indexed("MACAddress", index)) = new[11].value
  BY <1>8, <1>11, <1>12, GetFieldFirst
<1> QED
  BY <1>8, <1>9, <1>13 DEF fields, token

=============================================================================
