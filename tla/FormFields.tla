------------------------------ MODULE FormFields ------------------------------
(***************************************************************************)
(* The form fields the router client scrapes from an ACL page and posts    *)
(* back: FormFields of ZteF670LRouterClient.cpp, a list of (name, value)   *)
(* pairs in page order that may hold a name more than once.                *)
(*                                                                         *)
(* A name is split where the client splits it: a base and a digit suffix   *)
(* ("MACAddress" and "0"), the suffix being "" on a plain name.  A value   *)
(* is a text; a page is reduced to what the regular expressions of         *)
(* extractFormFields find in it.                                           *)
(***************************************************************************)
EXTENDS Integers, Sequences, SequencesExt

CONSTANTS
  Base,     \* the names of fields without their suffix
  Text,     \* the values a field can hold, "" and the literals of the code included
  Digits,   \* the texts that are digits only: the suffixes of indexed names
  Lower     \* Lower[t] is t with its ASCII letters in lower case

\* The empty string.
NoText == ""

\* The values and the names that stand in the code.
Literals == {NoText, "new", "delete", "SUCC", "-1", "0", "1", "NULL", "Ban", "IGD.ACL1", "login"}
Names    == {"action", "Frm_Logintoken", "Frm_Loginchecktoken", "_SESSION_TOKEN",
             "IF_ACTION", "IF_ERRORSTR", "IF_ERRORPARAM", "IF_ERRORTYPE", "IF_INDEX",
             "IF_INSTNUM", "IF_VIEWID", "ViewName", "Interface", "MACAddress", "ACLPolicy"}

ASSUME TextAssumption == /\ Names \subseteq Base
                         /\ Literals \subseteq Text
                         /\ Digits \subseteq Text \ {NoText}
                         /\ Lower \in [Text -> Text]

Name  == [base : Base, suffix : Digits \cup {NoText}]
Field == [name : Name, value : Text]

Plain(base)          == [base |-> base, suffix |-> NoText]
Indexed(base, index) == [base |-> base, suffix |-> index]
Pair(name, value)    == [name |-> name, value |-> value]

-----------------------------------------------------------------------------
(* Scraping *)

(***************************************************************************)
(* An inline script: whether it declares `var session_token`, with which   *)
(* value, the variable whose name attribute it sets to _SESSION_TOKEN ("": *)
(* none), and the variables whose value attribute it sets to               *)
(* session_token.                                                          *)
(***************************************************************************)
Script == [declares : BOOLEAN, token : Text, holder : Text, filled : SUBSET Text]

MakesTokenField(script) ==
  /\ script.declares
  /\ script.holder # NoText
  /\ script.holder \in script.filled

(***************************************************************************)
(* Named <input> tags, then createHiddenInput calls, then the token of the *)
(* first script that creates the _SESSION_TOKEN input.                     *)
(***************************************************************************)
ExtractFormFields(page) ==
  LET first == SelectInSeq(page.scripts, MakesTokenField)
  IN  page.inputs \o page.hidden \o
        IF first = 0 THEN << >>
        ELSE << Pair(Plain("_SESSION_TOKEN"), page.scripts[first].token) >>

-----------------------------------------------------------------------------
(* Reading and writing the list *)

\* Where both functions stop: the first field of that name, 0 for none.
FirstNamed(fields, name) == SelectInSeq(fields, LAMBDA f : f.name = name)

GetField(fields, name) ==
  LET first == FirstNamed(fields, name)
  IN  IF first = 0 THEN NoText ELSE fields[first].value

PutLast(fields, at, field) == Append(fields, field)
Put(fields, at, field) ==
  IF at = 0 THEN Append(fields, field) ELSE [fields EXCEPT ![at] = field]

SetField(fields, name, value) ==
  Put(fields, FirstNamed(fields, name), Pair(name, value))

AsciiEqualIgnoreCase(lhs, rhs) == Lower[lhs] = Lower[rhs]

IsAclRow(field, mac) ==
  /\ field.name.base = "MACAddress"
  /\ field.name.suffix # NoText
  /\ AsciiEqualIgnoreCase(field.value, mac)

\* The digit suffix of the first MACAddress<n> field that holds mac, NoText for none.
FindAclIndexByMac(fields, mac) ==
  LET first == SelectInSeq(fields, LAMBDA f : IsAclRow(f, mac))
  IN  IF first = 0 THEN NoText ELSE fields[first].name.suffix

-----------------------------------------------------------------------------
(* The two forms the client posts *)

\* blockDevice(): the page's own fields with the ten the code sets, the
\* router's command first and the rule second.
NewRuleCommand(fields) ==
  LET f1 == SetField(fields, Plain("IF_ACTION"), "new")
      f2 == SetField(f1, Plain("IF_ERRORSTR"), "SUCC")
      f3 == SetField(f2, Plain("IF_ERRORPARAM"), "SUCC")
      f4 == SetField(f3, Plain("IF_ERRORTYPE"), "-1")
      f5 == SetField(f4, Plain("IF_INDEX"), "-1")
  IN  SetField(f5, Plain("IF_INSTNUM"), "0")

BlockForm(page, mac) ==
  LET f6 == NewRuleCommand(ExtractFormFields(page))
      f7 == SetField(f6, Plain("ViewName"), "NULL")
      f8 == SetField(f7, Plain("Interface"), "0")
      f9 == SetField(f8, Plain("MACAddress"), mac)
  IN  SetField(f9, Plain("ACLPolicy"), "Ban")

\* unblockDevice(): a list of its own, built by appending eleven distinct names.
UnblockForm(page, mac, index) ==
  LET fields == ExtractFormFields(page)
  IN  << Pair(Plain("IF_ACTION"), "delete"),
         Pair(Plain("IF_ERRORSTR"), "SUCC"),
         Pair(Plain("IF_ERRORPARAM"), "SUCC"),
         Pair(Plain("IF_ERRORTYPE"), "-1"),
         Pair(Plain("IF_VIEWID"), GetField(fields, Plain("IF_VIEWID"))),
         Pair(Plain("_SESSION_TOKEN"), GetField(fields, Plain("_SESSION_TOKEN"))),
         Pair(Plain("IF_INDEX"), index),
         Pair(Plain("IF_INSTNUM"), "1"),
         Pair(Indexed("ViewName", index), "IGD.ACL1"),
         Pair(Indexed("Interface", index), "0"),
         Pair(Indexed("MACAddress", index), mac) >>

=============================================================================
