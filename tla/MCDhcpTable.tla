---------------------------- MODULE MCDhcpTable -----------------------------
(***************************************************************************)
(* DhcpTable with two rows whose numbers sort otherwise as texts, and a    *)
(* number beyond the largest int.  Texts are empty, plain, in escapes, or  *)
(* with a backslash that starts no escape or a wrong one.                  *)
(***************************************************************************)
EXTENDS DhcpTable

colon == <<92, 120, 51, 97>>         \* \x3a
slash == <<92, 120, 53, 99, 120>>    \* \x5cx, a backslash before an x

MCGiven == {<<66, 58>>, <<92, 120>>, <<58, 98>>}

Call(key, index, texts) == [key : {key}, index : {index}, text : texts]

MCMatch ==
  UNION {Call("MACAddr", i, {<< >>, <<65, 98>>, colon \o <<98>>}) \cup
         Call("IPAddr", i, {<< >>, <<57>>}) : i \in {2, 10}} \cup
  Call("HostName", 2, {<< >>, slash, <<66>> \o colon}) \cup
  Call("HostName", 10, {<<92, 120, 51>>, <<92, 120, 45, 50>>}) \cup
  Call("other", 2, {<<92, 120, 43, 49>>, <<92, 120, 51, 103>>}) \cup
  Call("other", 11, {<<92, 120, 103, 49>>})

=============================================================================
