------------------------ MODULE MCCommandDispatcher -------------------------
(***************************************************************************)
(* CommandDispatcher with an answer of each kind its commands tell apart:  *)
(* a login form (an expiry in session), a page, a redirect, an access      *)
(* control list with and without the address, a device table, a table      *)
(* std::stoi rejects, an exchange that failed before or in the body.       *)
(***************************************************************************)
EXTENDS CommandDispatcher

CONSTANT d1  \* a DHCP row

MCDigits == {"0"}
MCText   == Literals \cup {"aa", "t1"}
MCLower  == [t \in MCText |-> t]
MCDevice == {d1}

Some    == [EmptyPage EXCEPT !.blank = FALSE]
Fields(rows) == << Pair(Plain("_SESSION_TOKEN"), "t1") >> \o rows
Ok(page) == [NoResponse EXCEPT !.status = 200, !.page = page]

MCResponses ==
  {Ok([Some EXCEPT !.form = TRUE, !.user = TRUE]), Ok(Some),
   [NoResponse EXCEPT !.status = 302, !.location = "other"],
   Ok([Some EXCEPT !.inputs = Fields(<< Pair(Indexed("MACAddress", "0"), "aa") >>)]),
   Ok([Some EXCEPT !.inputs = Fields(<< >>)]),
   Ok([Some EXCEPT !.leases = << d1 >>]), Ok([Some EXCEPT !.leases = Overflow]),
   [NoResponse EXCEPT !.error = TRUE], [NoResponse EXCEPT !.error = TRUE, !.page = Some]}

=============================================================================
