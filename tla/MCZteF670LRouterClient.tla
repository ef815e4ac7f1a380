----------------------- MODULE MCZteF670LRouterClient -----------------------
(***************************************************************************)
(* ZteF670LRouterClient over the answers that make it branch: every page   *)
(* the router serves, cut short or without its token, the status codes the *)
(* code compares with, both kinds of Location, a failed exchange with and  *)
(* without part of the login page, and two values of the session cookie.   *)
(***************************************************************************)
EXTENDS ZteF670LRouterClient, TLC

CONSTANTS d1, d2  \* two DHCP rows

MCDigits == {"0", "1"}
MCText   == Literals \cup {"aa", "AA", "bb", "t1", "t2"}
MCLower  == [t \in MCText |-> IF t = "AA" THEN "aa" ELSE t]
MCDevice == {d1, d2}

Some == [EmptyPage EXCEPT !.blank = FALSE]

LoginPage    == [Some EXCEPT !.form = TRUE, !.user = TRUE, !.loginToken = "t1", !.checkToken = "t2"]
CutLoginPage == [Some EXCEPT !.user = TRUE]
NoCheckPage  == [LoginPage EXCEPT !.checkToken = ""]

Token(t) == Pair(Plain("_SESSION_TOKEN"), t)
Row(i, m) == Pair(Indexed("MACAddress", i), m)
TokenScript(t) == [declares |-> TRUE, token |-> t, holder |-> "t1", filled |-> {"t1"}]
OtherScript    == [TokenScript("t1") EXCEPT !.filled = {"t2"}]

\* One row, in capitals, and the token in an input.
AclPage1 == [Some EXCEPT !.inputs = << Token("t1"), Row("0", "AA") >>]
\* Two rows made by scripts, and the token of the second script.
AclPage2 == [Some EXCEPT !.inputs = << Pair(Plain("IF_VIEWID"), "1"), Pair(Plain("IF_ACTION"), "") >>,
                         !.hidden = << Row("0", "bb"), Row("1", "aa") >>,
                         !.scripts = << OtherScript, TokenScript("t2") >>]
\* An empty token field before the script that fills it.
ShadowedPage == [AclPage2 EXCEPT !.inputs = << Token("") >>]

\* The login page, served where the access control list was asked for, with a form token.
TokenLoginPage == [LoginPage EXCEPT !.scripts = << TokenScript("t2") >>]

DhcpPage     == [Some EXCEPT !.leases = << d1, d2 >>]
OverflowPage == [Some EXCEPT !.leases = Overflow]

Answer200 == [error |-> FALSE, status |-> 200, location |-> "none", cookies |-> NoJar, page |-> Some]
Pages == {Some, EmptyPage, LoginPage, CutLoginPage, NoCheckPage, AclPage1, AclPage2,
          ShadowedPage, TokenLoginPage, DhcpPage, OverflowPage}

Shapes ==
       {[Answer200 EXCEPT !.page = p] : p \in Pages}
  \cup {[Answer200 EXCEPT !.status = 302, !.location = l, !.page = EmptyPage] :
          l \in {"none", "login", "other"}}
  \cup {[Answer200 EXCEPT !.status = s] : s \in {0, 401, 500}}
  \cup {[Answer200 EXCEPT !.error = TRUE, !.status = 0, !.page = p] : p \in {EmptyPage, LoginPage}}

MCResponses == {[s EXCEPT !.cookies = jar] : s \in Shapes, jar \in Jar}

=============================================================================
