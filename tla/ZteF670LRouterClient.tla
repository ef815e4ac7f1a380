------------------------ MODULE ZteF670LRouterClient ------------------------
(***************************************************************************)
(* The router client: ZteF670LRouterClient.cpp, one object used by one     *)
(* thread.  A method runs until it has called httpClient_.send(), and goes *)
(* on when the answer is there, so a step of this module is the code from  *)
(* one answer to the next request, and pc names the request pending.       *)
(*                                                                         *)
(* The environment is open: any response of Responses answers any request, *)
(* the failed exchanges (error set) with what was read of the answer       *)
(* before it broke off.  ManagedRouter closes it.                          *)
(*                                                                         *)
(* sessionToken_ is left out: it is only ever cleared.  The user name, the *)
(* password and its hash are left out: the router alone looks at them.     *)
(***************************************************************************)
EXTENDS FormFields

CONSTANTS
  CookieName, CookieValue,
  NoCookie,    \* the jar or the answer has no cookie of that name
  Device,      \* what a row of the DHCP table says of a device
  Overflow,    \* a DHCP table with an index that std::stoi rejects
  Mac,         \* the addresses the user may ask to block or unblock, "" included
  Responses    \* the answers the environment may give

Jar     == [CookieName -> CookieValue \cup {NoCookie}]
NoJar   == [n \in CookieName |-> NoCookie]

(***************************************************************************)
(* What the client reads in a body: whether it contains "Frm_Logintoken"   *)
(* (form) and "Username" (user), whether it is empty (blank), the two      *)
(* login tokens, the form fields, and the DHCP table.                      *)
(***************************************************************************)
Page == [form : BOOLEAN, user : BOOLEAN, blank : BOOLEAN,
         loginToken : Text, checkToken : Text,
         inputs : Seq(Field), hidden : Seq(Field), scripts : Seq(Script),
         leases : Seq(Device) \cup {Overflow}]

\* The Location header matters by whether it contains "login".
HttpResponse == [error : BOOLEAN, status : Nat, location : {"none", "login", "other"},
                 cookies : Jar, page : Page]

ASSUME ClientAssumption == /\ NoCookie \notin CookieValue
                           /\ Overflow \notin Seq(Device)
                           /\ Mac \subseteq Text
                           /\ Responses \subseteq HttpResponse

Path        == {"none", "/", "location", "logoff", "info", "dhcp", "acl"}
HttpRequest == [method : {"GET", "POST"}, path : Path, cookies : Jar, form : Seq(Field)]

EmptyPage == [form |-> FALSE, user |-> FALSE, blank |-> TRUE,
              loginToken |-> NoText, checkToken |-> NoText,
              inputs |-> << >>, hidden |-> << >>, scripts |-> << >>, leases |-> << >>]

VARIABLES
  loggedIn,   \* loggedIn_
  cookies,    \* cookies_
  pc,         \* the request being waited for; "idle" between two method calls
  mac,        \* macAddress of the last blockDevice() or unblockDevice()
  req,        \* the last request handed to send()
  resp,       \* the last answer
  result      \* what the last call returned, NoResult while it runs

vars == <<loggedIn, cookies, pc, mac, req, resp, result>>

Waiting == {"loginPage", "loginPost", "loginFollow", "logoff", "info", "dhcp",
            "blockPage", "blockPost", "unblockPage", "unblockPost"}
Ops      == {"none", "login", "logout", "info", "devices", "block", "unblock"}
Outcomes == {"none", "success", "credentials", "rejected", "noMac", "notLoggedIn",
             "expired", "error", "status", "noToken", "notListed", "mayHaveFailed",
             "active", "unknown"}

Result   == [op : Ops, outcome : Outcomes, devices : Seq(Device)]
NoResult == [op |-> "none", outcome |-> "none", devices |-> << >>]

NoRequest  == [method |-> "GET", path |-> "none", cookies |-> NoJar, form |-> << >>]
NoResponse == [error |-> FALSE, status |-> 0, location |-> "none",
               cookies |-> NoJar, page |-> EmptyPage]

Init ==
  /\ loggedIn = FALSE
  /\ cookies = NoJar
  /\ pc = "idle"
  /\ mac = NoText
  /\ req = NoRequest
  /\ resp = NoResponse
  /\ result = NoResult

-----------------------------------------------------------------------------
(* Every exchange: httpGet() and httpPost() *)

\* What checkSessionExpiration() takes for the login page.
ShowsLogin(r) == r.status = 401 \/ r.location = "login" \/ r.page.form

MergeCookies(jar, r) ==
  [n \in CookieName |-> IF r.cookies[n] = NoCookie THEN jar[n] ELSE r.cookies[n]]

\* loggedIn_ and cookies_ when send() has returned r: the cookies are merged
\* first, so an answer that ends the session takes its own cookies with it.
InSessionUnlessError(r) == loggedIn /\ ~ShowsLogin(r) /\ ~r.error
InSession(r) == loggedIn /\ ~ShowsLogin(r)
JarAfterCleared(r) ==
  MergeCookies(IF loggedIn /\ ShowsLogin(r) THEN NoJar ELSE cookies, r)
JarAfterKept(r) == MergeCookies(cookies, r)
JarAfter(r) == IF loggedIn /\ ShowsLogin(r) THEN NoJar ELSE MergeCookies(cookies, r)

HttpGet(step, path, jar) ==
  /\ pc' = step
  /\ req' = [method |-> "GET", path |-> path, cookies |-> jar, form |-> << >>]

HttpPost(step, path, form, jar) ==
  /\ pc' = step
  /\ req' = [method |-> "POST", path |-> path, cookies |-> jar, form |-> form]

Return(op, outcome, devices) ==
  /\ pc' = "idle"
  /\ result' = [op |-> op, outcome |-> outcome, devices |-> devices]

\* A method starts: the last result is gone.
Call(step, path) ==
  /\ HttpGet(step, path, cookies)
  /\ result' = NoResult
  /\ UNCHANGED <<loggedIn, cookies, resp>>

\* A method that returns without a request.
Refuse(op, outcome) ==
  /\ Return(op, outcome, << >>)
  /\ UNCHANGED <<loggedIn, cookies, mac, req, resp>>

\* An answer: the request it is for is no longer pending.
Absorb(step, r) ==
  /\ pc = step
  /\ resp' = r
  /\ cookies' = JarAfter(r)
  /\ UNCHANGED mac

-----------------------------------------------------------------------------
(* login() *)

TokenField(base, value) == IF value = NoText THEN << >> ELSE << Pair(Plain(base), value) >>

LoginForm(page) ==
  << Pair(Plain("action"), "login") >> \o
  TokenField("Frm_Logintoken", page.loginToken) \o
  TokenField("Frm_Loginchecktoken", page.checkToken)

Login(given) ==
  /\ pc = "idle"
  /\ IF given THEN Call("loginPage", "/") /\ UNCHANGED mac
              ELSE Refuse("login", "credentials")

LoginPageReply(r) ==
  /\ Absorb("loginPage", r)
  /\ IF r.error
       THEN /\ loggedIn' = FALSE
            /\ Return("login", "error", << >>)
            /\ UNCHANGED req
       ELSE /\ loggedIn' = InSession(r)
            /\ HttpPost("loginPost", "/", LoginForm(r.page), JarAfter(r))
            /\ UNCHANGED result

IsRedirect(r) == r.status \in {301, 302}
Accepts(r)    == IsRedirect(r) \/ (r.status = 200 /\ ~r.page.form /\ ~r.page.user)

LoggedInByStale(r) == InSession(r) \/ (~r.error /\ Accepts(r))
LoggedInBy(r)      == ~r.error /\ Accepts(r)

LoginPostReply(r) ==
  /\ Absorb("loginPost", r)
  /\ loggedIn' = LoggedInBy(r)
  /\ IF ~r.error /\ Accepts(r) /\ IsRedirect(r) /\ r.location # "none"
       THEN HttpGet("loginFollow", "location", JarAfter(r)) /\ UNCHANGED result
       ELSE /\ Return("login",
                      IF r.error THEN "error" ELSE IF Accepts(r) THEN "success" ELSE "rejected",
                      << >>)
            /\ UNCHANGED req

\* The redirect's answer is dropped, but httpGet() has looked at it.
LoginFollowReply(r) ==
  /\ Absorb("loginFollow", r)
  /\ loggedIn' = InSession(r)
  /\ Return("login", "success", << >>)
  /\ UNCHANGED req

-----------------------------------------------------------------------------
(* logout() *)

Logout ==
  /\ pc = "idle"
  /\ UNCHANGED mac
  /\ IF loggedIn
       THEN Call("logoff", "logoff")
       ELSE /\ cookies' = NoJar
            /\ Return("logout", "success", << >>)
            /\ UNCHANGED <<loggedIn, req, resp>>

\* Whatever the router says, and whatever cookies it sets.
LogoffReply(r) ==
  /\ pc = "logoff"
  /\ resp' = r
  /\ loggedIn' = FALSE
  /\ cookies' = NoJar
  /\ Return("logout", "success", << >>)
  /\ UNCHANGED <<mac, req>>

-----------------------------------------------------------------------------
(* routerInfo() and connectedDevices() *)

RouterInfo ==
  /\ pc = "idle"
  /\ IF loggedIn THEN Call("info", "info") /\ UNCHANGED mac
                 ELSE Refuse("info", "notLoggedIn")

Readable(r) == InSession(r) /\ ~r.error /\ ~r.page.blank

\* RouterInfo.wanStatus.
WanStatusUnchecked(r) == IF ~r.error /\ ~r.page.blank THEN "active" ELSE "unknown"
WanStatus(r) ==
  IF ~InSession(r) THEN "expired" ELSE IF Readable(r) THEN "active" ELSE "unknown"

InfoReply(r) ==
  /\ Absorb("info", r)
  /\ loggedIn' = InSession(r)
  /\ Return("info", WanStatus(r), << >>)
  /\ UNCHANGED req

ConnectedDevices ==
  /\ pc = "idle"
  /\ IF loggedIn THEN Call("dhcp", "dhcp") /\ UNCHANGED mac
                 ELSE Refuse("devices", "none")

DhcpReplyUncaught(r) ==
  /\ Absorb("dhcp", r)
  /\ loggedIn' = InSession(r)
  /\ Return("devices", "none", IF Readable(r) THEN r.page.leases ELSE << >>)
  /\ UNCHANGED req

\* std::out_of_range leaves connectedDevices() and nothing catches it.
DhcpReply(r) ==
  /\ Absorb("dhcp", r)
  /\ loggedIn' = InSession(r)
  /\ IF Readable(r) /\ r.page.leases = Overflow
       THEN pc' = "aborted" /\ UNCHANGED result
       ELSE Return("devices", "none", IF Readable(r) THEN r.page.leases ELSE << >>)
  /\ UNCHANGED req

-----------------------------------------------------------------------------
(* blockDevice() and unblockDevice() *)

PageToken(page) == GetField(ExtractFormFields(page), Plain("_SESSION_TOKEN"))

\* What ends the call before anything is posted, "none" if nothing does.
AclPageProblemUnchecked(r) ==
  IF r.error THEN "error"
  ELSE IF r.status # 200 THEN "status"
  ELSE IF PageToken(r.page) = NoText THEN "noToken"
  ELSE "none"
AclPageProblem(r) ==
  IF ~InSession(r) THEN "expired"
  ELSE IF r.error THEN "error"
  ELSE IF r.status # 200 THEN "status"
  ELSE IF PageToken(r.page) = NoText THEN "noToken"
  ELSE "none"

AclVerdictUnchecked(r) ==
  IF r.error THEN "error"
  ELSE IF r.status \in 200..399 THEN "success"
  ELSE "mayHaveFailed"
AclVerdict(r) ==
  IF ~InSession(r) THEN "expired"
  ELSE IF r.error THEN "error"
  ELSE IF r.status \in 200..399 THEN "success"
  ELSE "mayHaveFailed"

CallAcl(op, step, m) ==
  /\ pc = "idle"
  /\ CASE m = NoText -> Refuse(op, "noMac")
       [] m # NoText /\ ~loggedIn -> Refuse(op, "notLoggedIn")
       [] OTHER -> Call(step, "acl") /\ mac' = m

AclReplyRetrying(op, step, r) ==
  /\ Absorb(step, r)
  /\ loggedIn' = InSession(r)
  /\ IF r.error THEN UNCHANGED <<pc, result>> ELSE Return(op, AclVerdict(r), << >>)
  /\ UNCHANGED req
AclReply(op, step, r) ==
  /\ Absorb(step, r)
  /\ loggedIn' = InSession(r)
  /\ Return(op, AclVerdict(r), << >>)
  /\ UNCHANGED req

BlockDevice(m) == CallAcl("block", "blockPage", m)

BlockPageReply(r) ==
  /\ Absorb("blockPage", r)
  /\ loggedIn' = InSession(r)
  /\ IF AclPageProblem(r) # "none"
       THEN Return("block", AclPageProblem(r), << >>) /\ UNCHANGED req
       ELSE /\ HttpPost("blockPost", "acl", BlockForm(r.page, mac), JarAfter(r))
            /\ UNCHANGED result

BlockPostReply(r) == AclReply("block", "blockPost", r)

UnblockDevice(m) == CallAcl("unblock", "unblockPage", m)

FirstRow(page, m) ==
  LET fields == ExtractFormFields(page)
      first  == SelectInSeq(fields, LAMBDA f : f.name.base = "MACAddress" /\ f.name.suffix # NoText)
  IN  IF first = 0 THEN NoText ELSE fields[first].name.suffix
RowOf(page, m) == FindAclIndexByMac(ExtractFormFields(page), m)

UnblockPageReply(r) ==
  /\ Absorb("unblockPage", r)
  /\ loggedIn' = InSession(r)
  /\ IF AclPageProblem(r) # "none"
       THEN Return("unblock", AclPageProblem(r), << >>) /\ UNCHANGED req
     ELSE IF RowOf(r.page, mac) = NoText
       THEN Return("unblock", "notListed", << >>) /\ UNCHANGED req
     ELSE /\ HttpPost("unblockPost", "acl",
                     UnblockForm(r.page, mac, RowOf(r.page, mac)), JarAfter(r))
          /\ UNCHANGED result

UnblockPostReply(r) == AclReply("unblock", "unblockPost", r)

-----------------------------------------------------------------------------

\* The process is started again after std::terminate: a new object, no session.
Restart ==
  /\ pc = "aborted"
  /\ pc' = "idle"
  /\ loggedIn' = FALSE
  /\ cookies' = NoJar
  /\ mac' = NoText
  /\ req' = NoRequest
  /\ resp' = NoResponse
  /\ result' = NoResult

UserCall ==
  \/ \E given \in BOOLEAN : Login(given)
  \/ Logout
  \/ RouterInfo
  \/ ConnectedDevices
  \/ \E m \in Mac : BlockDevice(m)
  \/ \E m \in Mac : UnblockDevice(m)

Reply(r) ==
  \/ LoginPageReply(r)
  \/ LoginPostReply(r)
  \/ LoginFollowReply(r)
  \/ LogoffReply(r)
  \/ InfoReply(r)
  \/ DhcpReply(r)
  \/ BlockPageReply(r)
  \/ BlockPostReply(r)
  \/ UnblockPageReply(r)
  \/ UnblockPostReply(r)

Answered == \E r \in Responses : Reply(r)

Next == UserCall \/ Answered \/ Restart

\* send() returns: both HTTP clients give a request timeoutSeconds and report
\* its end as an error.  Nothing makes the user call.
Fairness == WF_vars(Answered)

Spec == Init /\ [][Next]_vars /\ Fairness

-----------------------------------------------------------------------------
(* Properties *)

Pending == pc \in Waiting

TypeOK ==
  /\ loggedIn \in BOOLEAN
  /\ cookies \in Jar
  /\ pc \in Waiting \cup {"idle", "aborted"}
  /\ mac \in Mac \cup {NoText}
  /\ req \in HttpRequest
  /\ resp \in HttpResponse
  /\ result \in Result

(***************************************************************************)
(* No page of the router's management and no change is asked for without a *)
(* session (HtmlParsingTests: BlockDeviceFailsWhenNotLoggedIn): loggedIn_  *)
(* is tested on entry, but the page read before the post may end it.       *)
(***************************************************************************)
GatedRequests ==
  Pending /\ req.path \in {"logoff", "info", "dhcp", "acl"} => loggedIn

(***************************************************************************)
(* A change that is posted was made from the page this call has just read, *)
(* in session and without error: its token is the page's, and the row an   *)
(* unblock deletes is a row of that page that holds the MAC, whatever the  *)
(* case of its letters.                                                    *)
(***************************************************************************)
PostedFromThisPage ==
  LET page == ExtractFormFields(resp.page)
      row  == GetField(req.form, Plain("IF_INDEX"))
      Posted(base, suffix) == GetField(req.form, [base |-> base, suffix |-> suffix])
  IN  pc \in {"blockPost", "unblockPost"} =>
        /\ ~resp.error /\ resp.status = 200 /\ ~ShowsLogin(resp)
        /\ Posted("_SESSION_TOKEN", NoText) \in {f.value : f \in Range(page)} \ {NoText}
        /\ pc = "blockPost" => Posted("MACAddress", NoText) = mac
        /\ pc = "unblockPost" =>
              /\ Lower[Posted("MACAddress", row)] = Lower[mac]
              /\ \E f \in Range(page) : f.name = Indexed("MACAddress", row)
                                       /\ Lower[f.value] = Lower[mac]

(***************************************************************************)
(* blockDevice() and unblockDevice() report success only for a change that *)
(* was posted, for the MAC asked, and answered 2xx or 3xx in the session.  *)
(***************************************************************************)
SuccessWasAnswered ==
  result.op \in {"block", "unblock"} /\ result.outcome = "success" =>
    /\ loggedIn
    /\ req.method = "POST" /\ req.path = "acl"
    /\ GetField(req.form, Plain("IF_ACTION")) =
         (IF result.op = "block" THEN "new" ELSE "delete")
    /\ \E f \in Range(req.form) : f.name.base = "MACAddress" /\ f.value = mac
    /\ ~resp.error /\ resp.status \in 200..399 /\ ~ShowsLogin(resp)

(***************************************************************************)
(* An answer that shows the login page is taken for nothing else (login    *)
(* page detection, ENGINEERING.md; HtmlParsingTests).  routerInfo() and    *)
(* the two changes tell their caller that the session expired, exactly     *)
(* when their last answer showed the page.  connectedDevices() and         *)
(* logout(), which return a list and nothing, cannot tell: they return no  *)
(* device of such a page and leave no session behind.                      *)
(***************************************************************************)
ExpiryReported ==
  [][Pending /\ ~Pending' =>
       /\ result'.op \in {"info", "block", "unblock"} =>
            (result'.outcome = "expired" <=> ShowsLogin(resp'))
       /\ pc \in {"dhcp", "logoff"} /\ ShowsLogin(resp') =>
            pc' = "idle" /\ result'.devices = << >> /\ ~loggedIn']_vars

(***************************************************************************)
(* Outside login() and a restart the session ends by logout() or by an     *)
(* answer that shows the login page, and by nothing else: a timeout, an    *)
(* error status or a broken page keeps it.  It begins with an answer to    *)
(* the login post.                                                         *)
(***************************************************************************)
SessionChange ==
  [][/\ loggedIn /\ ~loggedIn' =>
          \/ pc \in {"loginPage", "loginPost", "logoff", "aborted"}
          \/ pc \in Waiting /\ ShowsLogin(resp')
     /\ ~loggedIn /\ loggedIn' =>
          pc = "loginPost" /\ ~resp'.error /\ resp'.status \in {200, 301, 302}]_vars

(***************************************************************************)
(* What login() returns and what it leaves agree: after a failure that got *)
(* as far as the router there is no session, even where there was one; a   *)
(* success leaves one unless the page the router redirected to took it.    *)
(***************************************************************************)
LoginOutcome ==
  result.op = "login" =>
    /\ result.outcome \in {"error", "rejected"} => ~loggedIn
    /\ result.outcome = "success" /\ ~loggedIn =>
         req.path = "location" /\ ShowsLogin(resp) /\ cookies = NoJar

(***************************************************************************)
(* Nothing of an ended session is left to be sent with the next one: after *)
(* logout() or an expiry the jar is empty, the cookies of the answer that  *)
(* ended it included.                                                      *)
(***************************************************************************)
EndedSessionForgotten ==
  result.op = "logout" \/ result.outcome = "expired" => ~loggedIn /\ cookies = NoJar

(***************************************************************************)
(* Every call comes back to the menu, or takes the process down: no answer *)
(* makes a method ask again for ever.                                      *)
(***************************************************************************)
CallReturns == Pending ~> ~Pending

(***************************************************************************)
(* The client is an implementation of RouterSession.                       *)
(***************************************************************************)
Abstract == INSTANCE RouterSession WITH
  session <- loggedIn,
  ok      <- result.outcome = "success",
  phase   <- CASE pc = "idle" -> "none"
               [] pc \in {"loginPage", "loginPost", "loginFollow"} -> "login"
               [] pc = "logoff" -> "logout"
               [] pc \in {"info", "dhcp", "aborted"} -> "read"
               [] pc \in {"blockPage", "unblockPage"} -> "prepare"
               [] pc \in {"blockPost", "unblockPost"} -> "change"

ImplementsRouterSession == Abstract!AbstractSpec

-----------------------------------------------------------------------------
(* What the comments of the source say and the code does not do *)

(***************************************************************************)
(* A successful login is a login: "Check for success: redirect (302) to a  *)
(* dashboard page, or 200 with no login form".                             *)
(***************************************************************************)
LoginSuccessMeansSession ==
  result.op = "login" /\ result.outcome = "success" => loggedIn

(***************************************************************************)
(* The credentials are posted with the cookies of the login page: "GET     *)
(* login page to obtain CSRF tokens and initial cookies".                  *)
(***************************************************************************)
LoginPostCarriesPageCookies ==
  pc = "loginPost" =>
    \A n \in CookieName : resp.cookies[n] # NoCookie => req.cookies[n] = resp.cookies[n]

=============================================================================
