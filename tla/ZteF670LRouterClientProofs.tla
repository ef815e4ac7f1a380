--------------------- MODULE ZteF670LRouterClientProofs ---------------------
(***************************************************************************)
(* The router client keeps its types, and its invariants, whatever the     *)
(* router answers: for every set of responses, of addresses, of cookies    *)
(* and of texts.                                                           *)
(***************************************************************************)
EXTENDS ZteF670LRouterClient, FormFieldsProofs

-----------------------------------------------------------------------------
(* The pieces of a step *)

LEMMA ResponseType ==
  ASSUME NEW r \in Responses
  PROVE  /\ r \in HttpResponse
         /\ r.error \in BOOLEAN /\ r.status \in Nat /\ r.cookies \in Jar
         /\ r.page \in Page
         /\ ScrapedPage(r.page)
         /\ r.page.loginToken \in Text /\ r.page.checkToken \in Text
         /\ r.page.leases \in Seq(Device) \cup {Overflow}
<1>1. r \in HttpResponse
  BY ClientAssumption
<1>2. r.error \in BOOLEAN /\ r.status \in Nat /\ r.cookies \in Jar /\ r.page \in Page
  BY <1>1 DEF HttpResponse
<1>3. /\ r.page.inputs \in Seq(Field) /\ r.page.hidden \in Seq(Field)
      /\ r.page.scripts \in Seq(Script)
      /\ r.page.loginToken \in Text /\ r.page.checkToken \in Text
      /\ r.page.leases \in Seq(Device) \cup {Overflow}
  BY <1>2 DEF Page
<1> QED
  BY <1>1, <1>2, <1>3 DEF ScrapedPage

LEMMA NoJarType == NoJar \in Jar
BY DEF NoJar, Jar

LEMMA JarAfterType ==
  ASSUME NEW r \in Responses, cookies \in Jar
  PROVE  JarAfter(r) \in Jar
<1>1. r.cookies \in Jar
  BY ResponseType
<1>2. MergeCookies(cookies, r) \in Jar
  BY <1>1 DEF MergeCookies, Jar
<1> QED
  BY <1>2, NoJarType DEF JarAfter

LEMMA RequestType ==
  ASSUME NEW method \in {"GET", "POST"}, NEW path \in Path, NEW jar \in Jar,
         NEW form \in Seq(Field)
  PROVE  [method |-> method, path |-> path, cookies |-> jar, form |-> form] \in HttpRequest
BY DEF HttpRequest

LEMMA NoFieldsType == << >> \in Seq(Field) /\ << >> \in Seq(Device)
BY EmptySeq

LEMMA ResultType ==
  ASSUME NEW op \in Ops, NEW outcome \in Outcomes, NEW devices \in Seq(Device)
  PROVE  [op |-> op, outcome |-> outcome, devices |-> devices] \in Result
BY DEF Result

LEMMA NoResultType == NoResult \in Result
BY ResultType, NoFieldsType DEF NoResult, Ops, Outcomes

LEMMA EmptyPageType == EmptyPage \in Page
<1>1. NoText \in Text
  BY LiteralsInText
<1>2. << >> \in Seq(Field) /\ << >> \in Seq(Script) /\ << >> \in Seq(Device)
  BY EmptySeq
<1> QED
  BY <1>1, <1>2 DEF EmptyPage, Page

LEMMA StartTypes == NoRequest \in HttpRequest /\ NoResponse \in HttpResponse
<1>1. NoRequest \in HttpRequest
  BY RequestType, NoJarType, NoFieldsType DEF NoRequest, Path
<1>2. NoResponse \in HttpResponse
  BY NoJarType, EmptyPageType DEF NoResponse, HttpResponse
<1> QED
  BY <1>1, <1>2

LEMMA TypeInit == Init => TypeOK
BY NoJarType, StartTypes, NoResultType DEF Init, TypeOK

-----------------------------------------------------------------------------
(* The posted forms *)

LEMMA TokenFieldType ==
  ASSUME NEW base \in Base, NEW value \in Text
  PROVE  TokenField(base, value) \in Seq(Field)
<1>1. Pair(Plain(base), value) \in Field
  BY PlainIsName, PairIsField
<1>2. << Pair(Plain(base), value) >> \in Seq(Field)
  BY <1>1
<1> QED
  BY <1>2, EmptySeq DEF TokenField

LEMMA LoginFormType ==
  ASSUME NEW page, page.loginToken \in Text, page.checkToken \in Text
  PROVE  LoginForm(page) \in Seq(Field)
<1>1. Pair(Plain("action"), "login") \in Field
  BY NamesInBase, LiteralsInText, PlainIsName, PairIsField
<1>2. << Pair(Plain("action"), "login") >> \in Seq(Field)
  BY <1>1
<1>3. /\ TokenField("Frm_Logintoken", page.loginToken) \in Seq(Field)
      /\ TokenField("Frm_Loginchecktoken", page.checkToken) \in Seq(Field)
  BY NamesInBase, TokenFieldType
<1> QED
  BY <1>2, <1>3, ConcatProperties DEF LoginForm

LEMMA MacIsText == TypeOK => mac \in Text
BY LiteralsInText, ClientAssumption DEF TypeOK

LEMMA RowOfType ==
  ASSUME NEW r \in Responses, RowOf(r.page, mac) # NoText
  PROVE  RowOf(r.page, mac) \in Digits
BY ResponseType, ExtractType, AclIndexType DEF RowOf

-----------------------------------------------------------------------------
(* The building blocks of the actions *)

LEMMA CallTypes ==
  ASSUME TypeOK, NEW step \in Waiting, NEW path \in Path, Call(step, path),
         mac' \in Mac \cup {NoText}
  PROVE  TypeOK'
<1>1. req' \in HttpRequest
  BY RequestType, NoFieldsType DEF TypeOK, Call, HttpGet
<1>2. result' \in Result
  BY NoResultType DEF Call
<1> QED
  BY <1>1, <1>2 DEF TypeOK, Call, HttpGet

LEMMA RefuseTypes ==
  ASSUME TypeOK, NEW op \in Ops, NEW outcome \in Outcomes, Refuse(op, outcome)
  PROVE  TypeOK'
<1>1. result' \in Result
  BY ResultType, NoFieldsType DEF Refuse, Return
<1> QED
  BY <1>1 DEF TypeOK, Refuse, Return

LEMMA AbsorbTypes ==
  ASSUME TypeOK, NEW step, NEW r \in Responses, Absorb(step, r)
  PROVE  /\ resp' \in HttpResponse /\ cookies' \in Jar /\ mac' \in Mac \cup {NoText}
         /\ JarAfter(r) \in Jar /\ InSession(r) \in BOOLEAN /\ LoggedInBy(r) \in BOOLEAN
<1>1. resp' \in HttpResponse /\ JarAfter(r) \in Jar
  BY ResponseType, JarAfterType DEF TypeOK, Absorb
<1> QED
  BY <1>1 DEF TypeOK, Absorb, InSession, LoggedInBy

LEMMA ReturnTypes ==
  ASSUME NEW op \in Ops, NEW outcome \in Outcomes, NEW devices \in Seq(Device),
         Return(op, outcome, devices)
  PROVE  pc' = "idle" /\ result' \in Result
BY ResultType DEF Return

LEMMA PostTypes ==
  ASSUME NEW step, NEW path \in Path, NEW form \in Seq(Field), NEW jar \in Jar,
         HttpPost(step, path, form, jar)
  PROVE  pc' = step /\ req' \in HttpRequest
BY RequestType DEF HttpPost

LEMMA OutcomeTypes ==
  ASSUME NEW r
  PROVE  WanStatus(r) \in Outcomes /\ AclPageProblem(r) \in Outcomes /\ AclVerdict(r) \in Outcomes
BY DEF WanStatus, AclPageProblem, AclVerdict, Outcomes

-----------------------------------------------------------------------------
(* A step keeps the types *)

LEMMA UserCallTypes == ASSUME TypeOK, UserCall PROVE TypeOK'
<1>1. ASSUME NEW given \in BOOLEAN, Login(given) PROVE TypeOK'
  <2>1. CASE given
    <3>1. Call("loginPage", "/") /\ mac' \in Mac \cup {NoText}
      BY <1>1, <2>1 DEF Login, TypeOK
    <3> QED
      BY <3>1, CallTypes DEF Waiting, Path
  <2>2. CASE ~given
    BY <1>1, <2>2, RefuseTypes DEF Login, Ops, Outcomes
  <2> QED
    BY <2>1, <2>2
<1>2. ASSUME Logout PROVE TypeOK'
  <2>1. CASE loggedIn
    <3>1. Call("logoff", "logoff") /\ mac' \in Mac \cup {NoText}
      BY <1>2, <2>1 DEF Logout, TypeOK
    <3> QED
      BY <3>1, CallTypes DEF Waiting, Path
  <2>2. CASE ~loggedIn
    <3>1. pc' = "idle" /\ result' \in Result
      BY <1>2, <2>2, ReturnTypes, NoFieldsType DEF Logout, Ops, Outcomes
    <3> QED
      BY <1>2, <2>2, <3>1, NoJarType DEF TypeOK, Logout
  <2> QED
    BY <2>1, <2>2
<1>3. ASSUME RouterInfo PROVE TypeOK'
  <2>1. CASE loggedIn
    <3>1. Call("info", "info") /\ mac' \in Mac \cup {NoText}
      BY <1>3, <2>1 DEF RouterInfo, TypeOK
    <3> QED
      BY <3>1, CallTypes DEF Waiting, Path
  <2>2. CASE ~loggedIn
    BY <1>3, <2>2, RefuseTypes DEF RouterInfo, Ops, Outcomes
  <2> QED
    BY <2>1, <2>2
<1>4. ASSUME ConnectedDevices PROVE TypeOK'
  <2>1. CASE loggedIn
    <3>1. Call("dhcp", "dhcp") /\ mac' \in Mac \cup {NoText}
      BY <1>4, <2>1 DEF ConnectedDevices, TypeOK
    <3> QED
      BY <3>1, CallTypes DEF Waiting, Path
  <2>2. CASE ~loggedIn
    BY <1>4, <2>2, RefuseTypes DEF ConnectedDevices, Ops, Outcomes
  <2> QED
    BY <2>1, <2>2
<1>5. ASSUME NEW op \in Ops, NEW step \in Waiting, NEW m \in Mac, CallAcl(op, step, m)
      PROVE  TypeOK'
  <2>1. \/ Refuse(op, "noMac")
        \/ Refuse(op, "notLoggedIn")
        \/ Call(step, "acl") /\ mac' = m
    BY <1>5 DEF CallAcl
  <2>2. CASE Call(step, "acl") /\ mac' = m
    BY <2>2, CallTypes DEF Path
  <2>3. CASE Refuse(op, "noMac") \/ Refuse(op, "notLoggedIn")
    BY <2>3, RefuseTypes DEF Outcomes
  <2> QED
    BY <2>1, <2>2, <2>3
<1>6. ASSUME NEW m \in Mac, BlockDevice(m) PROVE TypeOK'
  BY <1>5, <1>6 DEF BlockDevice, Ops, Waiting
<1>7. ASSUME NEW m \in Mac, UnblockDevice(m) PROVE TypeOK'
  BY <1>5, <1>7 DEF UnblockDevice, Ops, Waiting
<1> QED
  BY <1>1, <1>2, <1>3, <1>4, <1>6, <1>7 DEF UserCall

\* What is left to show of an answer when its common part is done.
LEMMA AnswerTypes ==
  ASSUME TypeOK, NEW step, NEW r \in Responses, Absorb(step, r),
         loggedIn' \in BOOLEAN, pc' \in Waiting \cup {"idle", "aborted"},
         req' \in HttpRequest, result' \in Result
  PROVE  TypeOK'
BY AbsorbTypes DEF TypeOK

LEMMA ReturnsTypes ==
  ASSUME TypeOK, NEW step, NEW r \in Responses, Absorb(step, r), loggedIn' \in BOOLEAN,
         NEW op \in Ops, NEW outcome \in Outcomes, NEW devices \in Seq(Device),
         Return(op, outcome, devices), UNCHANGED req
  PROVE  TypeOK'
<1>1. pc' = "idle" /\ result' \in Result
  BY ReturnTypes
<1>2. req' \in HttpRequest
  BY DEF TypeOK
<1> QED
  BY <1>1, <1>2, AnswerTypes

LEMMA PostsTypes ==
  ASSUME TypeOK, NEW step, NEW r \in Responses, Absorb(step, r), loggedIn' \in BOOLEAN,
         NEW next \in Waiting, NEW path \in Path, NEW form \in Seq(Field),
         HttpPost(next, path, form, JarAfter(r)), UNCHANGED result
  PROVE  TypeOK'
<1>1. JarAfter(r) \in Jar
  BY AbsorbTypes
<1>2. pc' = next /\ req' \in HttpRequest
  BY <1>1, PostTypes
<1>3. result' \in Result
  BY DEF TypeOK
<1> QED
  BY <1>2, <1>3, AnswerTypes

LEMMA LoginReplyTypes ==
  ASSUME TypeOK, NEW r \in Responses,
         LoginPageReply(r) \/ LoginPostReply(r) \/ LoginFollowReply(r)
  PROVE  TypeOK'
<1>1. CASE LoginPageReply(r)
  <2>1. Absorb("loginPage", r)
    BY <1>1 DEF LoginPageReply
  <2>2. loggedIn' \in BOOLEAN
    BY <1>1, <2>1, AbsorbTypes DEF LoginPageReply
  <2>3. CASE r.error
    <3>1. Return("login", "error", << >>) /\ UNCHANGED req
      BY <1>1, <2>3 DEF LoginPageReply
    <3> QED
      BY <2>1, <2>2, <3>1, ReturnsTypes, NoFieldsType DEF Ops, Outcomes
  <2>4. CASE ~r.error
    <3>1. HttpPost("loginPost", "/", LoginForm(r.page), JarAfter(r)) /\ UNCHANGED result
      BY <1>1, <2>4 DEF LoginPageReply
    <3>2. LoginForm(r.page) \in Seq(Field)
      BY ResponseType, LoginFormType
    <3> QED
      BY <2>1, <2>2, <3>1, <3>2, PostsTypes DEF Waiting, Path
  <2> QED
    BY <2>3, <2>4
<1>2. CASE LoginPostReply(r)
  <2> DEFINE outcome == IF r.error THEN "error" ELSE IF Accepts(r) THEN "success" ELSE "rejected"
             follows == ~r.error /\ Accepts(r) /\ IsRedirect(r) /\ r.location # "none"
  <2>1. Absorb("loginPost", r) /\ loggedIn' = LoggedInBy(r)
    BY <1>2 DEF LoginPostReply
  <2>2. loggedIn' \in BOOLEAN
    BY <2>1, AbsorbTypes
  <2>3. CASE follows
    <3>1. HttpGet("loginFollow", "location", JarAfter(r)) /\ UNCHANGED result
      BY <1>2, <2>3 DEF LoginPostReply
    <3>2. JarAfter(r) \in Jar
      BY <2>1, AbsorbTypes
    <3>3. req' \in HttpRequest
      BY <3>1, <3>2, RequestType, NoFieldsType DEF HttpGet, Path
    <3>4. result' \in Result /\ pc' \in Waiting
      BY <3>1 DEF TypeOK, HttpGet, Waiting
    <3> QED
      BY <2>1, <2>2, <3>3, <3>4, AnswerTypes
  <2>4. CASE ~follows
    <3>1. Return("login", outcome, << >>) /\ UNCHANGED req
      BY <1>2, <2>4 DEF LoginPostReply
    <3>2. outcome \in Outcomes
      BY DEF Outcomes
    <3> HIDE DEF outcome
    <3> QED
      BY <2>1, <2>2, <3>1, <3>2, ReturnsTypes, NoFieldsType DEF Ops
  <2> QED
    BY <2>3, <2>4
<1>3. CASE LoginFollowReply(r)
  <2>1. /\ Absorb("loginFollow", r) /\ Return("login", "success", << >>) /\ UNCHANGED req
        /\ loggedIn' = InSession(r)
    BY <1>3 DEF LoginFollowReply
  <2>2. loggedIn' \in BOOLEAN
    BY <2>1, AbsorbTypes
  <2> QED
    BY <2>1, <2>2, ReturnsTypes, NoFieldsType DEF Ops, Outcomes
<1> QED
  BY <1>1, <1>2, <1>3

LEMMA ReadReplyTypes ==
  ASSUME TypeOK, NEW r \in Responses, LogoffReply(r) \/ InfoReply(r) \/ DhcpReply(r)
  PROVE  TypeOK'
<1>1. CASE LogoffReply(r)
  <2>1. pc' = "idle" /\ result' \in Result
    BY <1>1, ReturnTypes, NoFieldsType DEF LogoffReply, Ops, Outcomes
  <2> QED
    BY <1>1, <2>1, ResponseType, NoJarType DEF LogoffReply, TypeOK
<1>2. CASE InfoReply(r)
  <2>1. /\ Absorb("info", r) /\ Return("info", WanStatus(r), << >>) /\ UNCHANGED req
        /\ loggedIn' = InSession(r)
    BY <1>2 DEF InfoReply
  <2>2. loggedIn' \in BOOLEAN
    BY <2>1, AbsorbTypes
  <2> QED
    BY <2>1, <2>2, ReturnsTypes, NoFieldsType, OutcomeTypes DEF Ops
<1>3. CASE DhcpReply(r)
  <2>1. Absorb("dhcp", r) /\ loggedIn' = InSession(r) /\ UNCHANGED req
    BY <1>3 DEF DhcpReply
  <2>2. loggedIn' \in BOOLEAN
    BY <2>1, AbsorbTypes
  <2>3. CASE Readable(r) /\ r.page.leases = Overflow
    <3>1. pc' = "aborted" /\ result' \in Result /\ req' \in HttpRequest
      BY <1>3, <2>3 DEF DhcpReply, TypeOK
    <3> QED
      BY <2>1, <2>2, <3>1, AnswerTypes
  <2>4. CASE ~(Readable(r) /\ r.page.leases = Overflow)
    <3> DEFINE devices == IF Readable(r) THEN r.page.leases ELSE << >>
    <3>1. Return("devices", "none", devices)
      BY <1>3, <2>4 DEF DhcpReply
    <3>2. r.page.leases \in Seq(Device) \cup {Overflow}
      BY ResponseType
    <3>3. devices \in Seq(Device)
      BY <2>4, <3>2, NoFieldsType
    <3> HIDE DEF devices
    <3> QED
      BY <2>1, <2>2, <3>1, <3>3, ReturnsTypes DEF Ops, Outcomes
  <2> QED
    BY <2>3, <2>4
<1> QED
  BY <1>1, <1>2, <1>3

LEMMA AclReplyTypes ==
  ASSUME TypeOK, NEW r \in Responses,
         BlockPageReply(r) \/ BlockPostReply(r) \/ UnblockPageReply(r) \/ UnblockPostReply(r)
  PROVE  TypeOK'
<1>1. CASE BlockPageReply(r)
  <2>1. Absorb("blockPage", r) /\ loggedIn' = InSession(r)
    BY <1>1 DEF BlockPageReply
  <2>2. loggedIn' \in BOOLEAN
    BY <2>1, AbsorbTypes
  <2>3. CASE AclPageProblem(r) # "none"
    <3>1. Return("block", AclPageProblem(r), << >>) /\ UNCHANGED req
      BY <1>1, <2>3 DEF BlockPageReply
    <3> QED
      BY <2>1, <2>2, <3>1, ReturnsTypes, NoFieldsType, OutcomeTypes DEF Ops
  <2>4. CASE AclPageProblem(r) = "none"
    <3>1. HttpPost("blockPost", "acl", BlockForm(r.page, mac), JarAfter(r)) /\ UNCHANGED result
      BY <1>1, <2>4 DEF BlockPageReply
    <3>2. BlockForm(r.page, mac) \in Seq(Field)
      BY ResponseType, MacIsText, BlockFormEffect
    <3> QED
      BY <2>1, <2>2, <3>1, <3>2, PostsTypes DEF Waiting, Path
  <2> QED
    BY <2>3, <2>4
<1>2. CASE UnblockPageReply(r)
  <2>1. Absorb("unblockPage", r) /\ loggedIn' = InSession(r)
    BY <1>2 DEF UnblockPageReply
  <2>2. loggedIn' \in BOOLEAN
    BY <2>1, AbsorbTypes
  <2>3. CASE AclPageProblem(r) # "none"
    <3>1. Return("unblock", AclPageProblem(r), << >>) /\ UNCHANGED req
      BY <1>2, <2>3 DEF UnblockPageReply
    <3> QED
      BY <2>1, <2>2, <3>1, ReturnsTypes, NoFieldsType, OutcomeTypes DEF Ops
  <2>4. CASE AclPageProblem(r) = "none" /\ RowOf(r.page, mac) = NoText
    <3>1. Return("unblock", "notListed", << >>) /\ UNCHANGED req
      BY <1>2, <2>4 DEF UnblockPageReply
    <3> QED
      BY <2>1, <2>2, <3>1, ReturnsTypes, NoFieldsType DEF Ops, Outcomes
  <2>5. CASE AclPageProblem(r) = "none" /\ RowOf(r.page, mac) # NoText
    <3> DEFINE row == RowOf(r.page, mac)
    <3>1. HttpPost("unblockPost", "acl", UnblockForm(r.page, mac, row), JarAfter(r))
             /\ UNCHANGED result
      BY <1>2, <2>5 DEF UnblockPageReply
    <3>2. row \in Digits
      BY <2>5, RowOfType
    <3>3. UnblockForm(r.page, mac, row) \in Seq(Field)
      BY <3>2, ResponseType, MacIsText, UnblockFormEffect
    <3> HIDE DEF row
    <3> QED
      BY <2>1, <2>2, <3>1, <3>3, PostsTypes DEF Waiting, Path
  <2> QED
    BY <2>3, <2>4, <2>5
<1>3. ASSUME NEW op \in Ops, NEW step, AclReply(op, step, r) PROVE TypeOK'
  <2>1. /\ Absorb(step, r) /\ loggedIn' = InSession(r)
        /\ Return(op, AclVerdict(r), << >>) /\ UNCHANGED req
    BY <1>3 DEF AclReply
  <2>2. loggedIn' \in BOOLEAN
    BY <2>1, AbsorbTypes
  <2> QED
    BY <2>1, <2>2, ReturnsTypes, NoFieldsType, OutcomeTypes
<1> QED
  BY <1>1, <1>2, <1>3 DEF BlockPostReply, UnblockPostReply, Ops

LEMMA TypeNext == ASSUME TypeOK, [Next]_vars PROVE TypeOK'
<1>1. CASE UserCall
  BY <1>1, UserCallTypes
<1>2. CASE Answered
  <2>1. PICK r \in Responses : Reply(r)
    BY <1>2 DEF Answered
  <2> QED
    BY <2>1, LoginReplyTypes, ReadReplyTypes, AclReplyTypes DEF Reply
<1>3. CASE Restart
  BY <1>3, NoJarType, StartTypes, NoResultType DEF Restart, TypeOK
<1>4. CASE UNCHANGED vars
  BY <1>4 DEF vars, TypeOK
<1> QED
  BY <1>1, <1>2, <1>3, <1>4 DEF Next

(***************************************************************************)
(* Every variable keeps its type: no sequence of calls and answers builds  *)
(* a request, a jar or a result of another shape, and a DHCP table that    *)
(* std::stoi rejects is never returned as devices.                         *)
(***************************************************************************)
THEOREM TypeCorrect == Spec => []TypeOK
BY TypeInit, TypeNext, PTL DEF Spec

-----------------------------------------------------------------------------
(* The session *)

(***************************************************************************)
(* What holds at each point of a method, and makes the invariants          *)
(* inductive: past the login posts the client is logged in, a login asks   *)
(* for the paths of login, and a method that runs has no result.           *)
(***************************************************************************)
SessionOfStep ==
  /\ pc \in Waiting \ {"loginPage", "loginPost"} => loggedIn
  /\ pc \in {"loginPage", "loginPost"} => req.path = "/"
  /\ pc = "loginFollow" => req.path = "location"
  /\ pc # "idle" => result = NoResult

SessionInv == SessionOfStep /\ LoginOutcome /\ EndedSessionForgotten

LEMMA SessionInit == Init => SessionInv
BY DEF Init, SessionInv, SessionOfStep, LoginOutcome, EndedSessionForgotten, NoResult, Waiting

(***************************************************************************)
(* A call asks its first request, or returns what needs no router, or is   *)
(* the logout of a client that is not logged in.                           *)
(***************************************************************************)
LEMMA UserCallShape ==
  ASSUME UserCall
  PROVE  /\ pc = "idle"
         /\ \/ \E step \in Waiting \ {"loginPost", "loginFollow", "blockPost", "unblockPost"},
                  path \in Path :
                 /\ Call(step, path)
                 /\ step = "loginPage" => path = "/"
                 /\ step # "loginPage" => loggedIn
                 /\ step \in {"blockPage", "unblockPage"} => mac' # NoText
            \/ \E op \in Ops, outcome \in {"credentials", "noMac", "notLoggedIn", "none"} :
                 Refuse(op, outcome) /\ op # "logout"
            \/ /\ Return("logout", "success", << >>)
               /\ ~loggedIn /\ cookies' = NoJar
               /\ UNCHANGED <<loggedIn, mac, req, resp>>
<1>1. ASSUME NEW op \in {"block", "unblock"}, NEW step \in {"blockPage", "unblockPage"},
             NEW m, CallAcl(op, step, m)
      PROVE  pc = "idle" /\ \/ Refuse(op, "noMac")
                            \/ Refuse(op, "notLoggedIn")
                            \/ Call(step, "acl") /\ loggedIn /\ mac' # NoText
  BY <1>1 DEF CallAcl
<1>2. CASE \E m \in Mac : BlockDevice(m) \/ UnblockDevice(m)
  BY <1>1, <1>2 DEF BlockDevice, UnblockDevice, Ops, Waiting, Path
<1>3. CASE (\E given \in BOOLEAN : Login(given)) \/ RouterInfo \/ ConnectedDevices
  BY <1>3 DEF Login, RouterInfo, ConnectedDevices, Ops, Waiting, Path
<1>4. CASE Logout
  BY <1>4 DEF Logout, Waiting, Path
<1> QED
  BY <1>2, <1>3, <1>4 DEF UserCall

LEMMA SessionCall == ASSUME SessionInv, UserCall PROVE SessionInv'
<1>1. CASE \E step \in Waiting \ {"loginPost", "loginFollow", "blockPost", "unblockPost"},
              path \in Path :
             /\ Call(step, path)
             /\ step = "loginPage" => path = "/"
             /\ step # "loginPage" => loggedIn
  BY <1>1 DEF Call, HttpGet, SessionInv, SessionOfStep, LoginOutcome, EndedSessionForgotten,
              NoResult, Waiting
<1>2. CASE \E op \in Ops, outcome \in {"credentials", "noMac", "notLoggedIn", "none"} :
             Refuse(op, outcome) /\ op # "logout"
  BY <1>2 DEF Refuse, Return, SessionInv, SessionOfStep, LoginOutcome, EndedSessionForgotten,
              Waiting
<1>3. CASE /\ Return("logout", "success", << >>)
           /\ ~loggedIn /\ cookies' = NoJar
           /\ UNCHANGED <<loggedIn, mac, req, resp>>
  BY <1>3 DEF Return, SessionInv, SessionOfStep, LoginOutcome, EndedSessionForgotten, Waiting
<1> QED
  BY <1>1, <1>2, <1>3, UserCallShape

\* A call that waits in a session and loses it has an empty jar afterwards.
LEMMA ExpiryEmptiesJar ==
  ASSUME NEW r, loggedIn, ~InSession(r) PROVE ShowsLogin(r) /\ JarAfter(r) = NoJar
BY DEF InSession, JarAfter

LEMMA LoginReplySession ==
  ASSUME SessionInv, NEW r, LoginPageReply(r) \/ LoginPostReply(r) \/ LoginFollowReply(r)
  PROVE  SessionInv'
<1>1. CASE LoginPageReply(r)
  BY <1>1 DEF LoginPageReply, Absorb, HttpPost, Return, SessionInv, SessionOfStep, LoginOutcome,
              EndedSessionForgotten, Waiting, NoResult
<1>2. CASE LoginPostReply(r)
  <2> DEFINE outcome == IF r.error THEN "error" ELSE IF Accepts(r) THEN "success" ELSE "rejected"
  <2>1. loggedIn' <=> outcome = "success"
    BY <1>2 DEF LoginPostReply, LoggedInBy
  <2>4. outcome # "expired"
    OBVIOUS
  <2>2. CASE Return("login", outcome, << >>)
    <3> HIDE DEF outcome
    <3> QED
      BY <2>1, <2>4, <2>2 DEF Return, SessionInv, SessionOfStep, LoginOutcome,
                              EndedSessionForgotten, Waiting
  <2>3. CASE outcome = "success" /\ HttpGet("loginFollow", "location", JarAfter(r))
                                 /\ UNCHANGED result
    <3>1. pc # "idle"
      BY <1>2 DEF LoginPostReply, Absorb
    <3> HIDE DEF outcome
    <3> QED
      BY <2>1, <2>3, <3>1 DEF HttpGet, SessionInv, SessionOfStep, LoginOutcome,
                              EndedSessionForgotten, Waiting, NoResult
  <2> QED
    BY <1>2, <2>2, <2>3 DEF LoginPostReply
<1>3. CASE LoginFollowReply(r)
  <2>1. loggedIn /\ req.path = "location"
    BY <1>3 DEF LoginFollowReply, Absorb, SessionInv, SessionOfStep, Waiting
  <2>2. /\ pc' = "idle" /\ req' = req /\ resp' = r /\ cookies' = JarAfter(r)
        /\ loggedIn' = InSession(r)
        /\ result' = [op |-> "login", outcome |-> "success", devices |-> << >>]
    BY <1>3 DEF LoginFollowReply, Absorb, Return
  <2>3. ~loggedIn' => ShowsLogin(resp') /\ cookies' = NoJar
    BY <2>1, <2>2, ExpiryEmptiesJar
  <2>4. LoginOutcome'
    BY <2>1, <2>2, <2>3 DEF LoginOutcome, ShowsLogin
  <2> QED
    BY <2>2, <2>4 DEF SessionInv, SessionOfStep, EndedSessionForgotten, Waiting
<1> QED
  BY <1>1, <1>2, <1>3

\* The end of a call that is not a login, and of a step that posts.
LEMMA ReturnSession ==
  ASSUME NEW op, op # "login", NEW outcome, NEW devices, Return(op, outcome, devices),
         op = "logout" \/ outcome = "expired" => ~loggedIn' /\ cookies' = NoJar
  PROVE  SessionInv'
BY DEF Return, SessionInv, SessionOfStep, LoginOutcome, EndedSessionForgotten, Waiting

LEMMA PostSession ==
  ASSUME SessionInv, pc # "idle", NEW step \in {"blockPost", "unblockPost"}, NEW path, NEW form,
         NEW jar, HttpPost(step, path, form, jar), loggedIn', UNCHANGED result
  PROVE  SessionInv'
BY DEF HttpPost, SessionInv, SessionOfStep, LoginOutcome, EndedSessionForgotten, Waiting, NoResult

LEMMA ReadReplySession ==
  ASSUME SessionInv, NEW r, LogoffReply(r) \/ InfoReply(r) \/ DhcpReply(r)
  PROVE  SessionInv'
<1>1. CASE LogoffReply(r)
  BY <1>1, ReturnSession DEF LogoffReply
<1>2. CASE InfoReply(r)
  <2>1. loggedIn /\ loggedIn' = InSession(r) /\ cookies' = JarAfter(r)
    BY <1>2 DEF InfoReply, Absorb, SessionInv, SessionOfStep, Waiting
  <2>2. WanStatus(r) = "expired" => ~InSession(r)
    BY DEF WanStatus
  <2>3. Return("info", WanStatus(r), << >>)
    BY <1>2 DEF InfoReply
  <2> QED
    BY <2>1, <2>2, <2>3, ExpiryEmptiesJar, ReturnSession
<1>3. CASE DhcpReply(r)
  <2>1. CASE Readable(r) /\ r.page.leases = Overflow
    BY <1>3, <2>1 DEF DhcpReply, Absorb, SessionInv, SessionOfStep, LoginOutcome,
                      EndedSessionForgotten, Waiting, NoResult
  <2>2. CASE ~(Readable(r) /\ r.page.leases = Overflow)
    <3>1. Return("devices", "none", IF Readable(r) THEN r.page.leases ELSE << >>)
      BY <1>3, <2>2 DEF DhcpReply
    <3> QED
      BY <3>1, ReturnSession
  <2> QED
    BY <2>1, <2>2
<1> QED
  BY <1>1, <1>2, <1>3

LEMMA AclReplySession ==
  ASSUME SessionInv, NEW r,
         BlockPageReply(r) \/ BlockPostReply(r) \/ UnblockPageReply(r) \/ UnblockPostReply(r)
  PROVE  SessionInv'
<1>1. /\ loggedIn /\ pc # "idle"
      /\ loggedIn' = InSession(r) /\ cookies' = JarAfter(r)
  BY DEF BlockPageReply, BlockPostReply, UnblockPageReply, UnblockPostReply, AclReply, Absorb,
         SessionInv, SessionOfStep, Waiting
<1>2. /\ AclPageProblem(r) = "expired" <=> ~InSession(r)
      /\ AclVerdict(r) = "expired" <=> ~InSession(r)
      /\ AclPageProblem(r) = "none" => InSession(r)
  BY DEF AclPageProblem, AclVerdict
<1>3. ~InSession(r) => ~loggedIn' /\ cookies' = NoJar
  BY <1>1, ExpiryEmptiesJar
<1>4. CASE BlockPageReply(r)
  <2>1. CASE AclPageProblem(r) # "none"
    <3>1. Return("block", AclPageProblem(r), << >>)
      BY <1>4, <2>1 DEF BlockPageReply
    <3> QED
      BY <1>2, <1>3, <3>1, ReturnSession
  <2>2. CASE AclPageProblem(r) = "none"
    <3>1. /\ HttpPost("blockPost", "acl", BlockForm(r.page, mac), JarAfter(r))
          /\ UNCHANGED result
      BY <1>4, <2>2 DEF BlockPageReply
    <3> QED
      BY <1>1, <1>2, <2>2, <3>1, PostSession
  <2> QED
    BY <2>1, <2>2
<1>5. CASE UnblockPageReply(r)
  <2>1. CASE AclPageProblem(r) # "none"
    <3>1. Return("unblock", AclPageProblem(r), << >>)
      BY <1>5, <2>1 DEF UnblockPageReply
    <3> QED
      BY <1>2, <1>3, <3>1, ReturnSession
  <2>2. CASE AclPageProblem(r) = "none" /\ RowOf(r.page, mac) = NoText
    <3>1. Return("unblock", "notListed", << >>)
      BY <1>5, <2>2 DEF UnblockPageReply
    <3> QED
      BY <3>1, ReturnSession
  <2>3. CASE AclPageProblem(r) = "none" /\ RowOf(r.page, mac) # NoText
    <3>1. /\ HttpPost("unblockPost", "acl",
                      UnblockForm(r.page, mac, RowOf(r.page, mac)), JarAfter(r))
          /\ UNCHANGED result
      BY <1>5, <2>3 DEF UnblockPageReply
    <3> QED
      BY <1>1, <1>2, <2>3, <3>1, PostSession
  <2> QED
    BY <2>1, <2>2, <2>3
<1>6. CASE BlockPostReply(r) \/ UnblockPostReply(r)
  <2>1. PICK op \in {"block", "unblock"} : Return(op, AclVerdict(r), << >>)
    BY <1>6 DEF BlockPostReply, UnblockPostReply, AclReply
  <2> QED
    BY <1>2, <1>3, <2>1, ReturnSession
<1> QED
  BY <1>4, <1>5, <1>6

LEMMA SessionNext == ASSUME SessionInv, [Next]_vars PROVE SessionInv'
<1>1. CASE UserCall
  BY <1>1, SessionCall
<1>2. CASE Answered
  <2>1. PICK r \in Responses : Reply(r)
    BY <1>2 DEF Answered
  <2> QED
    BY <2>1, LoginReplySession, ReadReplySession, AclReplySession DEF Reply
<1>3. CASE Restart
  BY <1>3 DEF Restart, SessionInv, SessionOfStep, LoginOutcome, EndedSessionForgotten, NoResult,
              Waiting
<1>4. CASE UNCHANGED vars
  BY <1>4 DEF vars, SessionInv, SessionOfStep, LoginOutcome, EndedSessionForgotten, ShowsLogin
<1> QED
  BY <1>1, <1>2, <1>3, <1>4 DEF Next

LEMMA SessionHolds == Spec => []SessionInv
BY SessionInit, SessionNext, PTL DEF Spec

(***************************************************************************)
(* No management request is sent without a session, whatever the page read *)
(* before it did to the session.                                           *)
(***************************************************************************)
THEOREM RequestsAreGated == Spec => []GatedRequests
<1>1. SessionInv => GatedRequests
  BY DEF SessionInv, SessionOfStep, GatedRequests, Pending, Waiting
<1> QED
  BY <1>1, SessionHolds, PTL

(***************************************************************************)
(* What login() reports and the session it leaves agree.                   *)
(***************************************************************************)
THEOREM LoginReportsTheSession == Spec => []LoginOutcome
<1>1. SessionInv => LoginOutcome
  BY DEF SessionInv
<1> QED
  BY <1>1, SessionHolds, PTL

(***************************************************************************)
(* No cookie outlives logout() or a reported expiry.                       *)
(***************************************************************************)
THEOREM SessionsAreForgotten == Spec => []EndedSessionForgotten
<1>1. SessionInv => EndedSessionForgotten
  BY DEF SessionInv
<1> QED
  BY <1>1, SessionHolds, PTL

-----------------------------------------------------------------------------
(* The changes that are posted *)

\* Three things a posted form says, named for the proofs.
NamesMac(form, m) == \E f \in Range(form) : f.name.base = "MACAddress" /\ f.value = m

CarriesToken(form, page) ==
  GetField(form, Plain("_SESSION_TOKEN"))
    \in {f.value : f \in Range(ExtractFormFields(page))} \ {NoText}

DeletesRowOf(form, page, m) ==
  LET row == GetField(form, Plain("IF_INDEX"))
  IN  /\ GetField(form, Indexed("MACAddress", row)) = m
      /\ \E f \in Range(ExtractFormFields(page)) :
            f.name = Indexed("MACAddress", row) /\ Lower[f.value] = Lower[m]

LEMMA TokenIsThere ==
  ASSUME NEW page, ScrapedPage(page), PageToken(page) # NoText, NEW form,
         GetField(form, Plain("_SESSION_TOKEN")) = PageToken(page)
  PROVE  CarriesToken(form, page)
<1> DEFINE fields == ExtractFormFields(page)
<1>1. fields \in Seq(Field)
  BY ExtractType
<1>2. PageToken(page) = GetField(fields, Plain("_SESSION_TOKEN"))
  BY DEF PageToken
<1> HIDE DEF fields
<1>3. \E f \in Range(fields) : f.value = PageToken(page)
  BY <1>1, <1>2, GetFieldIsThere
<1>4. PageToken(page) \in {f.value : f \in Range(fields)}
  BY <1>3
<1> QED
  BY <1>4 DEF CarriesToken, fields

LEMMA MacIsThere ==
  ASSUME NEW form \in Seq(Field), NEW name, name.base = "MACAddress",
         NEW m, m # NoText, GetField(form, name) = m
  PROVE  NamesMac(form, m)
BY GetFieldIsThere DEF NamesMac

LEMMA BlockFormPosted ==
  ASSUME NEW page, ScrapedPage(page), PageToken(page) # NoText,
         NEW m \in Text, m # NoText, NEW form, form = BlockForm(page, m)
  PROVE  /\ GetField(form, Plain("IF_ACTION")) = "new"
         /\ GetField(form, Plain("MACAddress")) = m
         /\ NamesMac(form, m) /\ CarriesToken(form, page)
<1>1. /\ form \in Seq(Field)
      /\ GetField(form, Plain("IF_ACTION")) = "new"
      /\ GetField(form, Plain("MACAddress")) = m
      /\ \A n : n \notin CommandNames \cup RuleNames =>
           GetField(form, n) = GetField(ExtractFormFields(page), n)
  BY BlockFormEffect
<1>2. Plain("_SESSION_TOKEN") \notin CommandNames \cup RuleNames
  BY PlainInjective DEF CommandNames, RuleNames
<1>3. GetField(form, Plain("_SESSION_TOKEN")) = PageToken(page)
  BY <1>1, <1>2 DEF PageToken
<1>4. CarriesToken(form, page)
  BY <1>3, TokenIsThere
<1>5. Plain("MACAddress").base = "MACAddress"
  BY DEF Plain
<1>6. NamesMac(form, m)
  BY <1>1, <1>5, MacIsThere
<1> QED
  BY <1>1, <1>4, <1>6

LEMMA UnblockFormPosted ==
  ASSUME NEW page, ScrapedPage(page), PageToken(page) # NoText,
         NEW m \in Text, m # NoText,
         NEW row \in Digits, row = FindAclIndexByMac(ExtractFormFields(page), m),
         NEW form, form = UnblockForm(page, m, row)
  PROVE  /\ GetField(form, Plain("IF_ACTION")) = "delete"
         /\ NamesMac(form, m) /\ CarriesToken(form, page) /\ DeletesRowOf(form, page, m)
<1>1. /\ form \in Seq(Field)
      /\ GetField(form, Plain("IF_ACTION")) = "delete"
      /\ GetField(form, Plain("_SESSION_TOKEN")) = PageToken(page)
      /\ GetField(form, Plain("IF_INDEX")) = row
      /\ GetField(form, Indexed("MACAddress", row)) = m
  BY UnblockFormEffect DEF PageToken
<1>2. CarriesToken(form, page)
  BY <1>1, TokenIsThere
<1>3. Indexed("MACAddress", row).base = "MACAddress"
  BY DEF Indexed
<1>4. NamesMac(form, m)
  BY <1>1, <1>3, MacIsThere
<1> DEFINE fields == ExtractFormFields(page)
<1>5. fields \in Seq(Field) /\ row = FindAclIndexByMac(fields, m)
  BY ExtractType
<1>6. row # NoText
  BY TextAssumption
<1> HIDE DEF fields
<1>7. PICK i \in 1..Len(fields) :
         fields[i].name = Indexed("MACAddress", row) /\ Lower[fields[i].value] = Lower[m]
  BY <1>5, <1>6, AclIndexIsARow
<1>8. fields[i] \in Range(fields)
  BY <1>5 DEF Range
<1>9. DeletesRowOf(form, page, m)
  BY <1>1, <1>7, <1>8 DEF DeletesRowOf, fields
<1> QED
  BY <1>1, <1>2, <1>4, <1>9

-----------------------------------------------------------------------------
(* The changes that are reported *)

(***************************************************************************)
(* Inductive: what is known of a change from the moment it is posted until *)
(* its answer is there.                                                    *)
(***************************************************************************)
Changing == {"blockPage", "blockPost", "unblockPage", "unblockPost"}

Posted ==
  /\ pc \in Changing => mac # NoText
  /\ pc \in {"blockPost", "unblockPost"} =>
       /\ ~resp.error /\ resp.status = 200 /\ ~ShowsLogin(resp)
       /\ req.method = "POST" /\ req.path = "acl"
       /\ NamesMac(req.form, mac) /\ CarriesToken(req.form, resp.page)
  /\ pc = "blockPost" =>
       /\ GetField(req.form, Plain("IF_ACTION")) = "new"
       /\ GetField(req.form, Plain("MACAddress")) = mac
  /\ pc = "unblockPost" =>
       /\ GetField(req.form, Plain("IF_ACTION")) = "delete"
       /\ DeletesRowOf(req.form, resp.page, mac)

ChangeInv == Posted /\ SuccessWasAnswered

\* A step after which nothing is being changed and no change is reported as done.
LEMMA QuietStep ==
  ASSUME pc' \notin Changing,
         ~(result'.op \in {"block", "unblock"} /\ result'.outcome = "success")
  PROVE  ChangeInv'
BY DEF ChangeInv, Posted, Changing, SuccessWasAnswered

LEMMA QuietReturn ==
  ASSUME NEW op, NEW outcome, NEW devices, Return(op, outcome, devices),
         op \notin {"block", "unblock"} \/ outcome # "success"
  PROVE  ChangeInv'
<1>1. pc' = "idle" /\ result'.op = op /\ result'.outcome = outcome
  BY DEF Return
<1> QED
  BY <1>1, QuietStep DEF Changing

LEMMA ChangeInit == Init => ChangeInv
BY DEF Init, ChangeInv, Posted, Changing, SuccessWasAnswered, NoResult

LEMMA ChangeCall == ASSUME ChangeInv, UserCall PROVE ChangeInv'
<1>1. CASE \E step \in Waiting \ {"loginPost", "loginFollow", "blockPost", "unblockPost"},
              path \in Path :
             Call(step, path) /\ (step \in {"blockPage", "unblockPage"} => mac' # NoText)
  BY <1>1 DEF Call, HttpGet, ChangeInv, Posted, Changing, SuccessWasAnswered, NoResult
<1>2. CASE \E op \in Ops, outcome \in {"credentials", "noMac", "notLoggedIn", "none"} :
             Refuse(op, outcome)
  BY <1>2, QuietReturn DEF Refuse
<1>3. CASE Return("logout", "success", << >>)
  BY <1>3, QuietReturn
<1> QED
  BY <1>1, <1>2, <1>3, UserCallShape

LEMMA OtherReplyChange ==
  ASSUME SessionInv, NEW r,
         \/ LoginPageReply(r) \/ LoginPostReply(r) \/ LoginFollowReply(r)
         \/ LogoffReply(r) \/ InfoReply(r) \/ DhcpReply(r)
  PROVE  ChangeInv'
<1>1. pc # "idle"
  BY DEF LoginPageReply, LoginPostReply, LoginFollowReply, LogoffReply, InfoReply, DhcpReply,
         Absorb
<1>2. result = NoResult
  BY <1>1 DEF SessionInv, SessionOfStep
<1>3. CASE UNCHANGED result /\ pc' \notin Changing
  BY <1>2, <1>3, QuietStep DEF NoResult
<1>4. CASE \E op \in {"login", "logout", "info", "devices"} :
             \E outcome, devices : Return(op, outcome, devices)
  BY <1>4, QuietReturn
<1>5. CASE LoginPageReply(r) \/ LoginPostReply(r)
  BY <1>3, <1>4, <1>5 DEF LoginPageReply, LoginPostReply, HttpGet, HttpPost, Changing
<1>6. CASE LoginFollowReply(r) \/ LogoffReply(r) \/ InfoReply(r)
  BY <1>4, <1>6 DEF LoginFollowReply, LogoffReply, InfoReply
<1>7. CASE DhcpReply(r)
  BY <1>3, <1>4, <1>7 DEF DhcpReply, Changing
<1> QED
  BY <1>5, <1>6, <1>7

LEMMA GoodPage ==
  ASSUME SessionInv, NEW r, pc # "idle", pc \in Changing, AclPageProblem(r) = "none"
  PROVE  ~r.error /\ r.status = 200 /\ ~ShowsLogin(r) /\ PageToken(r.page) # NoText
BY DEF AclPageProblem, InSession

LEMMA BlockPageChange ==
  ASSUME TypeOK, SessionInv, ChangeInv, NEW r \in Responses, BlockPageReply(r)
  PROVE  ChangeInv'
<1>1. CASE AclPageProblem(r) # "none"
  <2>1. Return("block", AclPageProblem(r), << >>)
    BY <1>1 DEF BlockPageReply
  <2>2. AclPageProblem(r) # "success"
    BY DEF AclPageProblem
  <2> QED
    BY <2>1, <2>2, QuietReturn
<1>2. CASE AclPageProblem(r) = "none"
  <2> DEFINE form == BlockForm(r.page, mac)
  <2>1. pc = "blockPage" /\ resp' = r /\ mac' = mac
    BY DEF BlockPageReply, Absorb
  <2>2. /\ pc' = "blockPost"
        /\ req' = [method |-> "POST", path |-> "acl", cookies |-> JarAfter(r), form |-> form]
        /\ result' = result
    BY <1>2 DEF BlockPageReply, HttpPost
  <2>3. mac # NoText /\ mac \in Text
    BY <2>1, MacIsText DEF ChangeInv, Posted, Changing
  <2>4. ~r.error /\ r.status = 200 /\ ~ShowsLogin(r) /\ PageToken(r.page) # NoText
    BY <1>2, <2>1, GoodPage DEF Changing
  <2>5. /\ GetField(form, Plain("IF_ACTION")) = "new"
        /\ GetField(form, Plain("MACAddress")) = mac
        /\ NamesMac(form, mac) /\ CarriesToken(form, r.page)
    BY <2>3, <2>4, ResponseType, BlockFormPosted
  <2> HIDE DEF form
  <2>6. req'.method = "POST" /\ req'.path = "acl" /\ req'.form = form
    BY <2>2
  <2>7. Posted'
    BY <2>1, <2>2, <2>3, <2>4, <2>5, <2>6 DEF Posted, ShowsLogin
  <2>8. result' = NoResult
    BY <2>1, <2>2 DEF SessionInv, SessionOfStep
  <2> QED
    BY <2>7, <2>8 DEF ChangeInv, SuccessWasAnswered, NoResult
<1> QED
  BY <1>1, <1>2

LEMMA UnblockPageChange ==
  ASSUME TypeOK, SessionInv, ChangeInv, NEW r \in Responses, UnblockPageReply(r)
  PROVE  ChangeInv'
<1>1. CASE AclPageProblem(r) # "none"
  <2>1. Return("unblock", AclPageProblem(r), << >>)
    BY <1>1 DEF UnblockPageReply
  <2>2. AclPageProblem(r) # "success"
    BY DEF AclPageProblem
  <2> QED
    BY <2>1, <2>2, QuietReturn
<1>2. CASE AclPageProblem(r) = "none" /\ RowOf(r.page, mac) = NoText
  <2>1. Return("unblock", "notListed", << >>)
    BY <1>2 DEF UnblockPageReply
  <2> QED
    BY <2>1, QuietReturn
<1>3. CASE AclPageProblem(r) = "none" /\ RowOf(r.page, mac) # NoText
  <2> DEFINE row  == RowOf(r.page, mac)
             form == UnblockForm(r.page, mac, row)
  <2>1. pc = "unblockPage" /\ resp' = r /\ mac' = mac
    BY DEF UnblockPageReply, Absorb
  <2>2. /\ pc' = "unblockPost"
        /\ req' = [method |-> "POST", path |-> "acl", cookies |-> JarAfter(r), form |-> form]
        /\ result' = result
    BY <1>3 DEF UnblockPageReply, HttpPost
  <2>3. mac # NoText /\ mac \in Text
    BY <2>1, MacIsText DEF ChangeInv, Posted, Changing
  <2>4. ~r.error /\ r.status = 200 /\ ~ShowsLogin(r) /\ PageToken(r.page) # NoText
    BY <1>3, <2>1, GoodPage DEF Changing
  <2>5. row \in Digits /\ row = FindAclIndexByMac(ExtractFormFields(r.page), mac)
    BY <1>3, RowOfType DEF RowOf
  <2> HIDE DEF row
  <2>6. /\ GetField(form, Plain("IF_ACTION")) = "delete"
        /\ NamesMac(form, mac) /\ CarriesToken(form, r.page)
        /\ DeletesRowOf(form, r.page, mac)
    BY <2>3, <2>4, <2>5, ResponseType, UnblockFormPosted
  <2> HIDE DEF form
  <2>7. req'.method = "POST" /\ req'.path = "acl" /\ req'.form = form
    BY <2>2
  <2>8. Posted'
    BY <2>1, <2>2, <2>3, <2>4, <2>6, <2>7 DEF Posted, ShowsLogin
  <2>9. result' = NoResult
    BY <2>1, <2>2 DEF SessionInv, SessionOfStep
  <2> QED
    BY <2>8, <2>9 DEF ChangeInv, SuccessWasAnswered, NoResult
<1> QED
  BY <1>1, <1>2, <1>3

LEMMA PostReplyChange ==
  ASSUME TypeOK, SessionInv, ChangeInv, NEW r \in Responses,
         NEW op, NEW step, <<op, step>> \in {<<"block", "blockPost">>, <<"unblock", "unblockPost">>},
         AclReply(op, step, r)
  PROVE  ChangeInv'
<1>1. /\ pc = step /\ resp' = r /\ mac' = mac /\ req' = req /\ loggedIn' = InSession(r)
      /\ pc' = "idle"
      /\ result' = [op |-> op, outcome |-> AclVerdict(r), devices |-> << >>]
  BY DEF AclReply, Absorb, Return
<1>2. CASE AclVerdict(r) # "success"
  BY <1>1, <1>2, QuietStep DEF Changing
<1>3. CASE AclVerdict(r) = "success"
  <2>1. InSession(r) /\ ~r.error /\ r.status \in 200..399
    BY <1>3 DEF AclVerdict
  <2>2. ~ShowsLogin(r)
    BY <2>1 DEF InSession
  <2>3. /\ req.method = "POST" /\ req.path = "acl" /\ NamesMac(req.form, mac)
        /\ GetField(req.form, Plain("IF_ACTION")) = (IF op = "block" THEN "new" ELSE "delete")
    BY <1>1 DEF ChangeInv, Posted
  <2>4. Posted'
    BY <1>1 DEF Posted, Changing
  <2>5. result'.op = op
    BY <1>1
  <2>6. SuccessWasAnswered'
    BY <1>1, <2>1, <2>2, <2>3, <2>5 DEF SuccessWasAnswered, NamesMac, ShowsLogin
  <2> QED
    BY <2>4, <2>6 DEF ChangeInv
<1> QED
  BY <1>2, <1>3

LEMMA ChangeNext == ASSUME TypeOK, SessionInv, ChangeInv, [Next]_vars PROVE ChangeInv'
<1>1. CASE UserCall
  BY <1>1, ChangeCall
<1>2. CASE Answered
  <2>1. PICK r \in Responses : Reply(r)
    BY <1>2 DEF Answered
  <2>2. CASE BlockPostReply(r) \/ UnblockPostReply(r)
    BY <2>2, PostReplyChange DEF BlockPostReply, UnblockPostReply
  <2> QED
    BY <2>1, <2>2, OtherReplyChange, BlockPageChange, UnblockPageChange DEF Reply
<1>3. CASE Restart
  BY <1>3, QuietStep DEF Restart, NoResult, Changing
<1>4. CASE UNCHANGED vars
  BY <1>4 DEF vars, ChangeInv, Posted, SuccessWasAnswered, ShowsLogin
<1> QED
  BY <1>1, <1>2, <1>3, <1>4 DEF Next

LEMMA ChangeHolds == Spec => []ChangeInv
BY TypeCorrect, SessionHolds, ChangeInit, ChangeNext, PTL DEF Spec

LEMMA PostedIsOfThePage == Posted => PostedFromThisPage
<1> SUFFICES ASSUME Posted, pc \in {"blockPost", "unblockPost"} PROVE PostedFromThisPage
  BY DEF PostedFromThisPage
<1>1. \A b, x : [base |-> b, suffix |-> x] = Indexed(b, x)
  BY DEF Indexed
<1>2. \A b : [base |-> b, suffix |-> NoText] = Plain(b)
  BY DEF Plain
<1> QED
  BY <1>1, <1>2 DEF Posted, PostedFromThisPage, CarriesToken, DeletesRowOf

(***************************************************************************)
(* A change is posted from the page the call has just read: its token, and *)
(* for an unblock a row of it that holds the address.                      *)
(***************************************************************************)
THEOREM ChangesComeFromThePage == Spec => []PostedFromThisPage
BY PostedIsOfThePage, ChangeHolds, PTL DEF ChangeInv

(***************************************************************************)
(* Success of a block or an unblock is the router's answer to a change     *)
(* that was posted for the address asked, in a session that goes on.       *)
(***************************************************************************)
THEOREM SuccessIsAnswered == Spec => []SuccessWasAnswered
BY ChangeHolds, PTL DEF ChangeInv

-----------------------------------------------------------------------------
(* What a step may do *)

LEMMA SessionChangeStep ==
  ASSUME [Next]_vars
  PROVE  /\ loggedIn /\ ~loggedIn' =>
              \/ pc \in {"loginPage", "loginPost", "logoff", "aborted"}
              \/ pc \in Waiting /\ ShowsLogin(resp')
         /\ ~loggedIn /\ loggedIn' =>
              pc = "loginPost" /\ ~resp'.error /\ resp'.status \in {200, 301, 302}
<1>1. CASE UserCall
  <2>1. loggedIn' = loggedIn
    BY <1>1, UserCallShape DEF Call, Refuse
  <2> QED
    BY <2>1
<1>2. ASSUME NEW r, pc \in Waiting, resp' = r, loggedIn' = InSession(r)
      PROVE  (loggedIn /\ ~loggedIn' => ShowsLogin(resp')) /\ (loggedIn' => loggedIn)
  BY <1>2 DEF InSession
<1>3. ASSUME NEW r, LoginPageReply(r) \/ LoginPostReply(r) \/ LogoffReply(r)
      PROVE  /\ pc \in {"loginPage", "loginPost", "logoff"}
             /\ ~loggedIn /\ loggedIn' =>
                  pc = "loginPost" /\ ~resp'.error /\ resp'.status \in {200, 301, 302}
  <2>1. CASE LoginPageReply(r)
    BY <2>1 DEF LoginPageReply, Absorb, InSession
  <2>2. CASE LoginPostReply(r)
    BY <2>2 DEF LoginPostReply, Absorb, LoggedInBy, Accepts, IsRedirect
  <2>3. CASE LogoffReply(r)
    BY <2>3 DEF LogoffReply
  <2> QED
    BY <1>3, <2>1, <2>2, <2>3
<1>4. CASE Answered
  <2>1. PICK r \in Responses : Reply(r)
    BY <1>4 DEF Answered
  <2>2. CASE \/ LoginFollowReply(r) \/ InfoReply(r) \/ DhcpReply(r) \/ BlockPageReply(r)
             \/ BlockPostReply(r) \/ UnblockPageReply(r) \/ UnblockPostReply(r)
    <3>1. pc \in Waiting /\ resp' = r /\ loggedIn' = InSession(r)
      BY <2>2 DEF LoginFollowReply, InfoReply, DhcpReply, BlockPageReply, BlockPostReply,
                  UnblockPageReply, UnblockPostReply, AclReply, Absorb, Waiting
    <3> QED
      BY <1>2, <3>1
  <2> QED
    BY <1>3, <2>1, <2>2 DEF Reply
<1>5. CASE Restart
  BY <1>5 DEF Restart
<1>6. CASE UNCHANGED vars
  BY <1>6 DEF vars
<1> QED
  BY <1>1, <1>4, <1>5, <1>6 DEF Next

(***************************************************************************)
(* The session ends by logout(), by login(), by a page that shows the login*)
(* or with the process; it begins with an accepted login post.             *)
(***************************************************************************)
THEOREM SessionChangesByTheRouter == Spec => SessionChange
<1>1. [Next]_vars => [ /\ loggedIn /\ ~loggedIn' =>
                            \/ pc \in {"loginPage", "loginPost", "logoff", "aborted"}
                            \/ pc \in Waiting /\ ShowsLogin(resp')
                       /\ ~loggedIn /\ loggedIn' =>
                            /\ pc = "loginPost"
                            /\ ~resp'.error /\ resp'.status \in {200, 301, 302} ]_vars
  BY SessionChangeStep
<1> QED
  BY <1>1, PTL DEF Spec, SessionChange

\* What a step that ends a call says of the session.
ReportStep ==
  Pending /\ ~Pending' /\ result'.op \in {"info", "block", "unblock"} =>
    (result'.outcome = "expired" <=> ShowsLogin(resp'))

SilentStep ==
  Pending /\ ~Pending' /\ pc \in {"dhcp", "logoff"} /\ ShowsLogin(resp') =>
    pc' = "idle" /\ result'.devices = << >> /\ ~loggedIn'

LEMMA SilentStepHolds == ASSUME [Next]_vars PROVE SilentStep
<1> SUFFICES ASSUME pc \in {"dhcp", "logoff"}, ~Pending', ShowsLogin(resp')
             PROVE  pc' = "idle" /\ result'.devices = << >> /\ ~loggedIn'
  BY DEF SilentStep
<1>1. PICK r \in Responses : Reply(r)
  <2>1. ~UserCall
    BY UserCallShape
  <2>2. ~Restart
    BY DEF Restart
  <2>3. ~UNCHANGED vars
    BY DEF vars, Pending, Waiting
  <2> QED
    BY <2>1, <2>2, <2>3 DEF Next, Answered
<1>2. CASE pc = "dhcp"
  <2>1. DhcpReply(r)
    BY <1>1, <1>2 DEF Reply, LoginPageReply, LoginPostReply, LoginFollowReply, LogoffReply,
         InfoReply, BlockPageReply, BlockPostReply, UnblockPageReply, UnblockPostReply, AclReply,
         Absorb
  <2>2. ~InSession(r) /\ ~Readable(r)
    BY <2>1 DEF DhcpReply, Absorb, InSession, Readable
  <2> QED
    BY <2>1, <2>2 DEF DhcpReply, Return
<1>3. CASE pc = "logoff"
  <2>1. LogoffReply(r)
    BY <1>1, <1>3 DEF Reply, LoginPageReply, LoginPostReply, LoginFollowReply, InfoReply, DhcpReply,
         BlockPageReply, BlockPostReply, UnblockPageReply, UnblockPostReply, AclReply, Absorb
  <2> QED
    BY <2>1 DEF LogoffReply, Return
<1> QED
  BY <1>2, <1>3

LEMMA ReportStepHolds == ASSUME SessionInv, [Next]_vars PROVE ReportStep
<1> SUFFICES ASSUME Pending, ~Pending', result'.op \in {"info", "block", "unblock"}
             PROVE  result'.outcome = "expired" <=> ShowsLogin(resp')
  BY DEF ReportStep
<1>1. pc \in Waiting /\ pc # "idle" /\ pc' \notin Waiting
  BY DEF Pending, Waiting
<1>2. PICK r \in Responses : Reply(r)
  <2>1. ~UserCall
    BY <1>1, UserCallShape
  <2>2. ~Restart
    BY <1>1 DEF Restart, Waiting
  <2> QED
    BY <1>1, <2>1, <2>2 DEF Next, Answered, vars
<1>3. result.op = "none"
  BY <1>1 DEF SessionInv, SessionOfStep, NoResult
<1>4. ASSUME NEW op, NEW outcome, Return(op, outcome, << >>), loggedIn, resp' = r,
             outcome = "expired" <=> ~InSession(r)
      PROVE  result'.outcome = "expired" <=> ShowsLogin(resp')
  BY <1>4 DEF Return, InSession
<1>5. /\ WanStatus(r) = "expired" <=> ~InSession(r)
      /\ AclPageProblem(r) = "expired" <=> ~InSession(r)
      /\ AclVerdict(r) = "expired" <=> ~InSession(r)
  BY DEF WanStatus, AclPageProblem, AclVerdict
<1>6. CASE InfoReply(r)
  BY <1>1, <1>4, <1>5, <1>6 DEF InfoReply, Absorb, SessionInv, SessionOfStep, Waiting
<1>7. CASE BlockPostReply(r) \/ UnblockPostReply(r)
  BY <1>1, <1>4, <1>5, <1>7 DEF BlockPostReply, UnblockPostReply, AclReply, Absorb, SessionInv,
                                SessionOfStep, Waiting
<1>8. CASE BlockPageReply(r)
  <2>1. AclPageProblem(r) # "none"
    BY <1>1, <1>8 DEF BlockPageReply, HttpPost, Waiting
  <2> QED
    BY <1>1, <1>4, <1>5, <1>8, <2>1 DEF BlockPageReply, Absorb, SessionInv, SessionOfStep, Waiting
<1>9. CASE UnblockPageReply(r)
  <2>1. /\ resp' = r /\ loggedIn
        /\ \/ AclPageProblem(r) # "none" /\ Return("unblock", AclPageProblem(r), << >>)
           \/ AclPageProblem(r) = "none" /\ Return("unblock", "notListed", << >>)
    BY <1>1, <1>9 DEF UnblockPageReply, HttpPost, Absorb, SessionInv, SessionOfStep, Waiting
  <2> QED
    BY <1>4, <1>5, <2>1
<1>10. ~( \/ LoginPageReply(r) \/ LoginPostReply(r) \/ LoginFollowReply(r) \/ LogoffReply(r)
          \/ DhcpReply(r) )
  BY <1>3 DEF LoginPageReply, LoginPostReply, LoginFollowReply, LogoffReply, DhcpReply, Return
<1> QED
  BY <1>2, <1>6, <1>7, <1>8, <1>9, <1>10 DEF Reply

(***************************************************************************)
(* routerInfo(), blockDevice() and unblockDevice() report the session as   *)
(* expired exactly when their last answer showed the login page;           *)
(* connectedDevices() and logout() take nothing from such an answer and    *)
(* leave no session.                                                       *)
(***************************************************************************)
THEOREM ExpiryIsReported == Spec => ExpiryReported
<1>1. SessionInv /\ [Next]_vars => [ReportStep /\ SilentStep]_vars
  BY ReportStepHolds, SilentStepHolds
<1>2. Spec => [][ReportStep /\ SilentStep]_vars
  BY <1>1, SessionHolds, PTL DEF Spec
<1>3. ReportStep /\ SilentStep
        <=> (Pending /\ ~Pending' =>
               /\ result'.op \in {"info", "block", "unblock"} =>
                    (result'.outcome = "expired" <=> ShowsLogin(resp'))
               /\ pc \in {"dhcp", "logoff"} /\ ShowsLogin(resp') =>
                    pc' = "idle" /\ result'.devices = << >> /\ ~loggedIn')
  BY DEF ReportStep, SilentStep
<1> QED
  BY <1>2, <1>3, PTL DEF ExpiryReported

-----------------------------------------------------------------------------
(* The client implements RouterSession *)

LEMMA AbstractInitHolds == Init => Abstract!AbstractInit
BY DEF Init, Abstract!AbstractInit, NoResult

LEMMA CallStep == ASSUME loggedIn \in BOOLEAN, UserCall PROVE Abstract!AbstractNext
<1>1. ASSUME NEW step \in Waiting \ {"loginPost", "loginFollow", "blockPost", "unblockPost"},
             NEW path \in Path, Call(step, path), pc = "idle", step # "loginPage" => loggedIn
      PROVE  \E first \in {"login", "logout", "read", "prepare"} : Abstract!Begin(first)
  <2>1. CASE step = "loginPage"
    <3>1. Abstract!Begin("login")
      BY <1>1, <2>1 DEF Call, HttpGet, NoResult, Abstract!Begin
    <3> QED
      BY <3>1
  <2>2. CASE step = "logoff"
    <3>1. Abstract!Begin("logout")
      BY <1>1, <2>2 DEF Call, HttpGet, NoResult, Abstract!Begin
    <3> QED
      BY <3>1
  <2>3. CASE step \in {"info", "dhcp"}
    <3>1. Abstract!Begin("read")
      BY <1>1, <2>3 DEF Call, HttpGet, NoResult, Abstract!Begin
    <3> QED
      BY <3>1
  <2>4. CASE step \in {"blockPage", "unblockPage"}
    <3>1. Abstract!Begin("prepare")
      BY <1>1, <2>4 DEF Call, HttpGet, NoResult, Abstract!Begin
    <3> QED
      BY <3>1
  <2> QED
    BY <2>1, <2>2, <2>3, <2>4 DEF Waiting
<1>2. ASSUME NEW op, NEW outcome, pc = "idle", Return(op, outcome, << >>), UNCHANGED loggedIn,
             outcome = "success" => ~loggedIn
      PROVE  Abstract!Answer
  BY <1>2 DEF Return, Abstract!Answer
<1>3. CASE \E op \in Ops, outcome \in {"credentials", "noMac", "notLoggedIn", "none"} :
             Refuse(op, outcome) /\ op # "logout"
  BY <1>2, <1>3, UserCallShape DEF Refuse, Abstract!AbstractNext
<1>4. CASE Return("logout", "success", << >>) /\ ~loggedIn /\ UNCHANGED loggedIn
  BY <1>2, <1>4, UserCallShape DEF Abstract!AbstractNext
<1> QED
  BY <1>1, <1>3, <1>4, UserCallShape DEF Abstract!AbstractNext

LEMMA LoginStep ==
  ASSUME NEW r, InSession(r) \in BOOLEAN, LoggedInBy(r) \in BOOLEAN,
         LoginPageReply(r) \/ LoginPostReply(r) \/ LoginFollowReply(r)
  PROVE  Abstract!AbstractNext
<1>1. CASE LoginPageReply(r)
  <2>1. CASE r.error
    <3>1. Abstract!LoginReturns
      BY <1>1, <2>1 DEF LoginPageReply, Absorb, Return, Abstract!LoginReturns
    <3> QED
      BY <3>1 DEF Abstract!AbstractNext
  <2>2. CASE ~r.error
    <3>1. Abstract!LoginGoesOn
      BY <1>1, <2>2 DEF LoginPageReply, Absorb, HttpPost, Abstract!LoginGoesOn
    <3> QED
      BY <3>1 DEF Abstract!AbstractNext
  <2> QED
    BY <2>1, <2>2
<1>2. CASE LoginPostReply(r)
  <2>1. pc = "loginPost" /\ loggedIn' = LoggedInBy(r)
    BY <1>2 DEF LoginPostReply, Absorb
  <2> DEFINE outcome == IF r.error THEN "error" ELSE IF Accepts(r) THEN "success" ELSE "rejected"
  <2>2. outcome # "success" => LoggedInBy(r) = FALSE
    BY DEF LoggedInBy
  <2>3. CASE Return("login", outcome, << >>)
    <3> HIDE DEF outcome
    <3>1. Abstract!LoginReturns
      BY <2>1, <2>2, <2>3 DEF Return, Abstract!LoginReturns
    <3> QED
      BY <3>1 DEF Abstract!AbstractNext
  <2>4. CASE HttpGet("loginFollow", "location", JarAfter(r)) /\ UNCHANGED result
    <3>1. Abstract!LoginGoesOn
      BY <2>1, <2>4 DEF HttpGet, Abstract!LoginGoesOn
    <3> QED
      BY <3>1 DEF Abstract!AbstractNext
  <2> QED
    BY <1>2, <2>3, <2>4 DEF LoginPostReply
<1>3. CASE LoginFollowReply(r)
  <2>1. Abstract!LoginReturns
    BY <1>3 DEF LoginFollowReply, Absorb, Return, Abstract!LoginReturns
  <2> QED
    BY <2>1 DEF Abstract!AbstractNext
<1> QED
  BY <1>1, <1>2, <1>3

LEMMA ReadStep ==
  ASSUME SessionInv, NEW r, InSession(r) \in BOOLEAN,
         LogoffReply(r) \/ InfoReply(r) \/ DhcpReply(r)
  PROVE  [Abstract!AbstractNext]_(Abstract!abstractVars)
<1>1. CASE LogoffReply(r)
  <2>1. Abstract!LogoutReturns
    BY <1>1 DEF LogoffReply, Return, Abstract!LogoutReturns
  <2> QED
    BY <2>1 DEF Abstract!AbstractNext
<1>2. ASSUME NEW op, NEW outcome, NEW devices, pc \in {"info", "dhcp"}, outcome # "success",
             Return(op, outcome, devices), loggedIn' = InSession(r)
      PROVE  Abstract!AbstractNext
  <2>1. InSession(r) => loggedIn
    BY DEF InSession
  <2>2. Abstract!ReadReturns
    BY <1>2, <2>1 DEF Return, Abstract!ReadReturns, Abstract!Keeps
  <2> QED
    BY <2>2 DEF Abstract!AbstractNext
<1>3. CASE InfoReply(r)
  <2>1. WanStatus(r) # "success"
    BY DEF WanStatus
  <2> QED
    BY <1>2, <1>3, <2>1 DEF InfoReply, Absorb
<1>4. CASE DhcpReply(r)
  <2>1. pc = "dhcp" /\ loggedIn' = InSession(r)
    BY <1>4 DEF DhcpReply, Absorb
  <2>2. CASE Readable(r) /\ r.page.leases = Overflow
    <3>1. pc' = "aborted" /\ result' = result
      BY <1>4, <2>2 DEF DhcpReply
    <3>2. loggedIn /\ loggedIn' /\ loggedIn' = loggedIn
      BY <2>1, <2>2 DEF Readable, InSession
    <3>3. UNCHANGED Abstract!abstractVars
      BY <2>1, <3>1, <3>2 DEF Abstract!abstractVars
    <3> QED
      BY <3>3
  <2>3. CASE ~(Readable(r) /\ r.page.leases = Overflow)
    <3>1. Return("devices", "none", IF Readable(r) THEN r.page.leases ELSE << >>)
      BY <1>4, <2>3 DEF DhcpReply
    <3> QED
      BY <1>2, <2>1, <3>1
  <2> QED
    BY <2>2, <2>3
<1> QED
  BY <1>1, <1>3, <1>4

LEMMA ChangeStep ==
  ASSUME SessionInv, NEW r, InSession(r) \in BOOLEAN,
         BlockPageReply(r) \/ BlockPostReply(r) \/ UnblockPageReply(r) \/ UnblockPostReply(r)
  PROVE  Abstract!AbstractNext
<1>1. (InSession(r) => loggedIn) /\ loggedIn' = InSession(r)
  BY DEF InSession, BlockPageReply, BlockPostReply, UnblockPageReply, UnblockPostReply, AclReply
<1>2. AclPageProblem(r) # "success" /\ (AclVerdict(r) = "success" => InSession(r))
  BY DEF AclPageProblem, AclVerdict
<1>3. ASSUME NEW op, NEW outcome, outcome # "success", pc \in {"blockPage", "unblockPage"},
             Return(op, outcome, << >>)
      PROVE  Abstract!AbstractNext
  <2>1. Abstract!ChangeFails
    BY <1>1, <1>3 DEF Return, Abstract!ChangeFails, Abstract!Keeps
  <2> QED
    BY <2>1 DEF Abstract!AbstractNext
<1>4. ASSUME NEW step \in {"blockPost", "unblockPost"}, NEW form, UNCHANGED result,
             pc \in {"blockPage", "unblockPage"}, AclPageProblem(r) = "none",
             HttpPost(step, "acl", form, JarAfter(r))
      PROVE  Abstract!AbstractNext
  <2>1. loggedIn /\ loggedIn' = loggedIn
    <3>1. InSession(r)
      BY <1>4 DEF AclPageProblem
    <3>2. loggedIn /\ InSession(r) = TRUE
      BY <1>1, <3>1
    <3>3. loggedIn = TRUE
      BY <3>2 DEF InSession
    <3> QED
      BY <1>1, <3>2, <3>3
  <2>2. Abstract!PostChange
    BY <1>4, <2>1 DEF HttpPost, Abstract!PostChange
  <2> QED
    BY <2>2 DEF Abstract!AbstractNext
<1>5. CASE BlockPageReply(r)
  BY <1>2, <1>3, <1>4, <1>5 DEF BlockPageReply, Absorb
<1>6. CASE UnblockPageReply(r)
  BY <1>2, <1>3, <1>4, <1>6 DEF UnblockPageReply, Absorb
<1>7. CASE BlockPostReply(r) \/ UnblockPostReply(r)
  <2>1. PICK op : Return(op, AclVerdict(r), << >>)
    BY <1>7 DEF BlockPostReply, UnblockPostReply, AclReply
  <2>2. pc \in {"blockPost", "unblockPost"}
    BY <1>7 DEF BlockPostReply, UnblockPostReply, AclReply, Absorb
  <2>3. Abstract!ChangeReturns
    BY <1>1, <1>2, <2>1, <2>2 DEF Return, Abstract!ChangeReturns, Abstract!Keeps
  <2> QED
    BY <2>3 DEF Abstract!AbstractNext
<1> QED
  BY <1>5, <1>6, <1>7

\* An answer is a step of RouterSession whatever is in it, one of Responses or not.
LEMMA ReplyRefines ==
  ASSUME SessionInv, loggedIn \in BOOLEAN, NEW r, Reply(r)
  PROVE  [Abstract!AbstractNext]_(Abstract!abstractVars)
<1>1. InSession(r) \in BOOLEAN /\ LoggedInBy(r) \in BOOLEAN
  BY DEF InSession, LoggedInBy
<1> QED
  BY <1>1, LoginStep, ReadStep, ChangeStep DEF Reply

LEMMA RefinementStep ==
  ASSUME TypeOK, SessionInv, [Next]_vars
  PROVE  [Abstract!AbstractNext]_(Abstract!abstractVars)
<1>0. loggedIn \in BOOLEAN
  BY DEF TypeOK
<1>1. CASE UserCall
  BY <1>0, <1>1, CallStep
<1>2. CASE Answered
  BY <1>0, <1>2, ReplyRefines DEF Answered
<1>3. CASE Restart
  <2>1. Abstract!Crash
    BY <1>3 DEF Restart, NoResult, Abstract!Crash
  <2> QED
    BY <2>1 DEF Abstract!AbstractNext
<1>4. CASE UNCHANGED vars
  BY <1>4 DEF vars, Abstract!abstractVars
<1> QED
  BY <1>1, <1>2, <1>3, <1>4 DEF Next

(***************************************************************************)
(* Whatever the router answers, the client keeps what RouterSession        *)
(* promises to the application: no change without a session, success only  *)
(* for what was posted and outlived by the session, no session after a     *)
(* failed login.                                                           *)
(***************************************************************************)
THEOREM RefinesRouterSession == Spec => ImplementsRouterSession
<1>1. Init => Abstract!AbstractInit
  BY AbstractInitHolds
<1>2. TypeOK /\ SessionInv /\ [Next]_vars => [Abstract!AbstractNext]_(Abstract!abstractVars)
  BY RefinementStep
<1> QED
  BY <1>1, <1>2, TypeCorrect, SessionHolds, PTL DEF Spec, ImplementsRouterSession, Abstract!AbstractSpec

-----------------------------------------------------------------------------
(* That calls end *)

\* The answers a call waits for at a step, this one included, at most.
AnswersAwaited(step) ==
  IF step = "loginPage" THEN 3
  ELSE IF step \in {"loginPost", "blockPage", "unblockPage"} THEN 2
  ELSE IF step \in Waiting THEN 1 ELSE 0

LEMMA AnswerIsOneLess ==
  ASSUME Answered
  PROVE  AnswersAwaited(pc') < AnswersAwaited(pc)
<1>1. PICK r \in Responses : Reply(r)
  BY DEF Answered
<1>2. CASE LoginPageReply(r) \/ LoginPostReply(r) \/ LoginFollowReply(r)
  BY <1>2 DEF LoginPageReply, LoginPostReply, LoginFollowReply, Absorb, Return, HttpGet, HttpPost,
              AnswersAwaited, Waiting
<1>3. CASE LogoffReply(r) \/ InfoReply(r) \/ DhcpReply(r)
  BY <1>3 DEF LogoffReply, InfoReply, DhcpReply, Absorb, Return, AnswersAwaited, Waiting
<1>4. CASE BlockPageReply(r) \/ UnblockPageReply(r)
  BY <1>4 DEF BlockPageReply, UnblockPageReply, Absorb, Return, HttpPost, AnswersAwaited, Waiting
<1>5. CASE BlockPostReply(r) \/ UnblockPostReply(r)
  BY <1>5 DEF BlockPostReply, UnblockPostReply, AclReply, Absorb, Return, AnswersAwaited, Waiting
<1> QED
  BY <1>1, <1>2, <1>3, <1>4, <1>5 DEF Reply

LEMMA PendingStep ==
  ASSUME [Next]_vars, Pending, ~UNCHANGED vars
  PROVE  AnswersAwaited(pc') < AnswersAwaited(pc)
<1>1. pc \notin {"idle", "aborted"}
  BY DEF Pending, Waiting
<1>2. ~UserCall
  BY <1>1, UserCallShape
<1>3. ~Restart
  BY <1>1 DEF Restart
<1> QED
  BY <1>2, <1>3, AnswerIsOneLess DEF Next

(***************************************************************************)
(* A call takes three answers at most: nothing but an answer happens to a  *)
(* call under way, and each leaves fewer to wait for, whatever is in it.   *)
(* With the answers that fairness promises, that is CallReturns.           *)
(***************************************************************************)
THEOREM CallsAreShort == Spec => [][Pending => AnswersAwaited(pc') < AnswersAwaited(pc)]_vars
<1>1. [Next]_vars => [Pending => AnswersAwaited(pc') < AnswersAwaited(pc)]_vars
  BY PendingStep
<1> QED
  BY <1>1, PTL DEF Spec

=============================================================================
