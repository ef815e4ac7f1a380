------------------------- MODULE ManagedRouterProofs --------------------------
(***************************************************************************)
(* Proofs about ManagedRouter: what a failure, a success and the end of a  *)
(* session mean at the router, and that its list changes as the user asked *)
(* it to, over both transports, for every number of sessions, tokens, rows *)
(* and delayed requests.                                                   *)
(***************************************************************************)
EXTENDS ManagedRouter, ZteF670LRouterClientProofs

-----------------------------------------------------------------------------
(* The client among the other steps *)

LEMMA ReplyKeepsSession == ASSUME SessionInv, NEW r, Reply(r) PROVE SessionInv'
  BY LoginReplySession, ReadReplySession, AclReplySession DEF Reply

\* SessionInv is about the client alone.
LEMMA SessionStays == SessionInv /\ UNCHANGED vars => SessionInv'
  BY DEF vars, SessionInv, SessionOfStep, LoginOutcome, EndedSessionForgotten, ShowsLogin

Posts == {"blockPost", "unblockPost"}

(***************************************************************************)
(* A request that is pending has a method and a path, and is the post of a *)
(* change exactly when a change waits for its answer.                      *)
(***************************************************************************)
Asked ==
  pc \in Waiting =>
    /\ req.method \in {"GET", "POST"}
    /\ req.path \in Path \ {"none"}
    /\ (req.path = "acl" /\ req.method = "POST") <=> pc \in Posts

\* The start of a call.
LEMMA CallAsks == ASSUME UserCall PROVE Asked'
<1>1. CASE \E given \in BOOLEAN : Login(given)
  BY <1>1 DEF Login, Call, HttpGet, Refuse, Return, Asked, Waiting, Path, Posts
<1>2. CASE Logout
  BY <1>2 DEF Logout, Call, HttpGet, Return, Asked, Waiting, Path, Posts
<1>3. CASE RouterInfo \/ ConnectedDevices
  BY <1>3 DEF RouterInfo, ConnectedDevices, Call, HttpGet, Refuse, Return, Asked, Waiting, Path, Posts
<1>4. CASE \E m \in Mac : BlockDevice(m) \/ UnblockDevice(m)
  <2>1. PICK op \in {"block", "unblock"}, step \in {"blockPage", "unblockPage"}, m \in Mac :
          CallAcl(op, step, m)
    BY <1>4 DEF BlockDevice, UnblockDevice
  <2>2. pc' = "idle" \/ Call(step, "acl")
    BY <2>1 DEF CallAcl, Refuse, Return
  <2> QED
    BY <2>1, <2>2 DEF Call, HttpGet, Asked, Waiting, Path, Posts
<1> QED
  BY <1>1, <1>2, <1>3, <1>4 DEF UserCall

\* An answer to a login, which is followed by a post, a redirect or nothing.
LEMMA LoginReplyAsks ==
  ASSUME NEW r, LoginPageReply(r) \/ LoginPostReply(r) \/ LoginFollowReply(r)
  PROVE  Asked' /\ pc \notin Posts /\ pc' \notin Posts
<1>1. CASE LoginPageReply(r)
  BY <1>1 DEF LoginPageReply, Absorb, HttpPost, Return, Asked, Waiting, Path, Posts
<1>2. CASE LoginPostReply(r)
  BY <1>2 DEF LoginPostReply, Absorb, HttpGet, Return, Asked, Waiting, Path, Posts
<1>3. CASE LoginFollowReply(r)
  BY <1>3 DEF LoginFollowReply, Absorb, Return, Asked, Waiting, Posts
<1> QED
  BY <1>1, <1>2, <1>3

\* An answer that ends its call.
LEMMA LastReplyAsks ==
  ASSUME NEW r,
         LogoffReply(r) \/ InfoReply(r) \/ DhcpReply(r) \/ BlockPostReply(r) \/ UnblockPostReply(r)
  PROVE  Asked' /\ pc' \notin Waiting
<1>1. CASE LogoffReply(r) \/ InfoReply(r)
  BY <1>1 DEF LogoffReply, InfoReply, Return, Asked, Waiting
<1>2. CASE DhcpReply(r)
  BY <1>2 DEF DhcpReply, Return, Asked, Waiting
<1>3. CASE BlockPostReply(r) \/ UnblockPostReply(r)
  BY <1>3 DEF BlockPostReply, UnblockPostReply, AclReply, Return, Asked, Waiting
<1> QED
  BY <1>1, <1>2, <1>3

\* The page a change is made from.
LEMMA PageReplyAsks ==
  ASSUME NEW r, BlockPageReply(r) \/ UnblockPageReply(r)
  PROVE  Asked' /\ pc \notin Posts /\ pc' \in Posts \cup {"idle"}
<1>1. CASE pc' = "idle"
  BY <1>1 DEF BlockPageReply, UnblockPageReply, Absorb, Asked, Waiting, Posts
<1>2. CASE \E step \in Posts : \E form : HttpPost(step, "acl", form, JarAfter(r))
  BY <1>2 DEF BlockPageReply, UnblockPageReply, Absorb, HttpPost, Asked, Waiting, Path, Posts
<1> QED
  BY <1>1, <1>2 DEF BlockPageReply, UnblockPageReply, Return, Posts

\* An answer is awaited, and one to the post of a change ends the call.
LEMMA ReplyAsks ==
  ASSUME NEW r, Reply(r)
  PROVE  Asked' /\ pc \in Waiting /\ (pc \in Posts => pc' \notin Waiting)
<1>1. pc \in Waiting
  BY DEF Reply, LoginPageReply, LoginPostReply, LoginFollowReply, LogoffReply, InfoReply, DhcpReply,
         BlockPageReply, BlockPostReply, UnblockPageReply, UnblockPostReply, AclReply, Absorb, Waiting
<1> QED
  BY <1>1, LoginReplyAsks, LastReplyAsks, PageReplyAsks DEF Reply

-----------------------------------------------------------------------------
(* The answers *)

\* What the router says of a change.
ChangeAnswers == {Verdict("SUCC"), Verdict("NULL"), [Answer200 EXCEPT !.status = 500]}

\* Pages without a login form, and the login page.
LEMMA PageShapes ==
  /\ EmptyPage.form = FALSE /\ CutPage.form = FALSE
  /\ LoginPage.form = TRUE /\ LoginPage.inputs = << >> /\ LoginPage.blank = FALSE
  /\ CutPage.inputs = << >>
  /\ DOMAIN CutPage = DOMAIN EmptyPage
  /\ \A i : [CutPage EXCEPT !.inputs = i].form = FALSE
  /\ [CutPage EXCEPT !.inputs = << >>] = CutPage
<1>1. /\ EmptyPage.form = FALSE /\ EmptyPage.inputs = << >>
      /\ DOMAIN EmptyPage = {"form", "user", "blank", "loginToken", "checkToken", "inputs",
                             "hidden", "scripts", "leases"}
  BY DEF EmptyPage
<1>2. /\ CutPage.form = FALSE /\ CutPage.inputs = << >> /\ CutPage.blank = FALSE
      /\ DOMAIN CutPage = DOMAIN EmptyPage
  BY <1>1 DEF CutPage
<1>3. LoginPage.form = TRUE /\ LoginPage.inputs = << >> /\ LoginPage.blank = FALSE
  BY <1>1, <1>2 DEF LoginPage
<1>4. \A i : [CutPage EXCEPT !.inputs = i].form = FALSE
  BY <1>1, <1>2
<1>5. [CutPage EXCEPT !.inputs = << >>] = CutPage
  BY <1>1, <1>2 DEF CutPage, EmptyPage
<1> QED
  BY <1>1, <1>2, <1>3, <1>4, <1>5

\* What an answer has and how one is built.
LEMMA AnswerShapes ==
  /\ DOMAIN NoResponse = {"error", "status", "location", "cookies", "page"}
  /\ DOMAIN NoAnswer = DOMAIN NoResponse /\ DOMAIN Answer200 = DOMAIN NoResponse
  /\ NoAnswer.error = TRUE /\ NoAnswer.cookies = NoJar /\ NoAnswer.location = "none"
  /\ NoAnswer.status = 0
  /\ Answer200.location = "none" /\ Answer200.status = 200 /\ Answer200.page = CutPage
  /\ Answer200.cookies = NoJar
  BY DEF NoAnswer, NoResponse, Answer200

\* A part of a page has its login form or none.
LEMMA PartForm ==
  ASSUME NEW page, NEW p \in PartsOf(page) PROVE p = page \/ p.form = FALSE
  BY PageShapes DEF PartsOf

\* A part of the login page has nothing in it, unless it is the whole.
LEMMA PartOfLogin == PartsOf(LoginPage) \subseteq {EmptyPage, CutPage, LoginPage}
<1> SUFFICES ASSUME NEW p \in PartsOf(LoginPage) PROVE p \in {EmptyPage, CutPage, LoginPage}
  OBVIOUS
<1>1. CASE p \notin {EmptyPage, LoginPage}
  <2>1. PICK n \in 0..Len(LoginPage.inputs) :
          p = [CutPage EXCEPT !.inputs = SubSeq(LoginPage.inputs, 1, n)]
    BY <1>1 DEF PartsOf
  <2>2. SubSeq(LoginPage.inputs, 1, n) = << >>
    <3>1. n = 0
      BY <2>1, PageShapes
    <3> QED
      BY <3>1, PageShapes
  <2> QED
    BY <2>1, <2>2, PageShapes
<1> QED
  BY <1>1

\* What arrives of an answer has its status, Location and cookies or none of
\* them, and a part of its page.
LEMMA DeliveredShape ==
  ASSUME NEW a, DOMAIN a = DOMAIN NoResponse, NEW r \in Delivered(a)
  PROVE  /\ r.status \in {a.status, 0} /\ r.location \in {a.location, "none"} /\ r.error = a.error
         /\ r.cookies \in {a.cookies, NoJar}
         /\ r.page = a.page \/ r.page \in PartsOf(a.page)
<1>1. CASE r \in WinHttpDelivers(a, PartsOf(a.page), NoAnswer)
  <2>1. PICK p \in PartsOf(a.page), st \in {a.status, NoAnswer.status}, h \in {a, NoAnswer} :
          r = ReadAs(a, p, st, h)
    BY <1>1 DEF WinHttpDelivers
  <2>2. /\ r.status = st /\ r.location = h.location /\ r.error = a.error
        /\ r.cookies = h.cookies /\ r.page = p
    BY <2>1, AnswerShapes DEF ReadAs
  <2> QED
    BY <2>1, <2>2, AnswerShapes
<1>2. CASE r \in CurlDelivers(a, NoAnswer)
  BY <1>2, AnswerShapes DEF CurlDelivers
<1> QED
  BY <1>1, <1>2 DEF Delivered, DeliveredBy

LEMMA BrokenShape ==
  ASSUME NEW a, NEW r \in Broken(a)
  PROVE  /\ r.status = 0 /\ r.location \in {a.location, "none"} /\ r.error = TRUE
         /\ r.cookies = NoJar
         /\ r.page \in {a.page, NoAnswer.page} \cup PartsOf(a.page)
<1>1. CASE r = NoAnswer
  BY <1>1, AnswerShapes
<1>2. CASE \E p \in PartsOf(a.page) : r = [NoAnswer EXCEPT !.location = a.location, !.page = p]
  <2>1. PICK p \in PartsOf(a.page) : r = [NoAnswer EXCEPT !.location = a.location, !.page = p]
    BY <1>2
  <2>2. /\ r.status = NoAnswer.status /\ r.location = a.location /\ r.error = NoAnswer.error
        /\ r.cookies = NoAnswer.cookies /\ r.page = p
    BY <2>1, AnswerShapes
  <2> QED
    BY <2>2, AnswerShapes
<1> QED
  BY <1>1, <1>2 DEF Broken, BrokenBy, WinHttpBreaks, CurlBreaks

\* What the router says of a change never looks like a login page.
LEMMA ChangeAnswerShown ==
  ASSUME NEW a \in ChangeAnswers, NEW r \in Delivered(a) \cup Broken(a)
  PROVE  ~ShowsLogin(r)
<1>1. /\ DOMAIN a = DOMAIN NoResponse /\ a.location = "none" /\ a.status # 401
      /\ a.page.form = FALSE
  <2>1. ASSUME NEW text, a = Verdict(text)
        PROVE  /\ DOMAIN a = DOMAIN NoResponse /\ a.location = "none" /\ a.status # 401
               /\ a.page.form = FALSE
    <3> DEFINE page == [CutPage EXCEPT !.inputs = << Pair(Plain("IF_ERRORSTR"), text) >>]
    <3>1. a = [Answer200 EXCEPT !.page = page]
      BY <2>1 DEF Verdict, Served
    <3>2. page.form = FALSE
      BY PageShapes
    <3> HIDE DEF page
    <3>3. /\ DOMAIN a = DOMAIN Answer200 /\ a.location = Answer200.location
          /\ a.status = Answer200.status /\ a.page = page
      BY <3>1, AnswerShapes
    <3> QED
      BY <3>2, <3>3, AnswerShapes
  <2>2. CASE a = [Answer200 EXCEPT !.status = 500]
    BY <2>2, AnswerShapes, PageShapes
  <2> QED
    BY <2>1, <2>2 DEF ChangeAnswers
<1>2. NoAnswer.page.form = FALSE
  BY DEF NoAnswer, NoResponse, EmptyPage
<1>3. CASE r \in Delivered(a)
  <2>1. /\ r.status \in {a.status, 0} /\ r.location \in {a.location, "none"}
        /\ r.page = a.page \/ r.page \in PartsOf(a.page)
    BY <1>1, <1>3, DeliveredShape
  <2>2. r.page.form = FALSE
    BY <1>1, <2>1, PartForm
  <2> QED
    BY <1>1, <2>1, <2>2 DEF ShowsLogin
<1>4. CASE r \in Broken(a)
  <2>1. /\ r.status = 0 /\ r.location \in {a.location, "none"}
        /\ r.page \in {a.page, NoAnswer.page} \cup PartsOf(a.page)
    BY <1>4, BrokenShape
  <2>2. r.page.form = FALSE
    <3>1. CASE r.page \in {a.page, NoAnswer.page}
      BY <1>1, <1>2, <3>1
    <3>2. CASE r.page \in PartsOf(a.page)
      BY <1>1, <3>2, PartForm
    <3> QED
      BY <2>1, <3>1, <3>2
  <2> QED
    BY <1>1, <2>1, <2>2 DEF ShowsLogin
<1> QED
  BY <1>3, <1>4

\* What says that there is no session shows the login page, or is cut to
\* nothing the client could tell it by.
LEMMA ExpiredShown ==
  ASSUME NEW a \in Expired, NEW r \in Delivered(a)
  PROVE  ShowsLogin(r) \/ r.page \in {EmptyPage, CutPage}
<1>1. CASE a = Served(LoginPage)
  <2>1. DOMAIN a = DOMAIN NoResponse /\ a.page = LoginPage
    BY <1>1, AnswerShapes DEF Served
  <2>2. r.page \in {EmptyPage, CutPage, LoginPage}
    BY <2>1, DeliveredShape, PartOfLogin
  <2> QED
    BY <2>2, PageShapes DEF ShowsLogin
<1>2. CASE a = [Answer200 EXCEPT !.status = 302, !.location = "login", !.page = EmptyPage]
  <2>1. DOMAIN a = DOMAIN NoResponse /\ a.page = EmptyPage
    BY <1>2, AnswerShapes
  <2>2. PartsOf(EmptyPage) = {EmptyPage}
    BY DEF PartsOf, EmptyPage
  <2> QED
    BY <2>1, <2>2, DeliveredShape
<1> QED
  BY <1>1, <1>2 DEF Expired

\* The fields of an outcome.
LEMMA OutcomeFields ==
  ASSUME NEW l, NEW a, NEW t, NEW f, NEW r
  PROVE  /\ Outcome(l, a, t, f, r).fate = f /\ Outcome(l, a, t, f, r).answer = r
         /\ \A x : /\ [Outcome(l, a, t, f, r) EXCEPT !.live = x].fate = f
                   /\ [Outcome(l, a, t, f, r) EXCEPT !.live = x].answer = r
                   /\ [Outcome(l, a, t, f, r) EXCEPT !.token = x].fate = f
                   /\ [Outcome(l, a, t, f, r) EXCEPT !.token = x].answer = r
  BY DEF Outcome

\* A record of the shape of an answer.
IsAnswer(r) == DOMAIN r = DOMAIN NoResponse

LEMMA AnswersAre ==
  /\ \A page : IsAnswer(Served(page))
  /\ \A r \in Expired \cup LoggedOn \cup {Answer200} : IsAnswer(r)
  /\ \A r, s : IsAnswer(r) => IsAnswer(Setting(r, s))
<1>1. \A page : IsAnswer(Served(page))
  BY AnswerShapes DEF IsAnswer, Served
<1>2. \A r \in Expired \cup LoggedOn \cup {Answer200} : IsAnswer(r)
  <2>1. /\ IsAnswer([Answer200 EXCEPT !.status = 302, !.location = "login", !.page = EmptyPage])
        /\ IsAnswer([Answer200 EXCEPT !.status = 302, !.location = "other", !.page = EmptyPage])
        /\ IsAnswer(Answer200)
    BY AnswerShapes DEF IsAnswer
  <2> QED
    BY <1>1, <2>1 DEF Expired, LoggedOn
<1>3. \A r, s : IsAnswer(r) => IsAnswer(Setting(r, s))
  BY DEF IsAnswer, Setting
<1> QED
  BY <1>1, <1>2, <1>3

LEMMA ChangeOutcomes ==
  ASSUME NEW form, NEW o \in Change(form)
  PROVE  o.answer \in ChangeAnswers /\ IsAnswer(o.answer) /\ o.fate \in {"made", "refused"}
<1> DEFINE good == /\ TokenOf(form) = token
                   /\ Len(Changed(form)) <= Len(RowNames)
           list == IF good THEN Changed(form) ELSE acl
           made == IF good THEN "made" ELSE "refused"
           text == IF good THEN "SUCC" ELSE "NULL"
<1>1. PICK r \in {Verdict(text), [Answer200 EXCEPT !.status = 500]} :
        o = Outcome(live, list, NoText, made, r)
  BY DEF Change
<1>2. made \in {"made", "refused"} /\ r \in ChangeAnswers
  <2>1. CASE good
    BY <1>1, <2>1 DEF ChangeAnswers
  <2>2. CASE ~good
    BY <1>1, <2>2 DEF ChangeAnswers
  <2> QED
    BY <2>1, <2>2
<1> HIDE DEF good, list, made, text
<1>3. IsAnswer(r)
  BY <1>2, AnswersAre, AnswerShapes DEF ChangeAnswers, Verdict, IsAnswer
<1> QED
  BY <1>1, <1>2, <1>3, OutcomeFields

LEMMA LogsOnOutcomes ==
  ASSUME NEW o \in LogsOn
  PROVE  IsAnswer(o.answer) /\ o.fate \in {fate, "granted"}
<1>1. CASE o = Only(Served(LoginPage))
  BY <1>1, OutcomeFields, AnswersAre DEF Only
<1>2. CASE \E s \in FreshSessions, r \in LoggedOn :
             o = Outcome(live \cup {s}, acl, token, "granted", Setting(r, s))
  BY <1>2, OutcomeFields, AnswersAre
<1> QED
  BY <1>1, <1>2 DEF LogsOn

(***************************************************************************)
(* Only the post of a change makes one, and it is answered by a verdict,   *)
(* or, to a stranger, by the login page.                                   *)
(***************************************************************************)
LEMMA ServedShape ==
  ASSUME NEW q, q.method \in {"GET", "POST"}, q.path \in Path \ {"none"}, fate # "made",
         NEW o \in ServedOutcomes(q)
  PROVE  /\ IsAnswer(o.answer)
         /\ o.fate = "made" => o.answer \in ChangeAnswers /\ q.path = "acl" /\ q.method = "POST"
         /\ q.path = "acl" /\ q.method = "POST" /\ o.fate = "none" => o.answer \in Expired
<1>1. CASE q.path = "/" /\ q.method = "POST"
  <2>1. ServedOutcomes(q) = LogsOn
    BY <1>1 DEF ServedOutcomes
  <2> QED
    BY <1>1, <2>1, LogsOnOutcomes
<1>2. CASE q.path = "/" /\ q.method = "GET"
  <2>1. ServedOutcomes(q) = {Only(Served(IF Known(q) THEN CutPage ELSE LoginPage))}
    BY <1>2 DEF ServedOutcomes
  <2> QED
    BY <1>2, <2>1, OutcomeFields, AnswersAre DEF Only
<1>3. CASE q.path = "logoff"
  <2>1. ServedOutcomes(q) = {[Only(r) EXCEPT !.live = live \ {SessionOf(q)}] : r \in Expired}
    BY <1>3 DEF ServedOutcomes
  <2>2. PICK r \in Expired : o = [Only(r) EXCEPT !.live = live \ {SessionOf(q)}]
    BY <2>1
  <2>3. o.fate = fate /\ o.answer = r
    BY <2>2, OutcomeFields DEF Only
  <2> QED
    BY <1>3, <2>2, <2>3, AnswersAre
<1>4. CASE q.path \in {"location", "info", "dhcp"} /\ Known(q)
  <2>1. ServedOutcomes(q) = {Only(Answer200)}
    BY <1>4 DEF ServedOutcomes
  <2> QED
    BY <1>4, <2>1, OutcomeFields, AnswersAre DEF Only
<1>5. CASE q.path = "acl" /\ q.method = "GET" /\ Known(q)
  <2>1. ServedOutcomes(q) = {[Only(Served(AclPage(t))) EXCEPT !.token = t] : t \in FreshTokens}
    BY <1>5 DEF ServedOutcomes
  <2>2. PICK t \in FreshTokens : o = [Only(Served(AclPage(t))) EXCEPT !.token = t]
    BY <2>1
  <2>3. o.fate = fate /\ o.answer = Served(AclPage(t))
    BY <2>2, OutcomeFields DEF Only
  <2> QED
    BY <1>5, <2>2, <2>3, AnswersAre
<1>6. CASE q.path = "acl" /\ q.method = "POST" /\ Known(q)
  <2>1. ServedOutcomes(q) = Change(q.form)
    BY <1>6 DEF ServedOutcomes
  <2> QED
    BY <1>6, <2>1, ChangeOutcomes
<1>7. CASE q.path \notin {"/", "logoff"} /\ ~Known(q)
  <2>1. ServedOutcomes(q) = {Only(r) : r \in Expired}
    BY <1>7 DEF ServedOutcomes
  <2> QED
    BY <1>7, <2>1, OutcomeFields, AnswersAre DEF Only
<1> QED
  BY <1>1, <1>2, <1>3, <1>4, <1>5, <1>6, <1>7 DEF Path

-----------------------------------------------------------------------------
(* What the router did and what the client reports *)

(***************************************************************************)
(* A change is made for a post only, and not before it is answered; what   *)
(* the wire carries then is the verdict, and after a post that the router  *)
(* took for a stranger's the login page.                                   *)
(***************************************************************************)
FateOfStep ==
  /\ flight \in {"none", "sent", "answered"}
  /\ flight # "none" => pc \in Waiting
  /\ flight = "sent" => fate # "made"
  /\ flight = "answered" =>
       /\ IsAnswer(answer)
       /\ fate = "made" => pc \in Posts /\ answer \in ChangeAnswers
       /\ pc \in Posts /\ fate = "none" => answer \in Expired

FateInv == SessionInv /\ Asked /\ FateOfStep /\ FailureChangedNothing /\ SuccessWasSeen

LEMMA FateInit == ManagedInit => FateInv
<1> SUFFICES ASSUME ManagedInit PROVE FateInv
  OBVIOUS
<1>1. SessionInv
  BY SessionInit DEF ManagedInit
<1>2. pc \notin Waiting /\ flight = "none" /\ result.op = "none"
  BY DEF ManagedInit, Init, Waiting, NoResult
<1> QED
  BY <1>1, <1>2 DEF FateInv, Asked, FateOfStep, FailureChangedNothing, SuccessWasSeen

\* While a request is under way there is no result.
LEMMA NoResultYet ==
  ASSUME SessionInv, pc \in Waiting
  PROVE  result.op = "none" /\ FailureChangedNothing /\ SuccessWasSeen
<1>1. result.op = "none"
  BY DEF SessionInv, SessionOfStep, Waiting, NoResult
<1> QED
  BY <1>1 DEF FailureChangedNothing, SuccessWasSeen

\* A call makes a new start, and no refusal of its own is a success.
LEMMA FateCall == ASSUME FateInv, UserCalls PROVE FateInv'
<1>1. UserCall /\ fate' = "none" /\ flight' = IF pc' \in Waiting THEN "sent" ELSE "none"
  BY DEF UserCalls
<1>2. SessionInv' /\ Asked'
  BY <1>1, SessionCall, CallAsks DEF FateInv
<1>3. FateOfStep'
  BY <1>1 DEF FateOfStep
<1>4. FailureChangedNothing'
  BY <1>1 DEF FailureChangedNothing
<1>5. result'.op \in {"block", "unblock"} => result'.outcome # "success"
  <2>1. CASE \E step \in Waiting, path \in Path : Call(step, path)
    BY <2>1 DEF Call, NoResult
  <2>2. CASE \E op \in Ops, outcome \in {"credentials", "noMac", "notLoggedIn", "none"} :
               Refuse(op, outcome)
    BY <2>2 DEF Refuse, Return
  <2>3. CASE Return("logout", "success", << >>)
    BY <2>3 DEF Return
  <2>4. \/ \E step \in Waiting, path \in Path : Call(step, path)
        \/ \E op \in Ops, outcome \in {"credentials", "noMac", "notLoggedIn", "none"} :
             Refuse(op, outcome)
        \/ Return("logout", "success", << >>)
    BY <1>1, UserCallShape
  <2> QED
    BY <2>1, <2>2, <2>3, <2>4
<1> QED
  BY <1>2, <1>3, <1>4, <1>5 DEF FateInv, SuccessWasSeen

LEMMA FateAnswers == ASSUME FateInv, RouterAnswers PROVE FateInv'
<1>1. PICK o \in ServedOutcomes(req) : answer' = o.answer /\ fate' = o.fate
  BY DEF RouterAnswers
<1>2. /\ flight = "sent" /\ flight' = "answered" /\ UNCHANGED vars
      /\ pc \in Waiting /\ fate # "made"
  BY DEF RouterAnswers, FateInv, FateOfStep
<1>3. /\ req.method \in {"GET", "POST"} /\ req.path \in Path \ {"none"}
      /\ (req.path = "acl" /\ req.method = "POST") <=> pc \in Posts
  BY <1>2 DEF FateInv, Asked
<1>4. /\ IsAnswer(o.answer)
      /\ o.fate = "made" => o.answer \in ChangeAnswers /\ req.path = "acl" /\ req.method = "POST"
      /\ req.path = "acl" /\ req.method = "POST" /\ o.fate = "none" => o.answer \in Expired
  BY <1>1, <1>2, <1>3, ServedShape
<1>5. IsAnswer(answer')
  BY <1>1, <1>4
<1>6. pc' = pc /\ pc' \in Waiting
  BY <1>2 DEF vars
<1>7. FateOfStep'
  <2>1. fate' = "made" => pc' \in Posts /\ answer' \in ChangeAnswers'
    BY <1>1, <1>3, <1>4, <1>6 DEF ChangeAnswers, Verdict, Served
  <2>2. pc' \in Posts /\ fate' = "none" => answer' \in Expired
    BY <1>1, <1>3, <1>4, <1>6
  <2> QED
    BY <1>2, <1>5, <1>6, <2>1, <2>2 DEF FateOfStep, IsAnswer
<1>8. SessionInv' /\ Asked'
  BY <1>2, SessionStays DEF FateInv, Asked, vars
<1>9. FailureChangedNothing' /\ SuccessWasSeen'
  <2>1. result'.op = "none"
    BY <1>2, NoResultYet DEF FateInv, vars
  <2> QED
    BY <2>1 DEF FailureChangedNothing, SuccessWasSeen
<1> QED
  BY <1>7, <1>8, <1>9 DEF FateInv

\* The results of a block or an unblock, and when one is a success.
LEMMA ChangeResults ==
  ASSUME SessionInv, NEW r, Reply(r), result'.op \in {"block", "unblock"}
  PROVE  /\ pc' = "idle" => pc \in {"blockPage", "unblockPage"} \cup Posts
         /\ pc \in Posts => result'.outcome = AclVerdict(r)
         /\ result'.outcome = "success" => pc \in Posts /\ resp' = r
<1>1. pc \in Waiting
  BY ReplyAsks
<1>2. result.op = "none"
  BY <1>1, NoResultYet
<1>3. CASE \/ LoginPageReply(r) \/ LoginPostReply(r) \/ LoginFollowReply(r)
           \/ LogoffReply(r) \/ InfoReply(r) \/ DhcpReply(r)
  BY <1>2, <1>3 DEF LoginPageReply, LoginPostReply, LoginFollowReply, LogoffReply, InfoReply,
                    DhcpReply, Return
<1>4. CASE BlockPageReply(r) \/ UnblockPageReply(r)
  <2>1. pc \in {"blockPage", "unblockPage"}
    BY <1>4 DEF BlockPageReply, UnblockPageReply, Absorb
  <2>2. result' # result
    BY <1>2
  <2>3. \/ Return("block", AclPageProblem(r), << >>) \/ Return("unblock", AclPageProblem(r), << >>)
        \/ Return("unblock", "notListed", << >>)
    BY <1>4, <2>2 DEF BlockPageReply, UnblockPageReply
  <2>4. AclPageProblem(r) # "success"
    BY DEF AclPageProblem
  <2> QED
    BY <2>1, <2>3, <2>4 DEF Return, Posts
<1>5. CASE BlockPostReply(r) \/ UnblockPostReply(r)
  BY <1>5 DEF BlockPostReply, UnblockPostReply, AclReply, Absorb, Return, Posts
<1> QED
  BY <1>3, <1>4, <1>5 DEF Reply

LEMMA FateReceives ==
  ASSUME FateInv, NEW r, Receives(r),
         \/ flight = "sent" /\ r = NoAnswer
         \/ flight = "answered" /\ r \in Delivered(answer) \cup Broken(answer)
  PROVE  FateInv'
<1>1. /\ Reply(r) /\ fate' = fate /\ flight' = IF pc' \in Waiting THEN "sent" ELSE "none"
      /\ SessionInv
  BY DEF Receives, routerVars, FateInv
<1>2. SessionInv' /\ Asked' /\ pc \in Waiting /\ (pc \in Posts => pc' \notin Waiting)
  BY <1>1, ReplyKeepsSession, ReplyAsks
<1>3. /\ flight = "sent" => fate # "made"
      /\ flight = "answered" /\ fate = "made" => pc \in Posts /\ answer \in ChangeAnswers
      /\ flight = "answered" /\ pc \in Posts /\ fate = "none" => answer \in Expired
      /\ flight = "answered" => IsAnswer(answer)
  BY DEF FateInv, FateOfStep
<1>4. flight' = "sent" => fate' # "made"
  BY <1>1, <1>2, <1>3
<1>5. FateOfStep'
  BY <1>1, <1>4 DEF FateOfStep
<1>6. ASSUME result'.op \in {"block", "unblock"}, fate' = "made"
      PROVE  result'.outcome \in {"success", "error", "mayHaveFailed"}
  <2>1. pc \in Posts /\ answer \in ChangeAnswers /\ r \in Delivered(answer) \cup Broken(answer)
    BY <1>1, <1>3, <1>6
  <2>2. ~ShowsLogin(r)
    BY <2>1, ChangeAnswerShown
  <2>3. loggedIn
    BY <1>1, <2>1 DEF SessionInv, SessionOfStep, Posts, Waiting
  <2>4. result'.outcome = AclVerdict(r)
    BY <1>1, <1>6, <2>1, ChangeResults
  <2> QED
    BY <2>2, <2>3, <2>4 DEF AclVerdict, InSession
<1>7. ASSUME result'.op \in {"block", "unblock"}, result'.outcome = "success", fate' = "none"
      PROVE  resp'.page \in {EmptyPage, CutPage}
  <2>1. pc \in Posts /\ resp' = r /\ AclVerdict(r) = "success"
    BY <1>1, <1>7, ChangeResults
  <2>2. ~ShowsLogin(r) /\ ~r.error
    BY <2>1 DEF AclVerdict, InSession
  <2>3. r # NoAnswer
    BY <2>2, AnswerShapes
  <2>4. r \notin Broken(answer)
    BY <2>2, BrokenShape
  <2>5. r \in Delivered(answer) /\ answer \in Expired
    BY <1>1, <1>3, <1>7, <2>1, <2>3, <2>4
  <2> QED
    BY <2>1, <2>2, <2>5, ExpiredShown
<1>8. SuccessWasSeen'
  <2>1. CutPage' = CutPage
    BY DEF CutPage, EmptyPage
  <2> QED
    BY <1>7, <2>1 DEF SuccessWasSeen
<1> QED
  BY <1>2, <1>5, <1>6, <1>8 DEF FateInv, FailureChangedNothing

LEMMA FateNext == FateInv /\ [ManagedNext]_allVars => FateInv'
<1> SUFFICES ASSUME FateInv, [ManagedNext]_allVars PROVE FateInv'
  OBVIOUS
<1>1. CASE Receive
  <2>1. PICK r \in Delivered(answer) : flight = "answered" /\ Receives(r)
    BY <1>1 DEF Receive
  <2> QED
    BY <2>1, FateReceives
<1>2. CASE GiveUp
  <2>1. CASE flight = "answered" /\ \E r \in Broken(answer) : Receives(r)
    BY <2>1, FateReceives
  <2>2. CASE flight = "sent" /\ Receives(NoAnswer)
    BY <2>2, FateReceives
  <2> QED
    BY <1>2, <2>1, <2>2 DEF GiveUp
<1>3. CASE UNCHANGED <<vars, flight, answer, fate>>
  <2>1. SessionInv'
    BY <1>3, SessionStays DEF FateInv
  <2> QED
    BY <1>3, <2>1 DEF vars, FateInv, Asked, FateOfStep, FailureChangedNothing, SuccessWasSeen, IsAnswer
<1>4. CASE LateArrives \/ SessionTimesOut \/ OtherAdmin \/ UNCHANGED allVars
  BY <1>3, <1>4 DEF LateArrives, SessionTimesOut, OtherAdmin, allVars, wireVars, routerVars
<1> QED
  BY <1>1, <1>2, <1>4, FateCall, FateAnswers DEF ManagedNext

LEMMA FateHolds == ManagedSpec => []FateInv
<1>1. ManagedInit => FateInv
  BY FateInit
<1>2. FateInv /\ [ManagedNext]_allVars => FateInv'
  BY FateNext
<1> QED
  BY <1>1, <1>2, PTL DEF ManagedSpec

(***************************************************************************)
(* A block or an unblock that fails otherwise than by a failed exchange or *)
(* an error status has changed nothing at the router.                      *)
(***************************************************************************)
THEOREM FailuresChangeNothing == ManagedSpec => []FailureChangedNothing
<1>1. FateInv => FailureChangedNothing
  BY DEF FateInv
<1> QED
  BY <1>1, FateHolds, PTL

(***************************************************************************)
(* A change reported as a success was dealt with in a session, made or     *)
(* refused, or the page that arrived had lost all there was on it.         *)
(***************************************************************************)
THEOREM SuccessesAreSeen == ManagedSpec => []SuccessWasSeen
<1>1. FateInv => SuccessWasSeen
  BY DEF FateInv
<1> QED
  BY <1>1, FateHolds, PTL

-----------------------------------------------------------------------------
(* The client on the wire *)

\* loggedIn_ is a truth value, whatever comes over the wire.
LoginState == loggedIn \in BOOLEAN

LEMMA LoginStateInit == ManagedInit => LoginState
  BY DEF ManagedInit, Init, LoginState

LEMMA ReplyLoginState == ASSUME NEW r, Reply(r) PROVE LoginState'
<1>1. InSession(r) \in BOOLEAN /\ LoggedInBy(r) \in BOOLEAN
  BY DEF InSession, LoggedInBy
<1>2. loggedIn' \in {FALSE, InSession(r), LoggedInBy(r)}
  BY DEF Reply, LoginPageReply, LoginPostReply, LoginFollowReply, LogoffReply, InfoReply, DhcpReply,
         BlockPageReply, BlockPostReply, UnblockPageReply, UnblockPostReply, AclReply
<1> QED
  BY <1>1, <1>2 DEF LoginState

LEMMA CallLoginState == ASSUME UserCall PROVE loggedIn' = loggedIn
  BY UserCallShape DEF Call, Refuse

\* Each step is a call, an answer, or none of the client's.
LEMMA ManagedStep ==
  ASSUME [ManagedNext]_allVars
  PROVE  UserCall \/ (\E r : Reply(r)) \/ UNCHANGED vars
  BY DEF ManagedNext, UserCalls, Receive, GiveUp, Receives, RouterAnswers, LateArrives,
         SessionTimesOut, OtherAdmin, allVars

LEMMA LoginStateNext == LoginState /\ [ManagedNext]_allVars => LoginState'
<1> SUFFICES ASSUME LoginState, [ManagedNext]_allVars PROVE LoginState'
  OBVIOUS
<1>1. CASE UserCall \/ UNCHANGED vars
  BY <1>1, CallLoginState DEF vars, LoginState
<1> QED
  BY <1>1, ManagedStep, ReplyLoginState

LEMMA ManagedRefines ==
  FateInv /\ LoginState /\ [ManagedNext]_allVars => [Abstract!AbstractNext]_(Abstract!abstractVars)
<1> SUFFICES ASSUME FateInv, LoginState, [ManagedNext]_allVars
             PROVE  [Abstract!AbstractNext]_(Abstract!abstractVars)
  OBVIOUS
<1>1. SessionInv /\ loggedIn \in BOOLEAN
  BY DEF FateInv, LoginState
<1>2. CASE UNCHANGED vars
  BY <1>2 DEF vars, Abstract!abstractVars
<1> QED
  BY <1>1, <1>2, ManagedStep, CallStep, ReplyRefines

(***************************************************************************)
(* Over both transports, with what they cut short and break off, the       *)
(* client implements RouterSession: its promises do not rest on answers    *)
(* that arrive whole.                                                      *)
(***************************************************************************)
THEOREM ManagedRefinesRouterSession == ManagedSpec => ImplementsRouterSession
<1>1. ManagedInit => Abstract!AbstractInit
  BY AbstractInitHolds DEF ManagedInit
<1>2. LoginState /\ [ManagedNext]_allVars => LoginState'
  BY LoginStateNext
<1>3. FateInv /\ LoginState /\ [ManagedNext]_allVars
        => [Abstract!AbstractNext]_(Abstract!abstractVars)
  BY ManagedRefines
<1> QED
  BY <1>1, <1>2, <1>3, LoginStateInit, FateHolds, PTL
     DEF ManagedSpec, ImplementsRouterSession, Abstract!AbstractSpec

-----------------------------------------------------------------------------
(* A session that has ended *)

\* No place the next request could take its session from holds the ended one.
EndedForgotten ==
  ended # NoCookie =>
    /\ cookies[SessionCookie] # ended
    /\ flight # "none" => SessionOf(req) # ended
    /\ flight = "answered" => answer.cookies[SessionCookie] # ended

\* The jar after an answer holds the session it held, the answer's, or none.
LEMMA JarSession ==
  ASSUME NEW r
  PROVE  /\ NoJar[SessionCookie] = NoCookie
         /\ JarAfter(r)[SessionCookie] \in {NoCookie, cookies[SessionCookie], r.cookies[SessionCookie]}
         /\ loggedIn /\ ShowsLogin(r) => JarAfter(r) = NoJar
  BY ManagedAssumption DEF NoJar, JarAfter, MergeCookies

\* A request goes out with the jar as it is then.
LEMMA CallJar ==
  ASSUME UserCall
  PROVE  /\ cookies' \in {cookies, NoJar}
         /\ pc' \in Waiting => req'.cookies = cookies'
<1>1. CASE \E step \in Waiting, path \in Path : Call(step, path)
  BY <1>1 DEF Call, HttpGet
<1>2. CASE \E op \in Ops, outcome \in {"credentials", "noMac", "notLoggedIn", "none"} :
             Refuse(op, outcome)
  BY <1>2 DEF Refuse, Return, Waiting
<1>3. CASE Return("logout", "success", << >>) /\ cookies' = NoJar
  BY <1>3 DEF Return, Waiting
<1>4. \/ \E step \in Waiting, path \in Path : Call(step, path)
      \/ \E op \in Ops, outcome \in {"credentials", "noMac", "notLoggedIn", "none"} :
           Refuse(op, outcome)
      \/ Return("logout", "success", << >>) /\ cookies' = NoJar
  BY UserCallShape
<1> QED
  BY <1>1, <1>2, <1>3, <1>4

LEMMA ReplyJar ==
  ASSUME NEW r, Reply(r)
  PROVE  /\ cookies' = IF pc = "logoff" THEN NoJar ELSE JarAfter(r)
         /\ pc' \in Waiting => req'.cookies = cookies'
<1>1. CASE LoginPageReply(r)
  BY <1>1 DEF LoginPageReply, Absorb, HttpPost, Return, Waiting
<1>2. CASE LoginPostReply(r)
  BY <1>2 DEF LoginPostReply, Absorb, HttpGet, Return, Waiting
<1>3. CASE LoginFollowReply(r) \/ InfoReply(r)
  BY <1>3 DEF LoginFollowReply, InfoReply, Absorb, Return, Waiting
<1>4. CASE LogoffReply(r)
  BY <1>4 DEF LogoffReply, Return, Waiting
<1>5. CASE DhcpReply(r)
  BY <1>5 DEF DhcpReply, Absorb, Return, Waiting
<1>6. CASE BlockPageReply(r)
  BY <1>6 DEF BlockPageReply, Absorb, HttpPost, Return, Waiting
<1>7. CASE UnblockPageReply(r)
  BY <1>7 DEF UnblockPageReply, Absorb, HttpPost, Return, Waiting
<1>8. CASE BlockPostReply(r) \/ UnblockPostReply(r)
  BY <1>8 DEF BlockPostReply, UnblockPostReply, AclReply, Absorb, Return, Waiting
<1> QED
  BY <1>1, <1>2, <1>3, <1>4, <1>5, <1>6, <1>7, <1>8 DEF Reply

LEMMA EndedReceives ==
  ASSUME EndedForgotten, NEW r, Receives(r),
         r.cookies = NoJar \/ (flight = "answered" /\ r.cookies = answer.cookies)
  PROVE  EndedForgotten'
<1>1. /\ Reply(r) /\ flight' \in {"none", "sent"}
      /\ flight' # "none" => pc' \in Waiting
      /\ ended' = IF (pc = "logoff" \/ ShowsLogin(r)) /\ loggedIn
                    THEN cookies[SessionCookie] ELSE ended
  BY DEF Receives
<1>2. cookies' = IF pc = "logoff" THEN NoJar ELSE JarAfter(r)
  BY <1>1, ReplyJar
<1>3. flight' # "none" => SessionOf(req') = cookies'[SessionCookie]
  BY <1>1, ReplyJar DEF SessionOf
<1>4. ended' # NoCookie => cookies'[SessionCookie] # ended'
  <2>1. CASE (pc = "logoff" \/ ShowsLogin(r)) /\ loggedIn
    BY <1>2, <2>1, JarSession
  <2>2. CASE ~((pc = "logoff" \/ ShowsLogin(r)) /\ loggedIn)
    <3>1. ended' = ended
      BY <1>1, <2>2
    <3>2. cookies'[SessionCookie] \in {NoCookie, cookies[SessionCookie], r.cookies[SessionCookie]}
      BY <1>2, JarSession
    <3>3. ended # NoCookie => cookies[SessionCookie] # ended /\ r.cookies[SessionCookie] # ended
      BY JarSession DEF EndedForgotten
    <3> QED
      BY <3>1, <3>2, <3>3
  <2> QED
    BY <2>1, <2>2
<1> QED
  BY <1>1, <1>3, <1>4 DEF EndedForgotten, SessionOf

LEMMA EndedNext == FateInv /\ EndedForgotten /\ [ManagedNext]_allVars => EndedForgotten'
<1> SUFFICES ASSUME FateInv, EndedForgotten, [ManagedNext]_allVars PROVE EndedForgotten'
  OBVIOUS
<1>1. CASE UserCalls
  <2>1. /\ UserCall /\ flight' \in {"none", "sent"} /\ ended' = ended
        /\ flight' # "none" => pc' \in Waiting
    BY <1>1 DEF UserCalls
  <2>2. cookies' \in {cookies, NoJar}
    BY <2>1, CallJar
  <2>3. flight' # "none" => SessionOf(req') = cookies'[SessionCookie]
    BY <2>1, CallJar DEF SessionOf
  <2>4. ended' # NoCookie => cookies'[SessionCookie] # ended'
    BY <2>1, <2>2, JarSession DEF EndedForgotten
  <2> QED
    BY <2>1, <2>3, <2>4 DEF EndedForgotten, SessionOf
<1>2. CASE Receive
  <2>1. PICK r \in Delivered(answer) : flight = "answered" /\ Receives(r)
    BY <1>2 DEF Receive
  <2>2. r.cookies \in {answer.cookies, NoJar}
    BY <2>1, DeliveredShape DEF FateInv, FateOfStep, IsAnswer
  <2> QED
    BY <2>1, <2>2, EndedReceives
<1>3. CASE GiveUp
  <2>1. CASE \E r \in Broken(answer) : Receives(r)
    <3>1. PICK r \in Broken(answer) : Receives(r)
      BY <2>1
    <3>2. r.cookies = NoJar
      BY BrokenShape
    <3> QED
      BY <3>1, <3>2, EndedReceives
  <2>2. CASE Receives(NoAnswer)
    <3>1. NoAnswer.cookies = NoJar
      BY AnswerShapes
    <3> QED
      BY <2>2, <3>1, EndedReceives
  <2> QED
    BY <1>3, <2>1, <2>2 DEF GiveUp
<1>4. CASE RouterAnswers
  <2>1. PICK o \in ServedOutcomes(req) : Handles(req, o) /\ answer' = o.answer
    BY <1>4 DEF RouterAnswers
  <2>2. /\ flight = "sent" /\ UNCHANGED <<cookies, req>>
        /\ ended' \in {NoCookie, ended}
        /\ ended' # NoCookie => answer'.cookies[SessionCookie] # ended'
    BY <1>4, <2>1 DEF RouterAnswers, Handles, vars
  <2> QED
    BY <2>2 DEF EndedForgotten, SessionOf
<1>5. CASE LateArrives
  <2>1. PICK q \in late : \E o \in ServedOutcomes(q) : Handles(q, o)
    BY <1>5 DEF LateArrives
  <2>2. UNCHANGED <<cookies, req, flight, answer>> /\ ended' \in {NoCookie, ended}
    BY <1>5, <2>1 DEF LateArrives, Handles, vars
  <2> QED
    BY <2>2 DEF EndedForgotten, SessionOf
<1>6. CASE SessionTimesOut \/ OtherAdmin \/ UNCHANGED allVars
  <2>1. UNCHANGED <<cookies, req, flight, answer, ended>>
    BY <1>6 DEF SessionTimesOut, OtherAdmin, allVars, vars, wireVars
  <2> QED
    BY <2>1 DEF EndedForgotten, SessionOf
<1> QED
  BY <1>1, <1>2, <1>3, <1>4, <1>5, <1>6 DEF ManagedNext

(***************************************************************************)
(* A session that ended is handed to send() no more, neither from the jar  *)
(* nor from an answer that was on its way when it ended.                   *)
(***************************************************************************)
THEOREM EndedSessionsStayUnused == ManagedSpec => []EndedSessionUnused
<1>1. ManagedInit => EndedForgotten
  BY DEF ManagedInit, EndedForgotten
<1>2. FateInv /\ EndedForgotten /\ [ManagedNext]_allVars => EndedForgotten'
  BY EndedNext
<1>3. EndedForgotten => EndedSessionUnused
  BY DEF EndedForgotten, EndedSessionUnused
<1> QED
  BY <1>1, <1>2, <1>3, FateHolds, PTL DEF ManagedSpec

-----------------------------------------------------------------------------
(* The access control list *)

\* A field that is read in the first fields of a list is the one the list has.
LEMMA GetFieldOfPart ==
  ASSUME NEW fields \in Seq(Field), NEW n \in 0..Len(fields), NEW name,
         NEW part, part = SubSeq(fields, 1, n), GetField(part, name) # NoText
  PROVE  part \in Seq(Field) /\ GetField(part, name) = GetField(fields, name)
<1>1. /\ part \in Seq(Field) /\ Len(part) = n /\ n \in Nat /\ Len(fields) \in Nat
      /\ \A i \in 1..n : part[i] = fields[i]
  BY SubSeqProperties, LenProperties
<1>2. PICK k \in 1..Len(part) : IsFirst(part, name, k)
  BY <1>1, GetFieldAbsent, FirstExists
<1>3. k \in 1..Len(fields) /\ fields[k] = part[k]
  BY <1>1, <1>2
<1>4. IsFirst(fields, name, k)
  <2> SUFFICES ASSUME NEW i \in 1..Len(fields), fields[i].name = name PROVE k <= i
    BY <1>2, <1>3 DEF IsFirst
  <2>1. CASE i <= n
    <3>1. i \in 1..Len(part) /\ part[i].name = name
      BY <1>1, <2>1
    <3> QED
      BY <1>2, <3>1 DEF IsFirst
  <2>2. CASE i > n
    BY <1>1, <1>2, <2>2
  <2> QED
    BY <1>1, <2>1, <2>2
<1>5. GetField(part, name) = part[k].value /\ GetField(fields, name) = fields[k].value
  BY <1>1, <1>2, <1>3, <1>4, GetFieldFirst
<1> QED
  BY <1>1, <1>3, <1>5

\* A page of inputs alone has the inputs for fields.
LEMMA InputsOnly ==
  ASSUME NEW page, page.inputs \in Seq(Field), page.hidden = << >>, page.scripts = << >>
  PROVE  /\ ScrapedPage(page)
         /\ ExtractFormFields(page) = page.inputs
         /\ PageToken(page) = TokenOf(page.inputs)
<1>1. ScrapedPage(page)
  BY EmptySeq DEF ScrapedPage
<1>2. SelectInSeq(page.scripts, MakesTokenField) = 0
  <2>1. {i \in 1..Len(page.scripts) : MakesTokenField(page.scripts[i])} = {}
    BY EmptySeq
  <2> QED
    BY <2>1 DEF SelectInSeq
<1>3. ExtractFormFields(page) = page.inputs \o << >> \o << >>
  BY <1>2 DEF ExtractFormFields
<1>4. ExtractFormFields(page) = page.inputs
  BY <1>3, ConcatEmptySeq
<1> QED
  BY <1>1, <1>4 DEF PageToken, TokenOf

\* A field for a row has the number and the address of a row of the list.
NamesARow(f) ==
  f.name.suffix # NoText =>
    \E k \in 1..Len(acl) : f.name.suffix = RowNames[k] /\ f.value = acl[k]

\* The pages of the router have inputs alone, and their token comes first.
TypedPage(page) == page.inputs \in Seq(Field) /\ page.hidden = << >> /\ page.scripts = << >>

LEMMA PageWithInputs ==
  ASSUME NEW inputs \in Seq(Field)
  PROVE  /\ TypedPage([CutPage EXCEPT !.inputs = inputs])
         /\ [CutPage EXCEPT !.inputs = inputs].inputs = inputs
<1>1. /\ CutPage.hidden = << >> /\ CutPage.scripts = << >>
      /\ DOMAIN CutPage = {"form", "user", "blank", "loginToken", "checkToken", "inputs",
                           "hidden", "scripts", "leases"}
  BY DEF CutPage, EmptyPage
<1> QED
  BY <1>1 DEF TypedPage

LEMMA BarePages == \A p \in {EmptyPage, CutPage, LoginPage} : TypedPage(p) /\ p.inputs = << >>
<1>1. << >> \in Seq(Field)
  BY EmptySeq
<1>2. EmptyPage.inputs = << >> /\ EmptyPage.hidden = << >> /\ EmptyPage.scripts = << >>
  BY DEF EmptyPage
<1>3. CutPage.inputs = << >> /\ CutPage.hidden = << >> /\ CutPage.scripts = << >>
  BY <1>2 DEF CutPage
<1>4. LoginPage.inputs = << >> /\ LoginPage.hidden = << >> /\ LoginPage.scripts = << >>
  BY <1>3 DEF LoginPage
<1> QED
  BY <1>1, <1>2, <1>3, <1>4 DEF TypedPage

LEMMA AclPageFields ==
  ASSUME acl \in Seq(Text), Len(acl) <= Len(RowNames), NEW t \in Token,
         NEW page, page = AclPage(t)
  PROVE  /\ TypedPage(page)
         /\ TokenOf(page.inputs) = t
         /\ \A i \in 1..Len(page.inputs) : NamesARow(page.inputs[i])
<1> DEFINE head == << Pair(Plain("_SESSION_TOKEN"), t), Pair(Plain("MACAddress"), NoText) >>
           rows == [i \in 1..Len(acl) |-> Pair(Indexed("MACAddress", RowNames[i]), acl[i])]
           all  == head \o rows
<1>1. /\ Len(acl) \in Nat /\ Len(RowNames) \in Nat
      /\ \A i \in 1..Len(acl) : RowNames[i] \in Digits /\ acl[i] \in Text
  BY ManagedAssumption, LenProperties, ElementOfSeq
<1>2. head \in Seq(Field) /\ Len(head) = 2 /\ head[1] = Pair(Plain("_SESSION_TOKEN"), t)
        /\ head[2] = Pair(Plain("MACAddress"), NoText)
  <2>1. t \in Text /\ NoText \in Text
    BY ManagedAssumption, LiteralsInText
  <2>2. /\ Pair(Plain("_SESSION_TOKEN"), t) \in Field
        /\ Pair(Plain("MACAddress"), NoText) \in Field
    BY <2>1, NamesInBase, PlainIsName, PairIsField
  <2> QED
    BY <2>2
<1>3. rows \in Seq(Field) /\ Len(rows) = Len(acl)
  <2>1. \A i \in 1..Len(acl) : Indexed("MACAddress", RowNames[i]) \in Name
    BY <1>1, NamesInBase DEF Indexed, Name
  <2>2. \A i \in 1..Len(acl) : Pair(Indexed("MACAddress", RowNames[i]), acl[i]) \in Field
    BY <1>1, <2>1, PairIsField
  <2>3. rows \in [1..Len(acl) -> Field]
    BY <2>2
  <2> QED
    BY <1>1, <2>3
<1>4. \A i \in 1..Len(acl) : rows[i].name.suffix = RowNames[i] /\ rows[i].value = acl[i]
  BY DEF Pair, Indexed
<1> HIDE DEF head, rows
<1>5. /\ all \in Seq(Field) /\ Len(all) = 2 + Len(acl) /\ all[1] = head[1] /\ all[2] = head[2]
      /\ \A i \in 3..Len(all) : i - 2 \in 1..Len(acl) /\ all[i] = rows[i - 2]
  <2>1. head \in Seq(Field) /\ rows \in Seq(Field)
    BY <1>2, <1>3
  <2>2. /\ all \in Seq(Field) /\ Len(all) = Len(head) + Len(rows)
        /\ \A i \in 1..Len(head) + Len(rows) :
             all[i] = IF i <= Len(head) THEN head[i] ELSE rows[i - Len(head)]
    BY ONLY <2>1, ConcatProperties
  <2> HIDE DEF all
  <2>3. Len(all) = 2 + Len(acl)
    BY <1>1, <1>2, <1>3, <2>2
  <2>4. ASSUME NEW i \in 1..Len(all) PROVE all[i] = IF i <= 2 THEN head[i] ELSE rows[i - 2]
    <3>1. i \in 1..Len(head) + Len(rows)
      BY <2>2, <2>4
    <3>2. all[i] = IF i <= Len(head) THEN head[i] ELSE rows[i - Len(head)]
      BY <2>2, <3>1
    <3> QED
      BY <1>2, <3>2
  <2>5. all[1] = head[1] /\ all[2] = head[2]
    BY <1>1, <2>3, <2>4
  <2>6. ASSUME NEW i \in 3..Len(all) PROVE i - 2 \in 1..Len(acl) /\ all[i] = rows[i - 2]
    BY <1>1, <2>3, <2>4
  <2> QED
    BY <2>2, <2>3, <2>5, <2>6
<1>6. page = [CutPage EXCEPT !.inputs = all]
  BY DEF AclPage, head, rows
<1> HIDE DEF all
<1>7. TypedPage(page) /\ page.inputs = all
  BY <1>5, <1>6, PageWithInputs
<1>8. TokenOf(all) = t
  <2>1. all[1].name = Plain("_SESSION_TOKEN") /\ all[1].value = t
    BY <1>2, <1>5 DEF Pair
  <2>2. IsFirst(all, Plain("_SESSION_TOKEN"), 1) /\ 1 \in 1..Len(all)
    BY <1>1, <1>5, <2>1 DEF IsFirst
  <2>3. GetField(all, Plain("_SESSION_TOKEN")) = all[1].value
    BY <1>5, <2>2, GetFieldFirst
  <2> QED
    BY <2>1, <2>3 DEF TokenOf
<1>9. ASSUME NEW i \in 1..Len(all) PROVE NamesARow(all[i])
  <2>1. CASE i \in {1, 2}
    BY <1>2, <1>5, <2>1 DEF NamesARow, Pair, Plain
  <2>2. CASE i \notin {1, 2}
    <3>1. i \in 3..Len(all)
      BY <1>1, <1>5, <2>2
    <3> QED
      BY <1>4, <1>5, <3>1 DEF NamesARow
  <2> QED
    BY <2>1, <2>2
<1> QED
  BY <1>7, <1>8, <1>9

-----------------------------------------------------------------------------
(* What is under way *)

IsChange(q) == q.path = "acl" /\ q.method = "POST"

\* The row a form deletes holds the address it shows.
NamesItsRow(form) ==
  LET row == GetField(form, Plain("IF_INDEX"))
  IN  \E k \in 1..Len(acl) :
        /\ row = RowNames[k]
        /\ Lower[acl[k]] = Lower[GetField(form, Indexed("MACAddress", row))]

\* The form of a change: it is good with its own token only, and as long as
\* that is accepted a delete names its row, unless someone else changed the list.
ChangeForm(form) ==
  /\ TokenOf(form) # NoText
  /\ \/ /\ GetField(form, Plain("IF_ACTION")) = "new"
        /\ GetField(form, Plain("MACAddress")) \in Mac \ {NoText}
     \/ /\ GetField(form, Plain("IF_ACTION")) = "delete"
        /\ TokenOf(form) = token /\ ~touched => NamesItsRow(form)

\* A change made for the address m.
MadeFor(form, m) ==
  \/ /\ GetField(form, Plain("IF_ACTION")) = "new"
     /\ GetField(form, Plain("MACAddress")) = m
  \/ /\ GetField(form, Plain("IF_ACTION")) = "delete"
     /\ GetField(form, Indexed("MACAddress", GetField(form, Plain("IF_INDEX")))) = m

GoodRequest(q) ==
  /\ q.method \in {"GET", "POST"} /\ q.path \in Path \ {"none"}
  /\ IsChange(q) => ChangeForm(q.form)

\* The same of a page: its rows are the list's while its token is accepted.
TruePage(page) ==
  /\ TypedPage(page)
  /\ TokenOf(page.inputs) = token /\ token # NoText /\ ~touched =>
       \A i \in 1..Len(page.inputs) : NamesARow(page.inputs[i])

ListFits == acl \in Seq(Text) /\ Len(acl) <= Len(RowNames)

(***************************************************************************)
(* The list fits its row numbers, and everything under way that the router *)
(* may still deal with was true of the list when it was made.              *)
(***************************************************************************)
ListInv ==
  /\ ListFits
  /\ pc \in Changing => mac \in Mac \ {NoText}
  /\ pc \in Waiting => GoodRequest(req)
  /\ \A q \in late : GoodRequest(q)
  /\ flight = "answered" => TruePage(answer.page)

\* How a step may change what those are about.
ListMoves ==
  \/ UNCHANGED <<acl, token>> /\ (touched => touched')
  \/ token' = NoText
  \/ token' \in FreshTokens
  \/ token' = token /\ touched' = (token # NoText)

LEMMA FormStays ==
  ASSUME ListMoves, NEW form, ChangeForm(form), token' \in FreshTokens => TokenOf(form) # token'
  PROVE  ChangeForm(form)'
<1>1. CASE UNCHANGED <<acl, token>> /\ (touched => touched')
  BY <1>1 DEF ChangeForm, NamesItsRow
<1>2. CASE token' = NoText \/ token' \in FreshTokens
  BY <1>2 DEF ChangeForm
<1>3. CASE token' = token /\ touched' = (token # NoText)
  BY <1>3 DEF ChangeForm
<1> QED
  BY <1>1, <1>2, <1>3 DEF ListMoves

LEMMA RequestStays ==
  ASSUME ListMoves, NEW q \in late \cup {req}, GoodRequest(q)
  PROVE  GoodRequest(q)'
<1>1. token' \in FreshTokens => TokenOf(q.form) # token'
  BY DEF FreshTokens
<1>2. IsChange(q) => ChangeForm(q.form)'
  BY <1>1, FormStays DEF GoodRequest
<1> QED
  BY <1>2 DEF GoodRequest, IsChange

LEMMA PageStays ==
  ASSUME ListMoves, TruePage(answer.page), UNCHANGED answer
  PROVE  TruePage(answer.page)'
<1> DEFINE page == answer.page
<1>1. token' \in FreshTokens => TokenOf(page.inputs) # token'
  BY DEF FreshTokens
<1>2. page' = page /\ TypedPage(page)' /\ TokenOf(page.inputs)' = TokenOf(page.inputs)
  BY DEF TruePage
<1> HIDE DEF page
<1>3. CASE UNCHANGED <<acl, token>> /\ (touched => touched')
  BY <1>2, <1>3 DEF TruePage, NamesARow, page
<1>4. CASE token' = NoText \/ token' \in FreshTokens
  BY <1>1, <1>2, <1>4 DEF TruePage, page
<1>5. CASE token' = token /\ touched' = (token # NoText)
  BY <1>1, <1>2, <1>5 DEF TruePage, page
<1> QED
  BY <1>3, <1>4, <1>5 DEF ListMoves

-----------------------------------------------------------------------------
(* What the router does to the list *)

LEMMA RemoveAtType ==
  ASSUME NEW S, NEW seq \in Seq(S), NEW i \in 1..Len(seq)
  PROVE  RemoveAt(seq, i) \in Seq(S) /\ Len(RemoveAt(seq, i)) = Len(seq) - 1
<1> DEFINE before == SubSeq(seq, 1, i - 1)
           after  == SubSeq(seq, i + 1, Len(seq))
<1>1. Len(seq) \in Nat /\ \A k \in 1..Len(seq) : seq[k] \in S
  BY LenProperties, ElementOfSeq
<1>2. before \in Seq(S) /\ Len(before) = i - 1
  BY <1>1, SubSeqProperties
<1>3. after \in Seq(S) /\ Len(after) = Len(seq) - i
  BY <1>1, SubSeqProperties
<1>4. RemoveAt(seq, i) = before \o after
  BY DEF RemoveAt
<1> HIDE DEF before, after
<1>5. before \o after \in Seq(S) /\ Len(before \o after) = Len(before) + Len(after)
  BY ONLY <1>2, <1>3, ConcatProperties
<1> QED
  BY <1>1, <1>2, <1>3, <1>4, <1>5

\* A row number is found at the row it is the number of.
LEMMA RowIsFound ==
  ASSUME NEW index, NEW k \in 1..Len(RowNames), index = RowNames[k],
         NEW S, S = {i \in 1..Len(RowNames) : RowNames[i] = index}
  PROVE  S # {} /\ Min(S) = k
<1>1. /\ Len(RowNames) \in Nat /\ DOMAIN RowNames = 1..Len(RowNames)
      /\ \A i, j \in DOMAIN RowNames : RowNames[i] = RowNames[j] => i = j
  BY ManagedAssumption, LenProperties
<1>2. S = {k}
  BY <1>1
<1>3. S \in SUBSET Nat
  BY <1>1
<1> QED
  BY <1>2, <1>3, MinIsLeast

\* The list after a change that is made.
ChangedList(form, list) ==
  \/ list = acl
  \/ /\ GetField(form, Plain("IF_ACTION")) = "new"
     /\ GetField(form, Plain("MACAddress")) \in Mac \ {NoText}
     /\ list = Append(acl, GetField(form, Plain("MACAddress")))
  \/ \E i \in 1..Len(acl) :
       /\ GetField(form, Plain("IF_ACTION")) = "delete"
       /\ list = RemoveAt(acl, i)
       /\ ~touched => Lower[acl[i]] = Lower[GetField(form, Indexed("MACAddress",
                                             GetField(form, Plain("IF_INDEX"))))]

LEMMA ChangedOutcome ==
  ASSUME ListFits, NEW form, ChangeForm(form), TokenOf(form) = token
  PROVE  ChangedList(form, Changed(form))
<1> DEFINE index == GetField(form, Plain("IF_INDEX"))
           row   == SelectInSeq(RowNames, LAMBDA n : n = index)
<1>1. CASE GetField(form, Plain("IF_ACTION")) = "new"
  <2>1. GetField(form, Plain("MACAddress")) \in Mac \ {NoText}
    BY <1>1 DEF ChangeForm
  <2> QED
    BY <1>1, <2>1 DEF Changed, ChangedList
<1>2. CASE GetField(form, Plain("IF_ACTION")) = "delete"
  <2>1. Changed(form) = IF row \in 1..Len(acl) THEN RemoveAt(acl, row) ELSE acl
    BY <1>2 DEF Changed
  <2>2. ASSUME ~touched
        PROVE  /\ row \in 1..Len(acl)
               /\ Lower[acl[row]] = Lower[GetField(form, Indexed("MACAddress", index))]
    <3>1. NamesItsRow(form)
      BY <1>2, <2>2 DEF ChangeForm
    <3>2. PICK k \in 1..Len(acl) :
            /\ index = RowNames[k]
            /\ Lower[acl[k]] = Lower[GetField(form, Indexed("MACAddress", index))]
      BY <3>1 DEF NamesItsRow
    <3>3. k \in 1..Len(RowNames)
      BY ManagedAssumption, LenProperties DEF ListFits
    <3>4. row = k
      <4> DEFINE S == {i \in 1..Len(RowNames) : RowNames[i] = index}
      <4>1. S # {} /\ Min(S) = k
        BY <3>2, <3>3, RowIsFound
      <4> QED
        BY <4>1 DEF SelectInSeq
    <3> QED
      BY <3>2, <3>4
  <2> HIDE DEF index, row
  <2>3. CASE row \in 1..Len(acl)
    BY <1>2, <2>1, <2>2, <2>3 DEF ChangedList, index
  <2>4. CASE row \notin 1..Len(acl)
    BY <2>1, <2>4 DEF ChangedList
  <2> QED
    BY <2>3, <2>4
<1> QED
  BY <1>1, <1>2 DEF ChangeForm

\* A change makes the token worthless, and its answer is no page to change from.
LEMMA ChangeMoves ==
  ASSUME ListFits, NEW form, ChangeForm(form), NEW o \in Change(form)
  PROVE  /\ o.token = NoText
         /\ ChangedList(form, o.acl) /\ Len(o.acl) <= Len(RowNames)
         /\ TypedPage(o.answer.page)
<1> DEFINE good == TokenOf(form) = token /\ Len(Changed(form)) <= Len(RowNames)
           list == IF good THEN Changed(form) ELSE acl
           made == IF good THEN "made" ELSE "refused"
           text == IF good THEN "SUCC" ELSE "NULL"
<1>1. PICK r \in {Verdict(text), [Answer200 EXCEPT !.status = 500]} :
        o = Outcome(live, list, NoText, made, r)
  BY DEF Change
<1>2. o.token = NoText /\ o.acl = list /\ o.answer = r
  BY <1>1 DEF Outcome
<1>3. ChangedList(form, list) /\ Len(list) <= Len(RowNames)
  <2>1. CASE good
    BY <2>1, ChangedOutcome
  <2>2. CASE ~good
    BY <2>2 DEF ChangedList, ListFits
  <2> QED
    BY <2>1, <2>2
<1>4. text \in {"SUCC", "NULL"}
  OBVIOUS
<1> HIDE DEF good, list, made, text
<1>5. TypedPage(r.page)
  <2>1. CASE r = Verdict(text)
    <3> DEFINE inputs == << Pair(Plain("IF_ERRORSTR"), text) >>
               page   == [CutPage EXCEPT !.inputs = inputs]
    <3>1. Pair(Plain("IF_ERRORSTR"), text) \in Field
      BY <1>4, LiteralsInText, NamesInBase, PlainIsName, PairIsField
    <3>2. inputs \in Seq(Field)
      BY <3>1
    <3> HIDE DEF inputs
    <3>3. TypedPage(page)
      BY <3>2, PageWithInputs
    <3>4. r = [Answer200 EXCEPT !.page = page]
      BY <2>1 DEF Verdict, Served, inputs
    <3> HIDE DEF page
    <3>5. r.page = page
      BY <3>4, AnswerShapes
    <3> QED
      BY <3>3, <3>5
  <2>2. CASE r = [Answer200 EXCEPT !.status = 500]
    BY <2>2, AnswerShapes, BarePages
  <2> QED
    BY <1>1, <2>1, <2>2
<1> QED
  BY <1>2, <1>3, <1>5

\* What the other requests do: they leave the list alone, and one gives a token.
LEMMA ServedList ==
  ASSUME NEW q, q.method \in {"GET", "POST"}, q.path \in Path \ {"none"},
         NEW o \in ServedOutcomes(q)
  PROVE  \/ /\ o.acl = acl /\ o.token = token
            /\ o.answer.page \in {EmptyPage, CutPage, LoginPage}
         \/ \E t \in FreshTokens : o.acl = acl /\ o.token = t /\ o.answer.page = AclPage(t)
         \/ IsChange(q) /\ o \in Change(q.form)
<1> DEFINE Quiet == /\ o.acl = acl /\ o.token = token
                    /\ o.answer.page \in {EmptyPage, CutPage, LoginPage}
<1>1. \A page : Served(page).page = page
  BY AnswerShapes DEF Served
<1>2. \A r \in Expired \cup LoggedOn \cup {Answer200} : r.page \in {EmptyPage, CutPage, LoginPage}
  <2>1. /\ [Answer200 EXCEPT !.status = 302, !.location = "login", !.page = EmptyPage].page = EmptyPage
        /\ [Answer200 EXCEPT !.status = 302, !.location = "other", !.page = EmptyPage].page = EmptyPage
        /\ Answer200.page = CutPage /\ Served(LoginPage).page = LoginPage
    BY <1>1, AnswerShapes
  <2> QED
    BY <2>1 DEF Expired, LoggedOn
<1>3. \A r : Only(r).acl = acl /\ Only(r).token = token /\ Only(r).answer = r
  BY DEF Only, Outcome
<1> HIDE DEF Quiet
<1>4. ASSUME q.path = "/" /\ q.method = "POST" PROVE Quiet
  <2>1. o \in LogsOn
    BY <1>4 DEF ServedOutcomes
  <2>2. CASE o = Only(Served(LoginPage))
    BY <1>1, <1>3, <2>2 DEF Quiet
  <2>3. CASE \E s \in FreshSessions, r \in LoggedOn :
               o = Outcome(live \cup {s}, acl, token, "granted", Setting(r, s))
    <3>1. PICK s \in FreshSessions, r \in LoggedOn :
            o = Outcome(live \cup {s}, acl, token, "granted", Setting(r, s))
      BY <2>3
    <3>2. o.acl = acl /\ o.token = token /\ o.answer = Setting(r, s)
      BY <3>1 DEF Outcome
    <3>3. Setting(r, s).page = r.page
      BY DEF Setting
    <3> QED
      BY <1>2, <3>2, <3>3 DEF Quiet
  <2> QED
    <3>1. CASE Cardinality(live) >= MaxLive
      BY <2>1, <2>2, <3>1 DEF LogsOn
    <3>2. CASE ~(Cardinality(live) >= MaxLive)
      BY <2>1, <2>2, <2>3, <3>2 DEF LogsOn
    <3> QED
      BY <3>1, <3>2
<1>5. ASSUME q.path = "/" /\ q.method = "GET" PROVE Quiet
  <2>1. o \in {Only(Served(CutPage)), Only(Served(LoginPage))}
    BY <1>5 DEF ServedOutcomes
  <2> QED
    BY <1>1, <1>3, <2>1 DEF Quiet
<1>6. ASSUME q.path = "logoff" PROVE Quiet
  <2>1. PICK r \in Expired : o = [Only(r) EXCEPT !.live = live \ {SessionOf(q)}]
    BY <1>6 DEF ServedOutcomes
  <2>2. o.acl = acl /\ o.token = token /\ o.answer = r
    BY <2>1 DEF Only, Outcome
  <2> QED
    BY <1>2, <2>2 DEF Quiet
<1>7. ASSUME q.path \in {"location", "info", "dhcp"} /\ Known(q) PROVE Quiet
  <2>1. o = Only(Answer200)
    BY <1>7 DEF ServedOutcomes
  <2> QED
    BY <1>2, <1>3, <2>1 DEF Quiet
<1>8. CASE q.path = "acl" /\ q.method = "GET" /\ Known(q)
  <2>1. PICK t \in FreshTokens : o = [Only(Served(AclPage(t))) EXCEPT !.token = t]
    BY <1>8 DEF ServedOutcomes
  <2>2. o.acl = acl /\ o.token = t /\ o.answer = Served(AclPage(t))
    BY <2>1 DEF Only, Outcome
  <2> QED
    BY <1>1, <2>2
<1>9. CASE q.path = "acl" /\ q.method = "POST" /\ Known(q)
  BY <1>9 DEF ServedOutcomes, IsChange
<1>10. ASSUME q.path \notin {"/", "logoff"} /\ ~Known(q) PROVE Quiet
  <2>1. PICK r \in Expired : o = Only(r)
    BY <1>10 DEF ServedOutcomes
  <2> QED
    BY <1>2, <1>3, <2>1 DEF Quiet
<1> QED
  BY <1>4, <1>5, <1>6, <1>7, <1>8, <1>9, <1>10 DEF Path, Quiet

-----------------------------------------------------------------------------
(* The list and what is under way, step by step *)

\* The list after a change still fits.
LEMMA ChangedFits ==
  ASSUME ListFits, NEW form, NEW list, ChangedList(form, list), Len(list) <= Len(RowNames)
  PROVE  list \in Seq(Text)
<1>1. CASE /\ GetField(form, Plain("MACAddress")) \in Mac \ {NoText}
           /\ list = Append(acl, GetField(form, Plain("MACAddress")))
  BY <1>1, ClientAssumption, AppendProperties DEF ListFits
<1>2. CASE \E i \in 1..Len(acl) : list = RemoveAt(acl, i)
  BY <1>2, RemoveAtType DEF ListFits
<1> QED
  BY <1>1, <1>2 DEF ChangedList, ListFits

\* The router deals with a request.
LEMMA HandlesList ==
  ASSUME ListFits, NEW q, GoodRequest(q), NEW o \in ServedOutcomes(q), Handles(q, o)
  PROVE  /\ ListFits' /\ ListMoves
         /\ ~IsChange(q) => acl' = acl
         /\ ChangedList(q.form, acl')
         /\ answer' = o.answer => TruePage(answer.page)'
<1>1. acl' = o.acl /\ token' = o.token /\ touched' = (touched /\ o.token = token)
  BY DEF Handles
<1>2. CASE o.acl = acl /\ o.token = token /\ o.answer.page \in {EmptyPage, CutPage, LoginPage}
  <2>1. acl' = acl /\ token' = token /\ (touched => touched')
    BY <1>1, <1>2
  <2>2. ListMoves
    BY <2>1 DEF ListMoves
  <2>3. ASSUME answer' = o.answer PROVE TruePage(answer.page)'
    <3>1. TypedPage(o.answer.page) /\ o.answer.page.inputs = << >> /\ Len(<< >>) = 0
      BY <1>2, BarePages, EmptySeq
    <3>2. TypedPage(answer'.page) /\ answer'.page.inputs = << >> /\ Len(answer'.page.inputs) = 0
      BY <2>3, <3>1
    <3> QED
      BY <3>2 DEF TruePage, TypedPage
  <2> QED
    BY <2>1, <2>2, <2>3 DEF ListFits, ChangedList
<1>3. CASE \E t \in FreshTokens : o.acl = acl /\ o.token = t /\ o.answer.page = AclPage(t)
  <2>1. PICK t \in FreshTokens : o.acl = acl /\ o.token = t /\ o.answer.page = AclPage(t)
    BY <1>3
  <2>2. acl' = acl /\ token' = t
    BY <1>1, <2>1
  <2>3. ListMoves
    BY <2>2 DEF ListMoves
  <2>4. ASSUME answer' = o.answer PROVE TruePage(answer.page)'
    <3> DEFINE page == AclPage(t)
    <3>1. /\ TypedPage(page)
          /\ \A i \in 1..Len(page.inputs) : NamesARow(page.inputs[i])
      BY AclPageFields DEF ListFits, FreshTokens
    <3> HIDE DEF page
    <3>2. answer'.page = page
      BY <2>1, <2>4 DEF page
    <3>3. TypedPage(answer'.page)
         /\ \A i \in 1..Len(answer'.page.inputs) : NamesARow(answer'.page.inputs[i])
      BY <3>1, <3>2
    <3>4. TypedPage(answer.page)'
         /\ \A i \in 1..Len(answer'.page.inputs) : NamesARow(answer.page.inputs[i])'
      BY <2>2, <3>3 DEF TypedPage, NamesARow
    <3> QED
      BY <3>4 DEF TruePage
  <2> QED
    BY <2>2, <2>3, <2>4 DEF ListFits, ChangedList
<1>4. CASE IsChange(q) /\ o \in Change(q.form)
  <2>1. /\ o.token = NoText /\ TypedPage(o.answer.page)
        /\ ChangedList(q.form, o.acl) /\ Len(o.acl) <= Len(RowNames)
    BY <1>4, ChangeMoves DEF GoodRequest
  <2>2. ListMoves /\ ListFits'
    BY <1>1, <2>1, ChangedFits DEF ListMoves, ListFits
  <2>3. ASSUME answer' = o.answer PROVE TruePage(answer.page)'
    BY <1>1, <2>1, <2>3 DEF TruePage, TypedPage
  <2> QED
    BY <1>1, <1>4, <2>1, <2>2, <2>3
<1> QED
  BY <1>2, <1>3, <1>4, ServedList DEF GoodRequest

\* What is under way stays good when only the router moves.
LEMMA UnderWayStays ==
  ASSUME ListInv, ListMoves, ListFits', UNCHANGED vars, late' \subseteq late,
         flight' = "answered" => TruePage(answer.page)'
  PROVE  ListInv'
<1>1. pc' \in Changing => mac' \in Mac \ {NoText}
  BY DEF ListInv, vars
<1>2. ASSUME pc' \in Waiting PROVE GoodRequest(req)'
  <2>1. GoodRequest(req)
    BY <1>2 DEF ListInv, vars
  <2>2. \A q \in {req} : GoodRequest(q)'
    BY <2>1, RequestStays
  <2>3. req' = req
    BY DEF vars
  <2> QED
    BY <2>2, <2>3 DEF GoodRequest, IsChange, ChangeForm, NamesItsRow, TokenOf
<1>3. \A q \in late' : GoodRequest(q)'
  BY RequestStays DEF ListInv
<1> QED
  BY <1>1, <1>2, <1>3 DEF ListInv

LEMMA ListAnswers == ASSUME ListInv, FateInv, RouterAnswers PROVE ListInv'
<1>1. PICK o \in ServedOutcomes(req) : Handles(req, o) /\ answer' = o.answer
  BY DEF RouterAnswers
<1>2. UNCHANGED vars /\ late' = late /\ ListFits /\ GoodRequest(req)
  BY DEF RouterAnswers, FateInv, FateOfStep, ListInv
<1>3. ListFits' /\ ListMoves /\ TruePage(answer.page)'
  BY <1>1, <1>2, HandlesList
<1> QED
  BY <1>2, <1>3, UnderWayStays

LEMMA ListLate == ASSUME ListInv, LateArrives PROVE ListInv'
<1>1. PICK q \in late : (\E o \in ServedOutcomes(q) : Handles(q, o)) /\ late' = late \ {q}
  BY DEF LateArrives
<1>2. UNCHANGED <<vars, flight, answer>> /\ ListFits /\ GoodRequest(q)
  BY DEF LateArrives, ListInv
<1>3. ListFits' /\ ListMoves
  BY <1>1, <1>2, HandlesList
<1>4. flight' = "answered" => TruePage(answer.page)'
  BY <1>2, <1>3, PageStays DEF ListInv
<1> QED
  BY <1>1, <1>2, <1>3, <1>4, UnderWayStays

LEMMA ListOthers == ASSUME ListInv, SessionTimesOut \/ OtherAdmin PROVE ListInv'
<1>1. UNCHANGED <<vars, wireVars>>
  BY DEF SessionTimesOut, OtherAdmin
<1>2. ListMoves
  BY DEF SessionTimesOut, OtherAdmin, ListMoves
<1>3. ListFits'
  <2>1. CASE SessionTimesOut
    BY <2>1 DEF SessionTimesOut, ListInv, ListFits
  <2>2. CASE \E m \in OtherMac : Len(acl) < Len(RowNames) /\ acl' = Append(acl, m)
    <3>1. PICK m \in OtherMac : Len(acl) < Len(RowNames) /\ acl' = Append(acl, m)
      BY <2>2
    <3>2. acl \in Seq(Text) /\ m \in Text /\ Len(acl) \in Nat /\ Len(RowNames) \in Nat
      BY ManagedAssumption, LenProperties DEF ListInv, ListFits
    <3> QED
      BY <3>1, <3>2, AppendProperties DEF ListFits
  <2>3. CASE \E i \in 1..Len(acl) : acl' = RemoveAt(acl, i)
    <3>1. PICK i \in 1..Len(acl) : acl' = RemoveAt(acl, i)
      BY <2>3
    <3>2. /\ acl \in Seq(Text) /\ Len(acl) \in Nat /\ Len(RowNames) \in Nat
          /\ Len(acl) <= Len(RowNames)
      BY ManagedAssumption, LenProperties DEF ListInv, ListFits
    <3>3. acl' \in Seq(Text) /\ Len(acl') = Len(acl) - 1
      BY <3>1, <3>2, RemoveAtType
    <3> QED
      BY <3>2, <3>3 DEF ListFits
  <2> QED
    BY <2>1, <2>2, <2>3 DEF OtherAdmin
<1>4. flight' = "answered" => TruePage(answer.page)'
  BY <1>1, <1>2, PageStays DEF ListInv, wireVars
<1> QED
  BY <1>1, <1>2, <1>3, <1>4, UnderWayStays DEF wireVars

-----------------------------------------------------------------------------
(* The client makes its forms from true pages *)

\* What arrives without an error of a true page is a part of it whose fields
\* are fields of the page, and whose token is the page's, if it has one.
LEMMA PartIsTrue ==
  ASSUME NEW page, TypedPage(page), NEW p \in PartsOf(page)
  PROVE  /\ TypedPage(p)
         /\ TokenOf(p.inputs) \in {NoText, TokenOf(page.inputs)}
         /\ \A i \in 1..Len(p.inputs) : i \in 1..Len(page.inputs) /\ p.inputs[i] = page.inputs[i]
<1>1. CASE p = page
  BY <1>1
<1>2. CASE p = EmptyPage
  <2>1. TypedPage(p) /\ p.inputs = << >> /\ Len(p.inputs) = 0 /\ << >> \in Seq(Field)
    BY <1>2, BarePages, EmptySeq
  <2>2. Absent(p.inputs, Plain("_SESSION_TOKEN"))
    BY <2>1 DEF Absent
  <2>3. TokenOf(p.inputs) = NoText
    BY <2>1, <2>2, GetFieldAbsent DEF TokenOf
  <2>4. \A i \in 1..Len(p.inputs) : FALSE
    BY <2>1
  <2> QED
    BY <2>1, <2>3, <2>4
<1>3. CASE \E n \in 0..Len(page.inputs) :
             p = [CutPage EXCEPT !.inputs = SubSeq(page.inputs, 1, n)]
  <2>1. PICK n \in 0..Len(page.inputs) :
          p = [CutPage EXCEPT !.inputs = SubSeq(page.inputs, 1, n)]
    BY <1>3
  <2> DEFINE part == SubSeq(page.inputs, 1, n)
  <2>2. /\ page.inputs \in Seq(Field) /\ Len(page.inputs) \in Nat /\ n \in Nat
        /\ \A i \in 1..n : page.inputs[i] \in Field
    BY LenProperties, ElementOfSeq DEF TypedPage
  <2>3. part \in Seq(Field) /\ Len(part) = n /\ \A i \in 1..n : part[i] = page.inputs[i]
    BY <2>2, SubSeqProperties
  <2>4. GetField(part, Plain("_SESSION_TOKEN")) \in
          {NoText, GetField(page.inputs, Plain("_SESSION_TOKEN"))}
    BY <2>2, GetFieldOfPart
  <2> HIDE DEF part
  <2>5. TypedPage(p) /\ p.inputs = part
    BY <2>1, <2>3, PageWithInputs DEF part
  <2> QED
    BY <2>2, <2>3, <2>4, <2>5 DEF TokenOf
<1> QED
  BY <1>1, <1>2, <1>3 DEF PartsOf

\* A change is posted in answer to a page that gives its token.
LEMMA PostsFromPage ==
  ASSUME NEW r, Reply(r), pc' \in Posts
  PROVE  /\ pc \in {"blockPage", "unblockPage"} /\ UNCHANGED mac
         /\ ~r.error /\ PageToken(r.page) # NoText
         /\ req'.method = "POST" /\ req'.path = "acl"
         /\ \/ req'.form = BlockForm(r.page, mac)
            \/ /\ RowOf(r.page, mac) # NoText
               /\ req'.form = UnblockForm(r.page, mac, RowOf(r.page, mac))
<1>1. ~(LoginPageReply(r) \/ LoginPostReply(r) \/ LoginFollowReply(r))
  BY LoginReplyAsks
<1>2. ~(LogoffReply(r) \/ InfoReply(r) \/ DhcpReply(r) \/ BlockPostReply(r) \/ UnblockPostReply(r))
  BY LastReplyAsks DEF Posts, Waiting
<1>3. CASE BlockPageReply(r)
  <2>1. AclPageProblem(r) = "none"
    BY <1>3 DEF BlockPageReply, Return, Posts
  <2>2. ~r.error /\ PageToken(r.page) # NoText
    BY <2>1 DEF AclPageProblem
  <2> QED
    BY <1>3, <2>1, <2>2 DEF BlockPageReply, Absorb, HttpPost
<1>4. CASE UnblockPageReply(r)
  <2>1. AclPageProblem(r) = "none" /\ RowOf(r.page, mac) # NoText
    BY <1>4 DEF UnblockPageReply, Return, Posts
  <2>2. ~r.error /\ PageToken(r.page) # NoText
    BY <2>1 DEF AclPageProblem
  <2> QED
    BY <1>4, <2>1, <2>2 DEF UnblockPageReply, Absorb, HttpPost
<1> QED
  BY <1>1, <1>2, <1>3, <1>4 DEF Reply

\* The form of a block or an unblock from what arrived of a true page.
LEMMA FormIsGood ==
  ASSUME TruePage(answer.page), NEW page \in PartsOf(answer.page), PageToken(page) # NoText,
         mac \in Mac \ {NoText}, NEW form,
         \/ form = BlockForm(page, mac)
         \/ /\ RowOf(page, mac) # NoText
            /\ form = UnblockForm(page, mac, RowOf(page, mac))
  PROVE  ChangeForm(form) /\ MadeFor(form, mac)
<1>1. /\ TypedPage(answer.page) /\ TypedPage(page)
      /\ TokenOf(page.inputs) \in {NoText, TokenOf(answer.page.inputs)}
      /\ \A i \in 1..Len(page.inputs) :
           i \in 1..Len(answer.page.inputs) /\ page.inputs[i] = answer.page.inputs[i]
  BY PartIsTrue DEF TruePage
<1>2. /\ ScrapedPage(page) /\ ExtractFormFields(page) = page.inputs
      /\ PageToken(page) = TokenOf(page.inputs)
  BY <1>1, InputsOnly DEF TypedPage
<1>3. TokenOf(page.inputs) = TokenOf(answer.page.inputs) /\ mac \in Text
  BY <1>1, <1>2, ClientAssumption
<1>4. CASE form = BlockForm(page, mac)
  <2>1. /\ GetField(form, Plain("IF_ACTION")) = "new"
        /\ GetField(form, Plain("MACAddress")) = mac
        /\ \A n : n \notin CommandNames \cup RuleNames =>
             GetField(form, n) = GetField(ExtractFormFields(page), n)
    BY <1>2, <1>3, <1>4, BlockFormEffect
  <2>2. Plain("_SESSION_TOKEN") \notin CommandNames \cup RuleNames
    BY PlainInjective DEF CommandNames, RuleNames
  <2>3. TokenOf(form) = PageToken(page)
    BY <2>1, <2>2 DEF TokenOf, PageToken
  <2> QED
    BY <2>1, <2>3 DEF ChangeForm, MadeFor
<1>5. CASE RowOf(page, mac) # NoText /\ form = UnblockForm(page, mac, RowOf(page, mac))
  <2> DEFINE row == RowOf(page, mac)
  <2>1. row = FindAclIndexByMac(page.inputs, mac) /\ row # NoText
    BY <1>2, <1>5 DEF RowOf
  <2>2. row \in Digits
    BY <1>1, <2>1, AclIndexType DEF TypedPage
  <2>3. PICK i \in 1..Len(page.inputs) :
          /\ page.inputs[i].name = Indexed("MACAddress", row)
          /\ Lower[page.inputs[i].value] = Lower[mac]
    BY <1>1, <2>1, AclIndexIsARow DEF TypedPage
  <2> HIDE DEF row
  <2>4. /\ GetField(form, Plain("IF_ACTION")) = "delete"
        /\ GetField(form, Plain("_SESSION_TOKEN")) =
             GetField(ExtractFormFields(page), Plain("_SESSION_TOKEN"))
        /\ GetField(form, Plain("IF_INDEX")) = row
        /\ GetField(form, Indexed("MACAddress", row)) = mac
    BY <1>2, <1>3, <1>5, <2>2, UnblockFormEffect DEF row
  <2>5. TokenOf(form) = PageToken(page)
    BY <2>4 DEF TokenOf, PageToken
  <2>6. ASSUME TokenOf(form) = token, ~touched PROVE NamesItsRow(form)
    <3>1. NamesARow(page.inputs[i])
      BY <1>1, <1>2, <1>3, <2>5, <2>6 DEF TruePage
    <3>2. page.inputs[i].name.suffix = row /\ row # NoText
      BY <2>1, <2>3 DEF Indexed
    <3>3. PICK k \in 1..Len(acl) : row = RowNames[k] /\ page.inputs[i].value = acl[k]
      BY <3>1, <3>2 DEF NamesARow
    <3> QED
      BY <2>3, <2>4, <3>3 DEF NamesItsRow
  <2> QED
    BY <2>4, <2>5, <2>6 DEF ChangeForm, MadeFor
<1> QED
  BY <1>4, <1>5

\* What is not about the client stays when only the client moves.
LEMMA RouterRests ==
  ASSUME UNCHANGED <<acl, token, touched>>
  PROVE  /\ ListFits => ListFits'
         /\ \A q : GoodRequest(q) => GoodRequest(q)'
  BY DEF ListFits, GoodRequest, IsChange, ChangeForm, NamesItsRow, TokenOf

LEMMA ListCalls == ASSUME ListInv, UserCalls PROVE ListInv'
<1>1. UserCall /\ UNCHANGED <<acl, token, touched, late>> /\ flight' # "answered"
  BY DEF UserCalls
<1>2. ASSUME pc' \in Changing PROVE mac' \in Mac \ {NoText}
  <2>1. CASE \E m \in Mac : BlockDevice(m) \/ UnblockDevice(m)
    <3>1. PICK op \in Ops, step \in Waiting, m \in Mac : CallAcl(op, step, m)
      BY <2>1 DEF BlockDevice, UnblockDevice, Ops, Waiting
    <3> QED
      BY <1>2, <3>1 DEF CallAcl, Refuse, Return, Changing, Posts
  <2>2. CASE ~(\E m \in Mac : BlockDevice(m) \/ UnblockDevice(m))
    <3>1. (\E given \in BOOLEAN : Login(given)) \/ Logout \/ RouterInfo \/ ConnectedDevices
      BY <1>1, <2>2 DEF UserCall
    <3> QED
      BY <1>2, <3>1 DEF Login, Logout, RouterInfo, ConnectedDevices, Call, HttpGet, Refuse, Return,
                        Changing, Posts
  <2> QED
    BY <2>1, <2>2
<1>3. ASSUME pc' \in Waiting PROVE GoodRequest(req)'
  <2>1. \E step \in Waiting \ Posts, path \in Path : Call(step, path)
    BY <1>1, <1>3, UserCallShape DEF Refuse, Return, Waiting, Posts
  <2>2. Asked' /\ req'.method = "GET"
    BY <1>1, <2>1, CallAsks DEF Call, HttpGet
  <2>3. req'.path \in Path \ {"none"}
    BY <1>3, <2>2 DEF Asked, Waiting
  <2> QED
    BY <2>2, <2>3 DEF GoodRequest, IsChange
<1> QED
  BY <1>1, <1>2, <1>3, RouterRests DEF ListInv

LEMMA ReplyKeepsMac ==
  ASSUME NEW r, Reply(r), pc' \in Changing
  PROVE  pc \in Changing /\ UNCHANGED mac
<1>1. CASE pc' \in Posts
  BY <1>1, PostsFromPage DEF Changing
<1>2. CASE pc' \in {"blockPage", "unblockPage"}
  BY <1>2 DEF Reply, LoginPageReply, LoginPostReply, LoginFollowReply, LogoffReply, InfoReply,
     DhcpReply, BlockPageReply, UnblockPageReply, BlockPostReply, UnblockPostReply, AclReply,
     Return, HttpGet, HttpPost, Absorb
<1> QED
  BY <1>1, <1>2 DEF Changing, Posts

\* A change that is posted is made for the address of the call, from a page
\* that was true of the list.
LEMMA PostedForm ==
  ASSUME ListInv, FateInv, NEW r, Receives(r), pc' \in Posts,
         \/ flight = "sent" /\ r = NoAnswer
         \/ flight = "answered" /\ r \in Delivered(answer) \cup Broken(answer)
  PROVE  ChangeForm(req'.form) /\ MadeFor(req'.form, mac')
<1>1. /\ pc \in {"blockPage", "unblockPage"} /\ mac' = mac
      /\ ~r.error /\ PageToken(r.page) # NoText
      /\ \/ req'.form = BlockForm(r.page, mac)
         \/ /\ RowOf(r.page, mac) # NoText
            /\ req'.form = UnblockForm(r.page, mac, RowOf(r.page, mac))
  BY PostsFromPage DEF Receives
<1>2. r # NoAnswer /\ r \notin Broken(answer)
  BY <1>1, AnswerShapes, BrokenShape
<1>3. flight = "answered" /\ r \in Delivered(answer)
  BY <1>2
<1>4. r.page \in PartsOf(answer.page)
  BY <1>3, DeliveredShape DEF FateInv, FateOfStep, IsAnswer, PartsOf
<1>5. TruePage(answer.page) /\ mac \in Mac \ {NoText}
  BY <1>1, <1>3 DEF ListInv, Changing
<1> QED
  BY <1>1, <1>4, <1>5, FormIsGood

LEMMA ListReceives ==
  ASSUME ListInv, FateInv, NEW r, Receives(r),
         \/ flight = "sent" /\ r = NoAnswer
         \/ flight = "answered" /\ r \in Delivered(answer) \cup Broken(answer),
         \A q \in late' : q \in late \/ (q = req /\ pc \in Waiting)
  PROVE  ListInv'
<1>1. /\ Reply(r) /\ UNCHANGED <<acl, token, touched>> /\ flight' # "answered"
  BY DEF Receives, routerVars
<1>2. ASSUME pc' \in Changing PROVE mac' \in Mac \ {NoText}
  BY <1>1, <1>2, ReplyKeepsMac DEF ListInv
<1>3. ASSUME pc' \in Waiting PROVE GoodRequest(req)'
  <2>1. /\ Asked' /\ req'.method \in {"GET", "POST"} /\ req'.path \in Path \ {"none"}
        /\ IsChange(req') => pc' \in Posts
    BY <1>1, <1>3, ReplyAsks DEF Asked, IsChange
  <2>2. GoodRequest(req')
    BY <2>1, PostedForm DEF GoodRequest, IsChange
  <2> QED
    BY <1>1, <2>2 DEF GoodRequest, IsChange, ChangeForm, NamesItsRow, TokenOf
<1>4. \A q \in late' : GoodRequest(q)'
  BY <1>1, RouterRests DEF ListInv
<1> QED
  BY <1>1, <1>2, <1>3, <1>4, RouterRests DEF ListInv

LEMMA ListNext == FateInv /\ ListInv /\ [ManagedNext]_allVars => ListInv'
<1> SUFFICES ASSUME FateInv, ListInv, [ManagedNext]_allVars PROVE ListInv'
  OBVIOUS
<1>1. CASE Receive
  <2>1. PICK r \in Delivered(answer) : flight = "answered" /\ Receives(r) /\ late' = late
    BY <1>1 DEF Receive
  <2> QED
    BY <2>1, ListReceives
<1>2. CASE GiveUp
  <2>1. CASE flight = "answered" /\ (\E r \in Broken(answer) : Receives(r)) /\ late' = late
    BY <2>1, ListReceives
  <2>2. CASE flight = "sent" /\ Receives(NoAnswer) /\ late' \in {late, late \cup {req}}
    <3>1. pc \in Waiting
      BY <2>2 DEF FateInv, FateOfStep
    <3> QED
      BY <2>2, <3>1, ListReceives
  <2> QED
    BY <1>2, <2>1, <2>2 DEF GiveUp
<1>3. CASE UNCHANGED allVars
  <2>1. ListMoves /\ ListFits' /\ UNCHANGED <<vars, late, flight, answer>>
    BY <1>3 DEF allVars, routerVars, wireVars, ListMoves, ListInv, ListFits
  <2>2. flight' = "answered" => TruePage(answer.page)'
    BY <2>1, PageStays DEF ListInv
  <2> QED
    BY <2>1, <2>2, UnderWayStays
<1> QED
  BY <1>1, <1>2, <1>3, ListCalls, ListAnswers, ListLate, ListOthers DEF ManagedNext

LEMMA ListInit == ManagedInit => ListInv
<1> SUFFICES ASSUME ManagedInit PROVE ListInv
  OBVIOUS
<1>1. acl \in Seq(Text) /\ Len(acl) = 0 /\ Len(RowNames) \in Nat
  BY ManagedAssumption, LenProperties, EmptySeq DEF ManagedInit
<1>2. pc = "idle" /\ flight = "none" /\ late = {}
  BY DEF ManagedInit, Init
<1> QED
  BY <1>1, <1>2 DEF ListInv, ListFits, Changing, Posts, Waiting

LEMMA ListHolds == ManagedSpec => []ListInv
<1>1. ManagedInit => ListInv
  BY ListInit
<1>2. FateInv /\ ListInv /\ [ManagedNext]_allVars => ListInv'
  BY ListNext
<1> QED
  BY <1>1, <1>2, FateHolds, PTL DEF ManagedSpec

-----------------------------------------------------------------------------
(* Whom a change is made for *)

(***************************************************************************)
(* The change that waits for its answer was made for the address of the    *)
(* running call, and one that was given up for the address of its own.     *)
(***************************************************************************)
AskInv ==
  /\ pc \in Posts => MadeFor(req.form, mac)
  /\ DOMAIN asked = late
  /\ \A q \in late : IsChange(q) => MadeFor(q.form, asked[q])

\* The client's moves: late has the same requests, or one more.
LEMMA AskedStays ==
  ASSUME AskInv, UNCHANGED <<late, asked>>, pc' \in Posts => MadeFor(req'.form, mac')
  PROVE  AskInv'
  BY DEF AskInv, MadeFor

LEMMA AskedGiveUp ==
  ASSUME AskInv, FateInv, flight = "sent", late' \in {late, late \cup {req}},
         asked' = [q \in late' |-> IF q \in late THEN asked[q] ELSE MacOfPost],
         pc' \in Posts => MadeFor(req'.form, mac')
  PROVE  AskInv'
<1>1. DOMAIN asked' = late'
  OBVIOUS
<1>2. ASSUME NEW q \in late', IsChange(q) PROVE MadeFor(q.form, asked'[q])
  <2>1. CASE q \in late
    BY <1>2, <2>1 DEF AskInv
  <2>2. CASE q \notin late
    <3>1. q = req /\ asked'[q] = MacOfPost
      BY <2>2
    <3>2. pc \in Posts
      BY <1>2, <3>1 DEF FateInv, FateOfStep, Asked, IsChange
    <3> QED
      BY <3>1, <3>2 DEF AskInv, MacOfPost, Posts
  <2> QED
    BY <2>1, <2>2
<1> QED
  BY <1>1, <1>2 DEF AskInv, MadeFor, IsChange

LEMMA AskNext == FateInv /\ ListInv /\ AskInv /\ [ManagedNext]_allVars => AskInv'
<1> SUFFICES ASSUME FateInv, ListInv, AskInv, [ManagedNext]_allVars PROVE AskInv'
  OBVIOUS
<1>1. CASE UserCalls
  <2>1. pc' \notin Posts
    <3>1. CASE \E step \in Waiting \ Posts, path \in Path : Call(step, path)
      BY <3>1 DEF Call, HttpGet
    <3>2. CASE ~(\E step \in Waiting \ Posts, path \in Path : Call(step, path))
      BY <1>1, <3>2, UserCallShape DEF UserCalls, Refuse, Return, Posts
    <3> QED
      BY <3>1, <3>2
  <2> QED
    BY <1>1, <2>1, AskedStays DEF UserCalls
<1>2. CASE Receive
  BY <1>2, PostedForm, AskedStays DEF Receive
<1>3. CASE GiveUp
  <2>1. CASE flight = "answered" /\ (\E r \in Broken(answer) : Receives(r)) /\ UNCHANGED <<late, asked>>
    BY <2>1, PostedForm, AskedStays
  <2>2. CASE /\ flight = "sent" /\ Receives(NoAnswer) /\ late' \in {late, late \cup {req}}
             /\ asked' = [q \in late' |-> IF q \in late THEN asked[q] ELSE MacOfPost]
    BY <2>2, PostedForm, AskedGiveUp
  <2> QED
    BY <1>3, <2>1, <2>2 DEF GiveUp
<1>4. CASE RouterAnswers \/ SessionTimesOut \/ OtherAdmin \/ UNCHANGED allVars
  <2>1. UNCHANGED <<vars, late, asked>>
    BY <1>4 DEF RouterAnswers, SessionTimesOut, OtherAdmin, allVars, wireVars
  <2> QED
    BY <2>1, AskedStays DEF AskInv, vars
<1>5. CASE LateArrives
  <2>1. /\ UNCHANGED vars /\ late' \subseteq late /\ asked' = [q \in late' |-> asked[q]]
    BY <1>5 DEF LateArrives
  <2> QED
    BY <2>1 DEF AskInv, vars, MadeFor, IsChange
<1> QED
  BY <1>1, <1>2, <1>3, <1>4, <1>5 DEF ManagedNext

LEMMA AskHolds == ManagedSpec => []AskInv
<1>1. ManagedInit => AskInv
  BY DEF ManagedInit, Init, AskInv, Posts
<1>2. FateInv /\ ListInv /\ AskInv /\ [ManagedNext]_allVars => AskInv'
  BY AskNext
<1> QED
  BY <1>1, <1>2, FateHolds, ListHolds, PTL DEF ManagedSpec

-----------------------------------------------------------------------------
(* What the router deletes and adds for the client *)

\* The router deals with a request in two of the steps.
LEMMA DealtIsHandled ==
  ASSUME FateInv, ListInv, AskInv, [ManagedNext]_allVars, Dealt
  PROVE  /\ GoodRequest(Request)
         /\ \E o \in ServedOutcomes(Request) : Handles(Request, o)
         /\ IsChange(Request) => MadeFor(Request.form, AskedFor)
<1>1. CASE RouterAnswers
  <2>1. flight = "sent" /\ flight' = "answered" /\ Request = req /\ pc \in Waiting
    BY <1>1 DEF RouterAnswers, Request, FateInv, FateOfStep
  <2>2. IsChange(req) => pc \in Posts
    BY <2>1 DEF FateInv, Asked, IsChange
  <2>3. AskedFor = MacOfPost
    BY <2>1 DEF AskedFor
  <2> QED
    BY <1>1, <2>1, <2>2, <2>3 DEF RouterAnswers, ListInv, AskInv, MacOfPost, Posts
<1>2. CASE LateArrives
  <2>1. PICK q \in late : (\E o \in ServedOutcomes(q) : Handles(q, o)) /\ late' = late \ {q}
    BY <1>2 DEF LateArrives
  <2>2. flight' = flight
    BY <1>2 DEF LateArrives
  <2>3. Request = q /\ AskedFor = asked[q]
    BY <2>1, <2>2 DEF Request, AskedFor
  <2> QED
    BY <2>1, <2>3 DEF ListInv, AskInv
<1>3. CASE UserCalls \/ Receive \/ GiveUp
  <2>1. flight' # "answered" /\ (flight' = flight => flight = "none" \/ late \subseteq late')
    BY <1>3 DEF UserCalls, Receive, GiveUp, Receives
  <2> QED
    BY <1>3, <2>1 DEF Dealt, UserCalls, Receive, GiveUp, Receives
<1>4. CASE SessionTimesOut \/ OtherAdmin \/ UNCHANGED allVars
  <2>1. UNCHANGED wireVars
    BY <1>4 DEF SessionTimesOut, OtherAdmin, allVars
  <2> QED
    BY <2>1 DEF Dealt, wireVars
<1> QED
  BY <1>1, <1>2, <1>3, <1>4 DEF ManagedNext

\* How long the three lists are that a change can leave.
LEMMA ChangedLength ==
  ASSUME ListInv, NEW form, NEW m, MadeFor(form, m), NEW list, ChangedList(form, list)
  PROVE  /\ Len(list) < Len(acl) =>
              \E i \in 1..Len(acl) :
                list = RemoveAt(acl, i) /\ (~touched => Lower[acl[i]] = Lower[m])
         /\ Len(list) > Len(acl) => list[Len(list)] = m /\ m # NoText
<1>1. acl \in Seq(Text) /\ Len(acl) \in Nat
  BY LenProperties DEF ListInv, ListFits
<1>2. ASSUME GetField(form, Plain("IF_ACTION")) = "new",
             GetField(form, Plain("MACAddress")) \in Mac \ {NoText},
             list = Append(acl, GetField(form, Plain("MACAddress")))
      PROVE  Len(list) = Len(acl) + 1 /\ list[Len(list)] = m /\ m # NoText
  <2>1. m \in Text /\ m # NoText /\ list = Append(acl, m)
    BY <1>2, ClientAssumption DEF MadeFor
  <2> QED
    BY <1>1, <2>1, AppendProperties
<1>3. ASSUME NEW i \in 1..Len(acl), list = RemoveAt(acl, i) PROVE Len(list) = Len(acl) - 1
  BY <1>1, <1>3, RemoveAtType
<1>4. GetField(form, Plain("IF_ACTION")) = "delete" =>
        GetField(form, Indexed("MACAddress", GetField(form, Plain("IF_INDEX")))) = m
  BY DEF MadeFor
<1> QED
  BY <1>1, <1>2, <1>3, <1>4 DEF ChangedList

\* The list the router leaves, where it is another.
LEMMA DealtList ==
  ASSUME FateInv, ListInv, AskInv, [ManagedNext]_allVars, Dealt, acl' # acl
  PROVE  ChangedList(Request.form, acl') /\ MadeFor(Request.form, AskedFor)
  BY DealtIsHandled, HandlesList DEF ListInv

(***************************************************************************)
(* A delete takes a row that holds the address of the call that asked for  *)
(* it, in time or late, as long as nobody else changed the list after the  *)
(* page it was made from was served.                                       *)
(***************************************************************************)
THEOREM DeletesAreAsked == ManagedSpec => DeletesWhatWasAsked
<1> DEFINE Deletes ==
      Dealt /\ Len(acl') < Len(acl) /\ ~touched =>
        \E i \in 1..Len(acl) : acl' = RemoveAt(acl, i) /\ Lower[acl[i]] = Lower[AskedFor]
<1>1. FateInv /\ ListInv /\ AskInv /\ [ManagedNext]_allVars => Deletes
  <2> SUFFICES ASSUME FateInv, ListInv, AskInv, [ManagedNext]_allVars, Dealt,
                      Len(acl') < Len(acl), ~touched
               PROVE  \E i \in 1..Len(acl) : acl' = RemoveAt(acl, i) /\ Lower[acl[i]] = Lower[AskedFor]
    OBVIOUS
  <2>1. Len(acl) \in Nat
    BY LenProperties DEF ListInv, ListFits
  <2>2. acl' # acl
    BY <2>1
  <2> QED
    BY <2>2, DealtList, ChangedLength
<1>2. FateInv /\ ListInv /\ AskInv /\ [ManagedNext]_allVars => [Deletes]_allVars
  BY <1>1
<1>3. ManagedSpec => [][Deletes]_allVars
  BY <1>2, FateHolds, ListHolds, AskHolds, PTL DEF ManagedSpec
<1> QED
  BY <1>3 DEF DeletesWhatWasAsked

(***************************************************************************)
(* A row the router adds for the client holds the address of the very call *)
(* the request was made for, whatever the page had in the field, and also  *)
(* where the request arrives after later calls.                            *)
(***************************************************************************)
THEOREM AddsAreAsked == ManagedSpec => AddsWhatWasAsked
<1> DEFINE Adds == Dealt /\ Len(acl') > Len(acl) => acl'[Len(acl')] = AskedFor /\ AskedFor # NoText
<1>1. FateInv /\ ListInv /\ AskInv /\ [ManagedNext]_allVars => Adds
  <2> SUFFICES ASSUME FateInv, ListInv, AskInv, [ManagedNext]_allVars, Dealt, Len(acl') > Len(acl)
               PROVE  acl'[Len(acl')] = AskedFor /\ AskedFor # NoText
    OBVIOUS
  <2>1. Len(acl) \in Nat
    BY LenProperties DEF ListInv, ListFits
  <2>2. acl' # acl
    BY <2>1
  <2> QED
    BY <2>2, DealtList, ChangedLength
<1>2. FateInv /\ ListInv /\ AskInv /\ [ManagedNext]_allVars => [Adds]_allVars
  BY <1>1
<1>3. ManagedSpec => [][Adds]_allVars
  BY <1>2, FateHolds, ListHolds, AskHolds, PTL DEF ManagedSpec
<1> QED
  BY <1>3 DEF AddsWhatWasAsked

=============================================================================
