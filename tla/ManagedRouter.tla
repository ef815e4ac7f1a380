---------------------------- MODULE ManagedRouter ----------------------------
(***************************************************************************)
(* The client and the router it manages, over one of the two transports.   *)
(*                                                                         *)
(* The router is outside the repository: it is what the client takes it to *)
(* be (ZteF670LRouterClient.cpp, HtmlParsingTests.cpp).  It grants a       *)
(* session cookie to a login, shows the login page to anyone without one,  *)
(* serves its access control list with a form token that is good for one   *)
(* change, adds the first MACAddress of a new rule and deletes the row a   *)
(* delete names by its index.                                              *)
(*                                                                         *)
(* Between a request and its answer anything may happen: the session may   *)
(* time out, another administrator may change the list, the client may     *)
(* give up waiting while the request is still on its way.                  *)
(***************************************************************************)
EXTENDS HttpTransport, FiniteSets

CONSTANTS
  SessionCookie,  \* the name of the router's cookie
  Token,          \* form tokens
  OtherMac,       \* the addresses another administrator may add
  RowNames,       \* the row numbers, as texts, in order
  MaxLive,        \* sessions the router keeps at a time, at most
  MaxLate         \* requests the client no longer waits for, at most

ASSUME ManagedAssumption ==
  /\ SessionCookie \in CookieName
  /\ Token \subseteq Text \ {NoText}
  /\ OtherMac \subseteq Text
  /\ RowNames \in Seq(Digits)
  /\ \A i, j \in DOMAIN RowNames : RowNames[i] = RowNames[j] => i = j
  /\ MaxLive \in Nat /\ MaxLate \in Nat

VARIABLES
  live,     \* the sessions the router knows
  acl,      \* its list of addresses, a row each
  token,    \* the form token it accepts, NoText for none
  flight,   \* the client's request: "none", "sent", "answered"
  answer,   \* the router's answer to it, NoResponse if it has none
  late,     \* requests the client has given up and the router has yet to see
  asked,    \* the address each of them was made for, to state what is asked for
  touched,  \* another administrator changed acl since the current token was issued
  fate,     \* what the router did for the running call: the last of Fates
  ended     \* the last session the client ended, or was told had ended

Fates == {"none", "granted", "made", "refused"}

routerVars == <<live, acl, token, touched, fate>>
wireVars   == <<flight, answer, late, asked>>
allVars    == <<vars, routerVars, wireVars, ended>>

ManagedInit ==
  /\ Init
  /\ live = {} /\ acl = << >> /\ token = NoText
  /\ flight = "none" /\ answer = NoResponse /\ late = {} /\ asked = << >>
  /\ touched = FALSE /\ fate = "none" /\ ended = NoCookie

-----------------------------------------------------------------------------
(* The router *)

SessionOf(q) == q.cookies[SessionCookie]
Known(q)     == SessionOf(q) \in live

Answer200     == [NoResponse EXCEPT !.status = 200, !.page = CutPage]
Served(page)  == [Answer200 EXCEPT !.page = page]
Setting(r, s) == [r EXCEPT !.cookies[SessionCookie] = s]

LoginPage  == [CutPage EXCEPT !.form = TRUE, !.user = TRUE, !.loginToken = "1"]
\* Two ways to say that there is no session.
Expired    == {Served(LoginPage),
               [Answer200 EXCEPT !.status = 302, !.location = "login", !.page = EmptyPage]}
LoggedOn   == {[Answer200 EXCEPT !.status = 302, !.location = "other", !.page = EmptyPage],
               Answer200}

\* The list, between the token and the empty fields of the form for a new rule.
AclPage(t) ==
  [CutPage EXCEPT !.inputs =
    << Pair(Plain("_SESSION_TOKEN"), t), Pair(Plain("MACAddress"), NoText) >> \o
    [i \in 1..Len(acl) |-> Pair(Indexed("MACAddress", RowNames[i]), acl[i])]]

\* Sessions and tokens nobody holds any more, the answer on its way included.
TokenOf(fields) == GetField(fields, Plain("_SESSION_TOKEN"))
FreshSessions ==
  CookieValue \ ({SessionOf(q) : q \in late \cup {req, answer}} \cup live \cup {cookies[SessionCookie]})
FreshTokens ==
  Token \ ({token, TokenOf(answer.page.inputs)} \cup {TokenOf(q.form) : q \in late \cup {req}})

\* What a request does to the router, and its answer.
Outcome(l, a, t, f, r) == [live |-> l, acl |-> a, token |-> t, fate |-> f, answer |-> r]
Only(r) == Outcome(live, acl, token, fate, r)

\* The password was wrong, or the router has no session to give.
LogsOn ==
  {Only(Served(LoginPage))} \cup
    IF Cardinality(live) >= MaxLive THEN {}
    ELSE {Outcome(live \cup {s}, acl, token, "granted", Setting(r, s)) :
            s \in FreshSessions, r \in LoggedOn}

Changed(form) ==
  IF GetField(form, Plain("IF_ACTION")) = "new"
    THEN Append(acl, GetField(form, Plain("MACAddress")))
    ELSE LET row == SelectInSeq(RowNames, LAMBDA n : n = GetField(form, Plain("IF_INDEX")))
         IN  IF row \in 1..Len(acl) THEN RemoveAt(acl, row) ELSE acl

\* What the page of the list says of the change: the client does not read it.
Verdict(text) == Served([CutPage EXCEPT !.inputs = << Pair(Plain("IF_ERRORSTR"), text) >>])

\* A change with another token, or one row too many, is not made; the answer
\* is the list again, or an error that says nothing of what was done.
Change(form) ==
  LET good == /\ TokenOf(form) = token
              /\ Len(Changed(form)) <= Len(RowNames)
  IN  {Outcome(live, IF good THEN Changed(form) ELSE acl, NoText,
               IF good THEN "made" ELSE "refused", r) :
         r \in {Verdict(IF good THEN "SUCC" ELSE "NULL"), [Answer200 EXCEPT !.status = 500]}}

ServedOutcomes(q) ==
  CASE q.path = "/" /\ q.method = "POST" -> LogsOn
    [] q.path = "/" /\ q.method = "GET" ->
         {Only(Served(IF Known(q) THEN CutPage ELSE LoginPage))}
    [] q.path = "logoff" ->
         {[Only(r) EXCEPT !.live = live \ {SessionOf(q)}] : r \in Expired}
    [] q.path \in {"location", "info", "dhcp"} /\ Known(q) -> {Only(Answer200)}
    [] q.path = "acl" /\ q.method = "GET" /\ Known(q) ->
         {[Only(Served(AclPage(t))) EXCEPT !.token = t] : t \in FreshTokens}
    [] q.path = "acl" /\ q.method = "POST" /\ Known(q) -> Change(q.form)
    [] q.path \notin {"/", "logoff"} /\ ~Known(q) -> {Only(r) : r \in Expired}

\* The router deals with q.
Handles(q, o) ==
  /\ o \in ServedOutcomes(q)
  /\ live' = o.live /\ acl' = o.acl /\ token' = o.token
  /\ touched' = (touched /\ o.token = token)
  /\ ended' = IF o.answer.cookies[SessionCookie] = ended THEN NoCookie ELSE ended

RouterAnswers ==
  /\ flight = "sent"
  /\ \E o \in ServedOutcomes(req) :
       Handles(req, o) /\ answer' = o.answer /\ fate' = o.fate
  /\ flight' = "answered"
  /\ UNCHANGED <<vars, late, asked>>

\* A request nobody waits for: its answer is lost.
LateArrives ==
  \E q \in late :
    /\ \E o \in ServedOutcomes(q) : Handles(q, o)
    /\ late' = late \ {q}
    /\ asked' = [p \in late' |-> asked[p]]
    /\ UNCHANGED <<vars, flight, answer, fate>>

SessionTimesOut ==
  /\ \E s \in live : live' = live \ {s}
  /\ UNCHANGED <<vars, wireVars, acl, token, touched, fate, ended>>

OtherAdmin ==
  /\ \/ \E m \in OtherMac : Len(acl) < Len(RowNames) /\ acl' = Append(acl, m)
     \/ \E i \in 1..Len(acl) : acl' = RemoveAt(acl, i)
  /\ touched' = (token # NoText)
  /\ UNCHANGED <<vars, wireVars, live, token, fate, ended>>

-----------------------------------------------------------------------------
(* The client on the wire *)

UserCalls ==
  /\ flight = "none"
  /\ UserCall
  /\ flight' = IF pc' \in Waiting THEN "sent" ELSE "none"
  /\ fate' = "none"
  /\ UNCHANGED <<answer, late, asked, live, acl, token, touched, ended>>

Receives(r) ==
  /\ Reply(r)
  /\ flight' = IF pc' \in Waiting THEN "sent" ELSE "none"
  /\ answer' = NoResponse
  /\ ended' = IF (pc = "logoff" \/ ShowsLogin(r)) /\ loggedIn THEN cookies[SessionCookie] ELSE ended
  /\ UNCHANGED routerVars

Receive ==
  /\ flight = "answered"
  /\ \E r \in Delivered(answer) : Receives(r)
  /\ UNCHANGED <<late, asked>>

\* Requests that change something at the router: one of the others might as
\* well be lost.
Matters(q) == q.method = "POST" \/ q.path \in {"logoff", "acl"}

\* The address whose change the client waits for.
MacOfPost == IF pc \in {"blockPost", "unblockPost"} THEN mac ELSE NoText

\* The exchange fails or takes too long; the request is lost, or still to come.
GiveUp ==
  \/ /\ flight = "answered"
     /\ \E r \in Broken(answer) : Receives(r)
     /\ UNCHANGED <<late, asked>>
  \/ /\ flight = "sent"
     /\ Receives(NoAnswer)
     /\ \/ UNCHANGED late
        \/ Matters(req) /\ Cardinality(late) < MaxLate /\ late' = late \cup {req}
     /\ asked' = [q \in late' |-> IF q \in late THEN asked[q] ELSE MacOfPost]

ManagedNext ==
  \/ UserCalls \/ Receive \/ GiveUp
  \/ RouterAnswers \/ LateArrives \/ SessionTimesOut \/ OtherAdmin

ManagedSpec == ManagedInit /\ [][ManagedNext]_allVars

-----------------------------------------------------------------------------
(* Properties *)

\* The request the router deals with in this step, if it deals with one.
Dealt   == \/ flight = "sent" /\ flight' = "answered"
           \/ flight' = flight /\ late' \subseteq late /\ late' # late
Request == IF flight' # flight THEN req ELSE CHOOSE q \in late : q \notin late'

\* The address of the call that made it.
AskedFor == IF flight' # flight THEN MacOfPost ELSE asked[Request]

(***************************************************************************)
(* The router deletes for the client only a row that holds the address the *)
(* user asked to unblock, unless another administrator changed the list    *)
(* after the page the row number comes from: the number is used one        *)
(* exchange after it was read, and may arrive later still.                 *)
(***************************************************************************)
DeletesWhatWasAsked ==
  [][Dealt /\ Len(acl') < Len(acl) /\ ~touched =>
       \E i \in 1..Len(acl) : acl' = RemoveAt(acl, i) /\ Lower[acl[i]] = Lower[AskedFor]]_allVars

(***************************************************************************)
(* A row the client adds holds the address of the call that asked for it,  *)
(* although the page it posts back has a MACAddress field already, and     *)
(* although the request may arrive when the user has asked for another.    *)
(***************************************************************************)
AddsWhatWasAsked ==
  [][Dealt /\ Len(acl') > Len(acl) =>
       acl'[Len(acl')] = AskedFor /\ AskedFor # NoText]_allVars

(***************************************************************************)
(* Only three outcomes leave it open what became of a change: success,     *)
(* which waits for no verdict, a failed exchange and an error status.      *)
(* Every other failure means that the list was not touched.                *)
(***************************************************************************)
FailureChangedNothing ==
  result.op \in {"block", "unblock"} /\ fate = "made" =>
    result.outcome \in {"success", "error", "mayHaveFailed"}

(***************************************************************************)
(* Success means that the router saw the change inside a session, and made *)
(* it or refused it: it never stands for an answer to a stranger, unless   *)
(* WinHttpClient lost the part of the answer that tells.                   *)
(***************************************************************************)
SuccessWasSeen ==
  result.op \in {"block", "unblock"} /\ result.outcome = "success" =>
    fate # "none" \/ resp.page \in {EmptyPage, CutPage}

(***************************************************************************)
(* A session that ended, by logout() or because the router showed the      *)
(* login page, is not handed to send() again.                              *)
(***************************************************************************)
EndedSessionUnused == flight # "none" /\ ended # NoCookie => SessionOf(req) # ended

-----------------------------------------------------------------------------
(* What the comments and the tests say and the code does not do *)

(***************************************************************************)
(* "If successful, it stores the session cookies" (login()).               *)
(***************************************************************************)
LoginStoresCookies ==
  result.op = "login" /\ result.outcome = "success" /\ fate = "granted" /\ loggedIn =>
    cookies[SessionCookie] # NoCookie

(***************************************************************************)
(* "POST returns 200 but body still has login form -> failure"             *)
(* (HtmlParsingTests, LoginFailsWhenLoginFormStillPresent).                *)
(***************************************************************************)
LoginFormIsFailure ==
  result.op = "login" /\ result.outcome = "success" => fate = "granted"

=============================================================================
