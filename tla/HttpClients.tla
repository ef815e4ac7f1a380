----------------------------- MODULE HttpClients -----------------------------
(***************************************************************************)
(* send() of the two HTTP clients, statement by statement where it can     *)
(* fail: the handles WinHttpClient keeps and opens, the header lines each  *)
(* client reads and how, the body it collects, the error it reports.       *)
(* HttpAnswers has the same in one step, for answers whose header names    *)
(* are written as the clients look for them.                               *)
(*                                                                         *)
(* WinHTTP, libcurl and the router are outside.  Of the calls of WinHTTP,  *)
(* those that open the session, connect, open the request, exchange it,    *)
(* query the headers and read the body may fail; those that set options,   *)
(* timeouts and request headers do not, as what goes out is the business   *)
(* of the client above: here a request is the server of its URL.  With     *)
(* curl, curl_easy_init() and curl_easy_perform() may fail.  A body may    *)
(* break off between two pieces.                                           *)
(***************************************************************************)
EXTENDS Integers, Sequences, SequencesExt

CONSTANTS
  Clients,       \* which of the two clients to look at
  Server,        \* what WinHttpCrackUrl finds in the URLs asked for: host and port
  NoServer,      \* a URL it cannot take apart
  CookieName, CookieValue, NoCookie, Piece,
  Answers        \* the router's answers

\* Names as they are written on the wire: the clients compare letter by letter.
HeaderName == {"Set-Cookie", "set-cookie", "Location", "location", "Content-Location"}

\* A header line.  A cookie without "=" has the name NoCookie.
Line   == [name : HeaderName, cookie : CookieName \cup {NoCookie}, value : CookieValue]
Answer == [status : 100..599, lines : Seq(Line), body : Seq(Piece)]

ASSUME HttpAssumption == /\ Clients \subseteq {"WinHttpClient", "CurlHttpClient"}
                         /\ NoServer \notin Server
                         /\ NoCookie \notin CookieName \cup CookieValue
                         /\ Answers \subseteq Answer

\* models HttpResponse: error is "" on success, headers is reduced to Location.
Response == [error : {"", "session", "connect", "request", "network"}, status : 0..599,
             cookies : [CookieName -> CookieValue \cup {NoCookie}],
             location : CookieValue \cup {NoCookie}, body : Seq(Piece)]
Nothing  == [error |-> "", status |-> 0, cookies |-> [n \in CookieName |-> NoCookie],
             location |-> NoCookie, body |-> << >>]

VARIABLES
  client,       \* the one main() has built
  session,      \* session_ or curl_ is not null
  connection,   \* connection_: where it leads, NoServer if it is null
  current,      \* currentHost_ and currentPort_
  connections,  \* connection handles open
  requests,     \* request handles open
  pc,           \* the statement of send() that comes next, "idle" outside
  server,       \* of the request
  tried,        \* WinHttpConnect was called for this request
  answer,       \* what the router answers
  read,         \* header lines of it that have arrived (curl)
  response

handles == <<connection, current, connections, requests>>
vars == <<client, session, handles, pc, server, tried, answer, read, response>>

NoAnswer == [status |-> 100, lines |-> << >>, body |-> << >>]

\* WinHttpOpen and curl_easy_init are called once, and may fail.
Init ==
  /\ client \in Clients
  /\ session \in BOOLEAN
  /\ connection = NoServer /\ current = NoServer
  /\ connections = 0 /\ requests = 0
  /\ pc = "idle" /\ server = NoServer /\ tried = FALSE
  /\ answer = NoAnswer /\ read = 0 /\ response = Nothing

Step(from, to) == pc = from /\ pc' = to /\ UNCHANGED <<client, session, server>>

\* The program is in the middle of send(): it returns r.
Returns(r) == pc' = "idle" /\ response' = r
Fails(error) == Returns([response EXCEPT !.error = error])

Send(s) ==
  /\ pc = "idle"
  /\ server' = s
  /\ tried' = FALSE /\ answer' = NoAnswer /\ read' = 0
  /\ response' = [Nothing EXCEPT !.error = IF session THEN "" ELSE "session"]
  /\ pc' = IF ~session THEN "idle" ELSE IF client = "WinHttpClient" THEN "connect" ELSE "perform"
  /\ UNCHANGED <<client, session, handles>>

-----------------------------------------------------------------------------
(* WinHttpClient *)

\* The connections that stay open when connection_ is replaced.
OthersOrNone == connections - 1
Others       == IF connection = NoServer THEN connections ELSE connections - 1

IsStaleByHandle == connection = NoServer
IsStaleByServer == current # server
IsStale         == connection = NoServer \/ current # server

\* WinHttpConnect does not touch the network, but wants a host.
Connect ==
  /\ pc = "connect"
  /\ IF ~IsStale
       THEN UNCHANGED <<connection, current, connections, tried>>
       ELSE /\ tried' = TRUE
            /\ current' = server
            /\ connection' \in {NoServer, server}
            /\ connections' = Others + (IF connection' = NoServer THEN 0 ELSE 1)
  /\ IF connection' = NoServer THEN Fails("connect") ELSE pc' = "open" /\ UNCHANGED response
  /\ UNCHANGED <<client, session, requests, server, answer, read>>

OpenRequest ==
  /\ pc = "open"
  /\ \/ Fails("request") /\ UNCHANGED requests
     \/ pc' = "exchange" /\ requests' = requests + 1 /\ UNCHANGED response
  /\ UNCHANGED <<client, session, connection, current, connections, server, tried, answer, read>>

NotClosed == UNCHANGED requests
CloseRequest == requests' = requests - 1

Exchange ==
  /\ pc = "exchange"
  /\ \/ Fails("network") /\ CloseRequest /\ UNCHANGED answer
     \/ answer' \in Answers /\ pc' = "headers" /\ UNCHANGED <<requests, response>>
  /\ UNCHANGED <<client, session, connection, current, connections, server, tried, read>>

\* parseCookies(): each "Set-Cookie: " of the header block.
FirstCookies(lines) ==
  FoldLeft(LAMBDA jar, l : IF l.name = "Set-Cookie" /\ l.cookie # NoCookie /\ jar[l.cookie] = NoCookie
                             THEN [jar EXCEPT ![l.cookie] = l.value] ELSE jar,
           Nothing.cookies, lines)
ParseCookies(lines) ==
  FoldLeft(LAMBDA jar, l : IF l.name = "Set-Cookie" /\ l.cookie # NoCookie
                             THEN [jar EXCEPT ![l.cookie] = l.value] ELSE jar,
           Nothing.cookies, lines)

\* The first "Location: " of the block, also at the end of a longer name.
FindLocation(lines) ==
  LET first == SelectInSeq(lines, LAMBDA l : l.name \in {"Location", "Content-Location"})
  IN  IF first = 0 THEN NoCookie ELSE lines[first].value

\* Three calls whose results are not looked at: of an answer that has come the
\* status may be missing, or the header lines, or both, and there is no error.
QueryHeaders ==
  /\ Step("headers", "body")
  /\ \E status \in {answer.status, 0}, lines \in {answer.lines, << >>} :
       response' = [response EXCEPT !.status = status,
                                    !.cookies = ParseCookies(lines),
                                    !.location = FindLocation(lines)]
  /\ UNCHANGED <<handles, tried, answer, read>>

\* The next piece of the body, for both clients.
Arrived(r) == [r EXCEPT !.body = Append(@, answer.body[Len(@) + 1])]
Awaited    == Len(response.body) < Len(answer.body)

ReadData ==
  /\ Step("body", "body") /\ Awaited
  /\ response' = Arrived(response)
  /\ UNCHANGED <<handles, tried, answer, read>>

\* No more data, or a read that failed: the same to send().
EndOfBody ==
  /\ Step("body", "idle")
  /\ CloseRequest
  /\ UNCHANGED <<connection, current, connections, tried, answer, read, response>>

-----------------------------------------------------------------------------
(* CurlHttpClient *)

\* The request is out and the answer begins to come.
Perform ==
  /\ Step("perform", "receive")
  /\ answer' \in Answers
  /\ UNCHANGED <<handles, tried, read, response>>

\* HeaderCallback: a map, so that the last line of a name stays.
Kept(l) == IF l.name = "Location" THEN l.value ELSE response.location

HeaderCallback ==
  /\ Step("receive", "receive") /\ read < Len(answer.lines)
  /\ read' = read + 1
  /\ response' = [response EXCEPT !.location = Kept(answer.lines[read'])]
  /\ UNCHANGED <<handles, tried, answer>>

WriteCallback ==
  /\ Step("receive", "receive") /\ read = Len(answer.lines) /\ Awaited
  /\ response' = Arrived(response)
  /\ UNCHANGED <<handles, tried, answer, read>>

\* A transfer that broke off is performed again.
PerformReturnsRetrying ==
  /\ \/ pc = "perform" /\ Fails("network")
     \/ pc = "receive" /\ pc' = "perform" /\ UNCHANGED response
     \/ /\ pc = "receive" /\ read = Len(answer.lines) /\ ~Awaited
        /\ Returns([response EXCEPT !.status = answer.status])
  /\ UNCHANGED <<client, session, handles, server, tried, answer, read>>

\* curl_easy_perform() fails, now or before anything came, or it is done.
PerformReturns ==
  /\ \/ pc \in {"perform", "receive"} /\ Fails("network")
     \/ /\ pc = "receive" /\ read = Len(answer.lines) /\ ~Awaited
        /\ Returns([response EXCEPT !.status = answer.status])
  /\ UNCHANGED <<client, session, handles, server, tried, answer, read>>

Next ==
  \/ \E s \in Server \cup {NoServer} : Send(s)
  \/ Connect \/ OpenRequest \/ Exchange \/ QueryHeaders \/ ReadData \/ EndOfBody
  \/ Perform \/ HeaderCallback \/ WriteCallback \/ PerformReturns

Spec == Init /\ [][Next]_vars

-----------------------------------------------------------------------------
(* Properties *)

TypeOK ==
  /\ client \in Clients /\ session \in BOOLEAN
  /\ {connection, current, server} \subseteq Server \cup {NoServer}
  /\ connections \in Nat /\ requests \in Nat
  /\ pc \in {"idle", "connect", "open", "exchange", "headers", "body", "perform", "receive"}
  /\ tried \in BOOLEAN
  /\ answer \in Answers \cup {NoAnswer} /\ read \in 0..Len(answer.lines)
  /\ response \in Response

(***************************************************************************)
(* A request goes out over a connection to its own server: the one that is *)
(* kept may lead elsewhere, after a redirect to another host (:74).        *)
(***************************************************************************)
GoesToItsServer ==
  pc \in {"open", "exchange", "headers", "body"} => connection = server /\ server # NoServer

(***************************************************************************)
(* Between two requests nothing is open but the connection that is kept,   *)
(* on whichever of its returns send() ended.                               *)
(***************************************************************************)
NoHandleLost ==
  pc = "idle" => requests = 0 /\ connections = IF connection = NoServer THEN 0 ELSE 1

(***************************************************************************)
(* A connection that could not be made is no obstacle later: only a        *)
(* request that tried to connect fails for it, although host and port      *)
(* have been noted as current.                                             *)
(***************************************************************************)
ConnectsAgain == response.error = "connect" => tried

\* Header lines as the clients expect them.
AsExpected(lines) ==
  /\ \A i \in DOMAIN lines : lines[i].name \in {"Set-Cookie", "Location"}
  /\ \A i, j \in DOMAIN lines : lines[i].name = "Location" /\ lines[j].name = "Location" => i = j

LastCookie(lines, n) ==
  LET last == SelectLastInSeq(lines, LAMBDA l : l.name = "Set-Cookie" /\ l.cookie = n)
  IN  IF last = 0 THEN NoCookie ELSE lines[last].value

LastCookies(lines) == [n \in CookieName |-> LastCookie(lines, n)]

RedirectOf(lines) == {lines[i].value : i \in {j \in DOMAIN lines : lines[j].name = "Location"}}
Redirect(lines) ==
  IF RedirectOf(lines) = {} THEN NoCookie ELSE CHOOSE v \in RedirectOf(lines) : TRUE

(***************************************************************************)
(* What send() returns is the router's answer, as HttpAnswers has it.      *)
(* Without an error: its status, its body, its Location, and with          *)
(* WinHttpClient the last cookie of each name, with CurlHttpClient none;   *)
(* WinHttpClient may return 0 for the status, none of the header lines,    *)
(* and only the beginning of the body.  With an error: no status and no    *)
(* cookie; with WinHttpClient nothing at all, with CurlHttpClient what had *)
(* arrived by then.                                                        *)
(***************************************************************************)
ReturnsTheAnswer ==
  LET win   == client = "WinHttpClient"
      ended == response.error = ""
  IN  pc = "idle" /\ answer # NoAnswer =>
        /\ IsPrefix(response.body, answer.body)
        /\ \/ ended /\ response.status = answer.status
           \/ (ended => win) /\ response.status = 0
        /\ ended /\ ~win => response.body = answer.body
        /\ ~ended /\ win => response.body = << >> /\ response.location = NoCookie
        /\ ~ended \/ ~win => response.cookies = Nothing.cookies
        /\ AsExpected(answer.lines) =>
             \/ /\ response.location = Redirect(answer.lines)
                /\ ended /\ win => response.cookies = LastCookies(answer.lines)
             \/ /\ response.location = NoCookie /\ response.cookies = Nothing.cookies
                /\ ended => win

(***************************************************************************)
(* Both clients implement HttpExchange: the router is asked once for each  *)
(* request, and its answer is returned or lost, never kept for the next.   *)
(***************************************************************************)
\* An answer as the response that is all of it.
OnTheWire(a) ==
  [clear    |-> AsExpected(a.lines),
   response |-> [error |-> FALSE, status |-> a.status,
                 cookies |-> LastCookies(a.lines),
                 location |-> Redirect(a.lines), page |-> a.body]]
WireAnswers == {OnTheWire(a) : a \in Answers}

\* The fields of a response the router client looks at.
Shown(r) == [error |-> r.error # "", status |-> r.status, cookies |-> r.cookies,
             location |-> r.location, page |-> r.body]

\* Where a request is, its answer on its way, and what the program has of it.
Phase ==
  CASE pc = "idle" -> "idle"
    [] pc \in {"connect", "open", "exchange", "perform"} -> "asked"
    [] pc \in {"headers", "body", "receive"} -> "answered"
OnItsWay == OnTheWire(IF Phase = "answered" THEN answer ELSE NoAnswer)
Returned == Shown(IF Phase = "idle" THEN response ELSE Nothing)

Promised == INSTANCE HttpExchange WITH
  Answers    <- WireAnswers,
  Unanswered <- OnTheWire(NoAnswer),
  Blank      <- Shown(Nothing),
  phase      <- Phase,
  answer     <- OnItsWay,
  response   <- Returned

ImplementsHttpExchange == Promised!ExchangeSpec

=============================================================================
