-------------------------- MODULE HttpClientsProofs --------------------------
(***************************************************************************)
(* Proofs about HttpClients, for all servers and answers, in every order   *)
(* of requests and failures: first the handles of WinHttpClient, then what *)
(* is returned.  The cookies come out of a fold over the header lines; the *)
(* fold is a function on sets of positions, and what it computes is proved *)
(* by induction on the number of lines.                                    *)
(***************************************************************************)
EXTENDS HttpClients, Induction, TLAPS

-----------------------------------------------------------------------------
(* The inductive invariant *)

Statements == {"idle", "connect", "open", "exchange", "headers", "body", "perform", "receive"}

\* The statements of send() between WinHttpOpenRequest and its close.
HasRequest == pc \in {"exchange", "headers", "body"}

\* One connection at most, and currentHost_ and currentPort_ tell where it
\* leads; they may also tell of one that could not be made.
OneConnection ==
  /\ connections = IF connection = NoServer THEN 0 ELSE 1
  /\ connection # NoServer => current = connection

IInv ==
  /\ pc \in Statements
  /\ "error" \in DOMAIN response
  /\ pc # "idle" => response.error = ""
  /\ OneConnection
  /\ requests = IF HasRequest THEN 1 ELSE 0
  /\ GoesToItsServer
  /\ ConnectsAgain

-----------------------------------------------------------------------------
(* What a step does to the response *)

\* An error is noted and the domain stays.
LEMMA SetError ==
  ASSUME NEW r, "error" \in DOMAIN r, NEW e
  PROVE  /\ DOMAIN [r EXCEPT !.error = e] = DOMAIN r
         /\ [r EXCEPT !.error = e].error = e
  OBVIOUS

\* A piece of the body is no error.
LEMMA ArrivedError ==
  ASSUME NEW r, "error" \in DOMAIN r
  PROVE  "error" \in DOMAIN Arrived(r) /\ Arrived(r).error = r.error
  BY DEF Arrived

-----------------------------------------------------------------------------
(* Every step keeps the invariant *)

LEMMA InitIInv == Init => IInv
<1> SUFFICES ASSUME Init PROVE IInv
  OBVIOUS
<1>1. "error" \in DOMAIN response /\ response.error = ""
  BY DEF Init, Nothing
<1>2. ConnectsAgain
  BY <1>1 DEF ConnectsAgain
<1> QED
  BY <1>1, <1>2 DEF Init, IInv, Statements, OneConnection, HasRequest, GoesToItsServer

LEMMA SendIInv == ASSUME NEW s, IInv, Send(s) PROVE IInv'
<1>1. "error" \in DOMAIN response' /\ response'.error \in {"", "session"}
  BY DEF Send, Nothing
<1>2. pc' # "idle" => response'.error = ""
  BY DEF Send, Nothing
<1>3. pc' \in {"idle", "connect", "perform"}
  BY DEF Send
<1>4. ~HasRequest /\ ~HasRequest'
  BY <1>3 DEF Send, HasRequest
<1>5. OneConnection' /\ requests' = 0
  BY <1>4 DEF Send, handles, IInv, OneConnection
<1> QED
  BY <1>1, <1>2, <1>3, <1>4, <1>5 DEF IInv, Statements, GoesToItsServer, ConnectsAgain

LEMMA ConnectIInv == IInv /\ Connect => IInv'
<1> SUFFICES ASSUME IInv, Connect PROVE IInv'
  OBVIOUS
<1>1. /\ pc = "connect" /\ requests' = requests /\ requests = 0 /\ server' = server
      /\ response.error = "" /\ "error" \in DOMAIN response
  BY DEF IInv, Connect, HasRequest
<1>2. /\ OneConnection'
      /\ connection' # NoServer => connection' = server'
      /\ connection' = NoServer => tried'
  <2>1. CASE IsStale
    <3>1. /\ tried' = TRUE /\ current' = server /\ connection' \in {NoServer, server}
          /\ connections' = Others + (IF connection' = NoServer THEN 0 ELSE 1)
      BY <2>1 DEF Connect
    <3>2. Others = 0
      <4>1. OneConnection
        BY DEF IInv
      <4>2. CASE connection = NoServer
        BY <4>1, <4>2 DEF OneConnection, Others
      <4>3. CASE connection # NoServer
        BY <4>1, <4>3 DEF OneConnection, Others
      <4> QED
        BY <4>2, <4>3
    <3>3. connections' = IF connection' = NoServer THEN 0 ELSE 1
      BY <3>1, <3>2
    <3> QED
      BY <1>1, <3>1, <3>3 DEF OneConnection
  <2>2. CASE ~IsStale
    BY <1>1, <2>2 DEF Connect, IsStale, IInv, OneConnection
  <2> QED
    BY <2>1, <2>2
<1>3. CASE connection' = NoServer
  <2>1. pc' = "idle" /\ response' = [response EXCEPT !.error = "connect"]
    BY <1>3 DEF Connect, Fails, Returns
  <2> QED
    BY <1>1, <1>2, <1>3, <2>1 DEF IInv, Statements, HasRequest, GoesToItsServer, ConnectsAgain
<1>4. CASE connection' # NoServer
  <2>1. pc' = "open" /\ response' = response
    BY <1>4 DEF Connect
  <2> QED
    BY <1>1, <1>2, <1>4, <2>1 DEF IInv, Statements, HasRequest, GoesToItsServer, ConnectsAgain
<1> QED
  BY <1>3, <1>4

LEMMA OpenRequestIInv == IInv /\ OpenRequest => IInv'
<1> SUFFICES ASSUME IInv, OpenRequest PROVE IInv'
  OBVIOUS
<1>1. pc = "open" /\ requests = 0 /\ "error" \in DOMAIN response /\ response.error = ""
  BY DEF IInv, OpenRequest, HasRequest
<1>2. OneConnection' /\ connection' = connection /\ server' = server /\ tried' = tried
  BY DEF IInv, OpenRequest, OneConnection
<1>3. CASE Fails("request") /\ UNCHANGED requests
  BY <1>1, <1>2, <1>3
     DEF IInv, Fails, Returns, Statements, HasRequest, GoesToItsServer, ConnectsAgain
<1>4. CASE pc' = "exchange" /\ requests' = requests + 1 /\ UNCHANGED response
  <2>1. requests' = 1
    <3>1. requests = 0 /\ requests' = requests + 1
      BY <1>1, <1>4
    <3> QED
      BY <3>1
  <2>2. ConnectsAgain'
    BY <1>1, <1>4 DEF ConnectsAgain
  <2> QED
    BY <1>1, <1>2, <1>4, <2>1, <2>2 DEF IInv, Statements, HasRequest, GoesToItsServer
<1> QED
  BY <1>3, <1>4 DEF OpenRequest

LEMMA ExchangeIInv == IInv /\ Exchange => IInv'
<1> SUFFICES ASSUME IInv, Exchange PROVE IInv'
  OBVIOUS
<1>1. pc = "exchange" /\ requests = 1 /\ "error" \in DOMAIN response /\ response.error = ""
  BY DEF IInv, Exchange, HasRequest
<1>2. OneConnection' /\ connection' = connection /\ server' = server /\ tried' = tried
  BY DEF IInv, Exchange, OneConnection
<1>3. CASE Fails("network") /\ CloseRequest
  <2>1. requests' = 0
    <3>1. requests = 1 /\ requests' = requests - 1
      BY <1>1, <1>3 DEF CloseRequest
    <3> QED
      BY <3>1
  <2>2. pc' = "idle" /\ response' = [response EXCEPT !.error = "network"]
    BY <1>3 DEF Fails, Returns
  <2>3. "error" \in DOMAIN response' /\ response'.error = "network"
    BY <1>1, <2>2
  <2>4. ConnectsAgain'
    BY <2>3 DEF ConnectsAgain
  <2> QED
    BY <1>2, <2>1, <2>2, <2>3, <2>4 DEF IInv, Statements, HasRequest, GoesToItsServer
<1>4. CASE pc' = "headers" /\ UNCHANGED <<requests, response>>
  BY <1>1, <1>2, <1>4 DEF IInv, Statements, HasRequest, GoesToItsServer, ConnectsAgain
<1> QED
  BY <1>3, <1>4 DEF Exchange

\* Headers, and the pieces of the body.
LEMMA AnswerIInv == IInv /\ (QueryHeaders \/ ReadData \/ HeaderCallback \/ WriteCallback) => IInv'
<1> SUFFICES ASSUME IInv, QueryHeaders \/ ReadData \/ HeaderCallback \/ WriteCallback PROVE IInv'
  OBVIOUS
<1>1. /\ UNCHANGED <<handles, tried, server>>
      /\ pc # "idle" /\ pc' \in Statements \ {"idle"}
      /\ (pc \in {"headers", "body"}) = (pc' \in {"headers", "body"})
      /\ pc' \notin {"open", "exchange"}
      /\ pc \notin {"open", "exchange"}
  BY DEF QueryHeaders, ReadData, HeaderCallback, WriteCallback, Step, Statements
<1>2. OneConnection' /\ requests' = requests /\ connection' = connection
  BY <1>1 DEF handles, IInv, OneConnection
<1>3. HasRequest' = HasRequest
  BY <1>1 DEF HasRequest
<1>4. "error" \in DOMAIN response' /\ response'.error = response.error
  <2>1. "error" \in DOMAIN response
    BY DEF IInv
  <2>2. CASE QueryHeaders
    BY <2>1, <2>2 DEF QueryHeaders
  <2>3. CASE ReadData \/ WriteCallback
    BY <2>1, <2>3, ArrivedError DEF ReadData, WriteCallback
  <2>4. CASE HeaderCallback
    BY <2>1, <2>4 DEF HeaderCallback
  <2> QED
    BY <2>2, <2>3, <2>4
<1> QED
  BY <1>1, <1>2, <1>3, <1>4 DEF IInv, GoesToItsServer, ConnectsAgain

LEMMA EndOfBodyIInv == IInv /\ EndOfBody => IInv'
<1> SUFFICES ASSUME IInv, EndOfBody PROVE IInv'
  OBVIOUS
<1>1. /\ pc = "body" /\ pc' = "idle" /\ requests' = requests - 1 /\ requests = 1
      /\ UNCHANGED <<connection, current, connections, tried, response>>
  BY DEF IInv, EndOfBody, Step, CloseRequest, HasRequest
<1>2. requests' = 0
  BY <1>1
<1>3. "error" \in DOMAIN response' /\ ConnectsAgain' /\ OneConnection'
  BY <1>1 DEF IInv, ConnectsAgain, OneConnection
<1> QED
  BY <1>1, <1>2, <1>3 DEF IInv, Statements, HasRequest, GoesToItsServer

LEMMA PerformIInv == IInv /\ (Perform \/ PerformReturns) => IInv'
<1> SUFFICES ASSUME IInv, Perform \/ PerformReturns PROVE IInv'
  OBVIOUS
<1>1. /\ pc \in {"perform", "receive"} /\ pc' \in {"idle", "receive"}
      /\ UNCHANGED <<handles, tried, server>>
  BY DEF Perform, PerformReturns, Step, Fails, Returns
<1>2. OneConnection' /\ requests' = requests /\ requests = 0
  BY <1>1 DEF handles, IInv, OneConnection, HasRequest
<1>3. /\ "error" \in DOMAIN response'
      /\ response'.error \in {"", "network"}
      /\ pc' # "idle" => response'.error = ""
  <2>1. "error" \in DOMAIN response /\ response.error = ""
    BY <1>1 DEF IInv
  <2>2. CASE Perform
    BY <2>1, <2>2 DEF Perform
  <2>3. CASE Fails("network")
    BY <2>1, <2>3 DEF Fails, Returns
  <2>4. CASE Returns([response EXCEPT !.status = answer.status])
    BY <2>1, <2>4 DEF Returns
  <2> QED
    BY <2>2, <2>3, <2>4 DEF PerformReturns
<1> QED
  BY <1>1, <1>2, <1>3 DEF IInv, Statements, HasRequest, GoesToItsServer, ConnectsAgain

LEMMA NextIInv == IInv /\ [Next]_vars => IInv'
<1> SUFFICES ASSUME IInv, [Next]_vars PROVE IInv'
  OBVIOUS
<1>1. CASE UNCHANGED vars
  BY <1>1 DEF vars, handles, IInv, Statements, OneConnection, HasRequest, GoesToItsServer,
              ConnectsAgain
<1> QED
  BY <1>1, SendIInv, ConnectIInv, OpenRequestIInv, ExchangeIInv, AnswerIInv, EndOfBodyIInv,
     PerformIInv DEF Next

-----------------------------------------------------------------------------
(* The theorems about the handles *)

\* The invariant holds in every state.
THEOREM Invariance == Spec => []IInv
<1>1. Init => IInv
  BY InitIInv
<1>2. IInv /\ [Next]_vars => IInv'
  BY NextIInv
<1> QED
  BY <1>1, <1>2, PTL DEF Spec

\* No request goes out over a connection that leads to another server.
THEOREM OwnServer == Spec => []GoesToItsServer
<1>1. IInv => GoesToItsServer
  BY DEF IInv
<1> QED
  BY <1>1, Invariance, PTL

\* Outside send() at most the connection that is kept is open, however many
\* requests there were and wherever they failed.
THEOREM HandlesClosed == Spec => []NoHandleLost
<1>1. IInv => NoHandleLost
  BY DEF IInv, OneConnection, HasRequest, NoHandleLost
<1> QED
  BY <1>1, Invariance, PTL

\* A request that fails for a connection has tried to make one.
THEOREM TriesToConnect == Spec => []ConnectsAgain
<1>1. IInv => ConnectsAgain
  BY DEF IInv
<1> QED
  BY <1>1, Invariance, PTL

-----------------------------------------------------------------------------
(* The header block: cookies and redirect *)

\* What a fold does to a set of positions, f being what it makes of fewer.
JarAt(lines, f, s) ==
  IF s = {} THEN Nothing.cookies
  ELSE LET x == Max(s) IN
     IF lines[x].name = "Set-Cookie" /\ lines[x].cookie # NoCookie
        THEN [(f[s \ {x}]) EXCEPT ![lines[x].cookie] = lines[x].value] ELSE f[s \ {x}]

\* The fold over the first k lines, as the function of the sets of positions.
Folded(lines, f, k) == f = [s \in SUBSET (1..k) |-> JarAt(lines, f, s)]

\* parseCookies() folds the lines, whatever they are.
LEMMA JarExists ==
  ASSUME NEW lines, NEW k \in Nat
  PROVE  \E f : Folded(lines, f, k)
<1> DEFINE S == {j \in Nat : \E f : Folded(lines, f, j)}
<1>1. 0 \in S
  <2> DEFINE g == [s \in SUBSET (1..0) |-> Nothing.cookies]
  <2>1. \A s \in SUBSET (1..0) : s = {}
    <3>1. 1..0 = {}
      OBVIOUS
    <3> QED
      BY <3>1
  <2>2. \A s \in SUBSET (1..0) : JarAt(lines, g, s) = Nothing.cookies
    BY <2>1 DEF JarAt
  <2>3. Folded(lines, g, 0)
    BY <2>2 DEF Folded
  <2> QED
    BY <2>3
<1>2. ASSUME NEW j \in Nat, j \in S PROVE j + 1 \in S
  <2>1. PICK f : Folded(lines, f, j)
    BY <1>2
  <2> DEFINE g == [s \in SUBSET (1..j + 1) |-> JarAt(lines, f, s)]
  <2>2. ASSUME NEW s \in SUBSET (1..j + 1) PROVE JarAt(lines, g, s) = JarAt(lines, f, s)
    <3>1. CASE s = {}
      BY <3>1 DEF JarAt
    <3>2. CASE s # {}
      <4> DEFINE t == s \ {Max(s)}
      <4>2. t \in SUBSET (1..j)
        BY <3>2, WithoutLast
      <4>3. t \in SUBSET (1..j + 1)
        OBVIOUS
      <4>4. f[t] = JarAt(lines, f, t)
        BY <2>1, <4>2 DEF Folded
      <4>5. g[t] = f[t]
        BY <4>3, <4>4
      <4> QED
        BY <3>2, <4>5 DEF JarAt
    <3> QED
      BY <3>1, <3>2
  <2>3. Folded(lines, g, j + 1)
    BY <2>2 DEF Folded
  <2> QED
    BY <2>3
<1>3. \A j \in Nat : j \in S
  <2> HIDE DEF S
  <2> QED
    BY <1>1, <1>2, NatSetInduction
<1> QED
  BY <1>3

\* The positions of the cookies of a name.
CookiesNamed(lines, n, s) == {i \in s : lines[i].name = "Set-Cookie" /\ lines[i].cookie = n}

\* The jar after the lines at the positions s.
IsJar(lines, s, jar) ==
  /\ jar \in [CookieName -> CookieValue \cup {NoCookie}]
  /\ \A n \in CookieName :
       jar[n] = IF CookiesNamed(lines, n, s) = {} THEN NoCookie
                ELSE lines[Max(CookiesNamed(lines, n, s))].value

\* A later line adds its cookie, or replaces the one of its name.
LEMMA JarStep ==
  ASSUME NEW lines \in Seq(Line), NEW s \in SUBSET (1..Len(lines)), s # {}, NEW f,
         IsJar(lines, s \ {Max(s)}, f[s \ {Max(s)}])
  PROVE  IsJar(lines, s, JarAt(lines, f, s))
<1> DEFINE x == Max(s)
           t == s \ {x}
           jar == f[t]
           l == lines[x]
           now == JarAt(lines, f, s)
<1> Len(lines) \in Nat
  OBVIOUS
<1>1. x \in s /\ \A y \in s : y <= x
  BY FirstAndLast
<1>2. x \in 1..Len(lines) /\ l \in Line
  BY <1>1
<1>3. l.value \in CookieValue /\ l.cookie \in CookieName \cup {NoCookie}
  BY <1>2 DEF Line
<1>4. jar \in [CookieName -> CookieValue \cup {NoCookie}]
  BY DEF IsJar
<1>5. now = IF l.name = "Set-Cookie" /\ l.cookie # NoCookie
              THEN [jar EXCEPT ![l.cookie] = l.value] ELSE jar
  BY DEF JarAt
<1> HIDE DEF now, jar, l
<1>6. now \in [CookieName -> CookieValue \cup {NoCookie}]
  BY <1>3, <1>4, <1>5
<1>7. ASSUME NEW n \in CookieName
      PROVE  now[n] = IF CookiesNamed(lines, n, s) = {} THEN NoCookie
                      ELSE lines[Max(CookiesNamed(lines, n, s))].value
  <2>1. jar[n] = IF CookiesNamed(lines, n, t) = {} THEN NoCookie
                 ELSE lines[Max(CookiesNamed(lines, n, t))].value
    BY DEF IsJar, jar
  <2>2. n # NoCookie
    BY HttpAssumption
  <2>3. CASE l.name = "Set-Cookie" /\ l.cookie = n
    <3>1. x \in CookiesNamed(lines, n, s)
      BY <1>1, <2>3 DEF CookiesNamed, l
    <3>2. CookiesNamed(lines, n, s) \in SUBSET (1..Len(lines)) /\ \A y \in CookiesNamed(lines, n, s) : y <= x
      BY <1>1 DEF CookiesNamed
    <3>3. Max(CookiesNamed(lines, n, s)) = x
      BY <3>1, <3>2, LastIs
    <3>4. now[n] = l.value
      BY <1>4, <1>5, <2>2, <2>3
    <3> QED
      BY <3>1, <3>3, <3>4 DEF l
  <2>4. CASE ~(l.name = "Set-Cookie" /\ l.cookie = n)
    <3>1. CookiesNamed(lines, n, s) = CookiesNamed(lines, n, t)
      BY <1>1, <2>4 DEF CookiesNamed, l
    <3>2. now[n] = jar[n]
      BY <1>4, <1>5, <2>4
    <3> QED
      BY <2>1, <3>1, <3>2
  <2> QED
    BY <2>3, <2>4
<1> QED
  BY <1>6, <1>7 DEF IsJar, now

\* Every set of positions gives the jar of its lines.
LEMMA FoldedJars ==
  ASSUME NEW lines \in Seq(Line), NEW f, Folded(lines, f, Len(lines))
  PROVE  \A s \in SUBSET (1..Len(lines)) : IsJar(lines, s, f[s])
<1> DEFINE S == {k \in Nat : k <= Len(lines) => \A s \in SUBSET (1..k) : IsJar(lines, s, f[s])}
<1> Len(lines) \in Nat
  OBVIOUS
<1>0. \A s \in SUBSET (1..Len(lines)) : f[s] = JarAt(lines, f, s)
  BY DEF Folded
<1>1. ASSUME NEW s, s = {} PROVE IsJar(lines, s, f[s])
  <2>1. f[s] = [n \in CookieName |-> NoCookie]
    BY <1>0, <1>1 DEF JarAt, Nothing
  <2>2. \A n \in CookieName : CookiesNamed(lines, n, s) = {}
    BY <1>1 DEF CookiesNamed
  <2> QED
    BY <2>1, <2>2 DEF IsJar
<1>2. 0 \in S
  <2>1. 1..0 = {}
    OBVIOUS
  <2> QED
    BY <1>1, <2>1
<1>3. ASSUME NEW k \in Nat, k \in S PROVE k + 1 \in S
  <2> SUFFICES ASSUME k + 1 <= Len(lines), NEW s \in SUBSET (1..k + 1) PROVE IsJar(lines, s, f[s])
    OBVIOUS
  <2>1. CASE s = {}
    BY <1>1, <2>1
  <2>2. CASE s # {}
    <3>1. s \in SUBSET (1..Len(lines))
      OBVIOUS
    <3>3. s \ {Max(s)} \in SUBSET (1..k)
      BY <2>2, WithoutLast
    <3>4. IsJar(lines, s \ {Max(s)}, f[s \ {Max(s)}])
      BY <1>3, <3>3
    <3> QED
      BY <1>0, <2>2, <3>1, <3>4, JarStep
  <2> QED
    BY <2>1, <2>2
<1>4. \A k \in Nat : k \in S
  <2> HIDE DEF S
  <2> QED
    BY <1>2, <1>3, NatSetInduction
<1> QED
  BY <1>4

\* parseCookies(): of each name the last cookie.
LEMMA ParsedCookies ==
  ASSUME NEW lines \in Seq(Line)
  PROVE  /\ ParseCookies(lines) \in [CookieName -> CookieValue \cup {NoCookie}]
         /\ \A n \in CookieName : ParseCookies(lines)[n] = LastCookie(lines, n)
<1> DEFINE f == CHOOSE f : Folded(lines, f, Len(lines))
<1>1. DOMAIN lines = 1..Len(lines) /\ Len(lines) \in Nat
  OBVIOUS
<1>2. ParseCookies(lines) = (CHOOSE g : g = [s \in SUBSET DOMAIN lines |-> JarAt(lines, g, s)])[DOMAIN lines]
  BY DEF ParseCookies, FoldLeft, MapThenFoldSet, JarAt
<1>3. ParseCookies(lines) = f[1..Len(lines)]
  BY <1>1, <1>2 DEF Folded
<1>4. Folded(lines, f, Len(lines))
  BY <1>1, JarExists
<1>5. IsJar(lines, 1..Len(lines), f[1..Len(lines)])
  BY <1>4, FoldedJars
<1>6. ASSUME NEW n \in CookieName PROVE ParseCookies(lines)[n] = LastCookie(lines, n)
  <2> DEFINE I == CookiesNamed(lines, n, 1..Len(lines))
  <2>1. ParseCookies(lines)[n] = IF I = {} THEN NoCookie ELSE lines[Max(I)].value
    BY <1>3, <1>5 DEF IsJar
  <2>2. LastCookie(lines, n) = LET last == IF I # {} THEN Max(I) ELSE 0
                               IN  IF last = 0 THEN NoCookie ELSE lines[last].value
    BY DEF LastCookie, SelectLastInSeq, CookiesNamed
  <2>3. I # {} => Max(I) # 0
    <3>1. I \in SUBSET (1..Len(lines))
      BY DEF CookiesNamed
    <3>2. I # {} => Max(I) \in I
      BY <1>1, <3>1, FirstAndLast
    <3> QED
      BY <3>1, <3>2
  <2> QED
    BY <2>1, <2>2, <2>3
<1> QED
  BY <1>3, <1>5, <1>6 DEF IsJar

\* findHeader(): a value of the block, and of the redirect if it names one.
LEMMA FoundLocation ==
  ASSUME NEW lines \in Seq(Line)
  PROVE  /\ FindLocation(lines) \in CookieValue \cup {NoCookie}
         /\ AsExpected(lines) => /\ FindLocation(lines) \in RedirectOf(lines) \cup {NoCookie}
                                 /\ RedirectOf(lines) # {} => FindLocation(lines) # NoCookie
<1> DEFINE I == {i \in 1..Len(lines) : lines[i].name \in {"Location", "Content-Location"}}
<1>1. DOMAIN lines = 1..Len(lines) /\ Len(lines) \in Nat
  OBVIOUS
<1>2. \A i \in 1..Len(lines) : lines[i] \in Line
  BY <1>1
<1>3. I # {} => Min(I) \in I /\ Min(I) # 0
  <2>1. I \in SUBSET (1..Len(lines)) /\ 0 \notin I
    OBVIOUS
  <2> HIDE DEF I
  <2>2. I # {} => Min(I) \in I
    BY <1>1, <2>1, FirstAndLast
  <2> QED
    BY <2>1, <2>2
<1>4. FindLocation(lines) = IF I = {} THEN NoCookie ELSE lines[Min(I)].value
  <2>1. FindLocation(lines) = LET first == IF I # {} THEN Min(I) ELSE 0
                              IN  IF first = 0 THEN NoCookie ELSE lines[first].value
    BY DEF FindLocation, SelectInSeq
  <2> QED
    BY <1>3, <2>1
<1>5. FindLocation(lines) \in CookieValue \cup {NoCookie}
  <2>1. \A i \in I : lines[i].value \in CookieValue
    BY <1>2 DEF Line
  <2> HIDE DEF I
  <2> QED
    BY <1>3, <1>4, <2>1
<1>6. ASSUME AsExpected(lines)
      PROVE  /\ FindLocation(lines) \in RedirectOf(lines) \cup {NoCookie}
             /\ RedirectOf(lines) # {} => FindLocation(lines) # NoCookie
  <2>1. I = {j \in DOMAIN lines : lines[j].name = "Location"}
    BY <1>1, <1>6 DEF AsExpected
  <2>2. \A i \in I : lines[i].value \in CookieValue
    BY <1>2 DEF Line
  <2>3. RedirectOf(lines) = {lines[i].value : i \in I}
    BY <2>1 DEF RedirectOf
  <2>4. NoCookie \notin CookieValue
    BY HttpAssumption
  <2> HIDE DEF I
  <2> QED
    BY <1>3, <1>4, <2>2, <2>3, <2>4
<1> QED
  BY <1>5, <1>6

\* The redirect of lines that name one at most.
LEMMA OneRedirect ==
  ASSUME NEW lines, AsExpected(lines), NEW v \in RedirectOf(lines)
  PROVE  v = Redirect(lines)
<1>1. \A u, w \in RedirectOf(lines) : u = w
  BY DEF AsExpected, RedirectOf
<1>2. RedirectOf(lines) # {}
  OBVIOUS
<1>3. (CHOOSE u \in RedirectOf(lines) : TRUE) \in RedirectOf(lines)
  BY <1>2
<1> QED
  BY <1>1, <1>2, <1>3 DEF Redirect

\* Of lines as they are expected, parseCookies() and findHeader() read what the
\* answer holds; of no lines, nothing.
LEMMA ReadOfExpected ==
  ASSUME NEW lines \in Seq(Line), AsExpected(lines)
  PROVE  ParseCookies(lines) = LastCookies(lines) /\ FindLocation(lines) = Redirect(lines)
<1>1. ParseCookies(lines) = LastCookies(lines)
  BY ParsedCookies DEF LastCookies
<1>2. CASE RedirectOf(lines) = {}
  BY <1>1, <1>2, FoundLocation DEF Redirect
<1>3. CASE RedirectOf(lines) # {}
  BY <1>1, <1>3, FoundLocation, OneRedirect
<1> QED
  BY <1>2, <1>3

LEMMA ReadOfNone ==
  /\ << >> \in Seq(Line)
  /\ ParseCookies(<< >>) = Nothing.cookies /\ FindLocation(<< >>) = NoCookie
<1> DEFINE none == << >>
<1>1. none \in Seq(Line) /\ DOMAIN none = {}
  OBVIOUS
<1>2. AsExpected(none) /\ Redirect(none) = NoCookie
  BY <1>1 DEF AsExpected, Redirect, RedirectOf
<1>3. ASSUME NEW n \in CookieName PROVE LastCookie(none, n) = NoCookie
  <2>1. SelectLastInSeq(none, LAMBDA l : l.name = "Set-Cookie" /\ l.cookie = n) = 0
    BY <1>1 DEF SelectLastInSeq
  <2> QED
    BY <2>1 DEF LastCookie
<1>4. LastCookies(none) = Nothing.cookies
  BY <1>3 DEF LastCookies, Nothing
<1> HIDE DEF none
<1>5. ParseCookies(none) = Nothing.cookies /\ FindLocation(none) = NoCookie
  BY <1>1, <1>2, <1>4, ReadOfExpected
<1> QED
  BY <1>1, <1>5 DEF none

-----------------------------------------------------------------------------
(* What has arrived at each statement *)

\* The redirects among the lines that curl has passed on.
RedirectsIn(lines, n) == {lines[i].value : i \in {j \in 1..n : lines[j].name = "Location"}}

NothingYet == answer = NoAnswer /\ response = Nothing

\* WinHttpClient has queried the headers, with or without success, and reads
\* the body.
HeaderOf(lines) ==
  response.cookies = ParseCookies(lines) /\ response.location = FindLocation(lines)
Queried ==
  /\ response.status \in {answer.status, 0}
  /\ HeaderOf(answer.lines) \/ HeaderOf(<< >>)
  /\ IsPrefix(response.body, answer.body)

\* CurlHttpClient is inside curl_easy_perform().
Receiving ==
  /\ response.status = 0
  /\ response.cookies = Nothing.cookies
  /\ response.location \in RedirectsIn(answer.lines, read) \cup {NoCookie}
  /\ RedirectsIn(answer.lines, read) # {} => response.location # NoCookie
  /\ IsPrefix(response.body, answer.body)

\* The statements of each client's send().
OfWin  == {"connect", "open", "exchange", "headers", "body"}
OfCurl == {"perform", "receive"}

\* Types, and what of the answer has come by each statement.
Arrives ==
  /\ client \in Clients /\ session \in BOOLEAN
  /\ {connection, current, server} \subseteq Server \cup {NoServer}
  /\ tried \in BOOLEAN
  /\ answer \in Answers \cup {NoAnswer} /\ read \in 0..Len(answer.lines)
  /\ response \in Response
  /\ pc \in OfWin => client = "WinHttpClient"
  /\ pc \in OfCurl => client = "CurlHttpClient"
  /\ pc \in {"connect", "open", "exchange", "perform"} => NothingYet
  /\ pc = "headers" => response = Nothing
  /\ pc = "body" => Queried
  /\ pc = "receive" => Receiving
  /\ ReturnsTheAnswer

\* The response before anything came.
LEMMA NothingIs ==
  /\ Nothing \in Response /\ Nothing.error = "" /\ Nothing.status = 0
  /\ Nothing.location = NoCookie /\ Nothing.body = << >>
  /\ \A n \in CookieName : Nothing.cookies[n] = NoCookie
<1>1. [n \in CookieName |-> NoCookie] \in [CookieName -> CookieValue \cup {NoCookie}]
  OBVIOUS
<1>2. << >> \in Seq(Piece) /\ 0 \in 0..599
  OBVIOUS
<1> QED
  BY <1>1, <1>2 DEF Nothing, Response

\* An answer has the fields of one, the placeholder included.
LEMMA AnswerIs ==
  ASSUME NEW a \in Answers \cup {NoAnswer}
  PROVE  a.status \in 100..599 /\ a.lines \in Seq(Line) /\ a.body \in Seq(Piece) /\ Len(a.lines) \in Nat
<1>1. CASE a = NoAnswer
  <2>1. a.status = 100 /\ a.lines = << >> /\ a.body = << >>
    BY <1>1 DEF NoAnswer
  <2> QED
    BY <2>1
<1>2. CASE a \in Answers
  <2>1. a \in Answer
    BY <1>2, HttpAssumption
  <2>2. a.status \in 100..599 /\ a.lines \in Seq(Line) /\ a.body \in Seq(Piece)
    BY <2>1 DEF Answer
  <2> QED
    BY <2>2
<1> QED
  BY <1>1, <1>2

\* What a response is after one field of it changed.
LEMMA ResponseError ==
  ASSUME NEW r \in Response, NEW e \in {"", "session", "connect", "request", "network"}
  PROVE  LET q == [r EXCEPT !.error = e]
         IN  /\ q \in Response /\ q.error = e /\ q.status = r.status /\ q.cookies = r.cookies
             /\ q.location = r.location /\ q.body = r.body
<1> DEFINE E == {"", "session", "connect", "request", "network"}
           C == 0..599
           J == [CookieName -> CookieValue \cup {NoCookie}]
           L == CookieValue \cup {NoCookie}
           B == Seq(Piece)
<1>1. Response = [error : E, status : C, cookies : J, location : L, body : B] /\ e \in E
  BY DEF Response
<1> HIDE DEF E, J, L, B, C
<1> QED
  BY <1>1

Codes == 0..599
LEMMA ResponseStatus ==
  ASSUME NEW r \in Response, NEW st \in Codes, NEW q, q = [r EXCEPT !.status = st]
  PROVE  /\ q \in Response /\ q.error = r.error /\ q.status = st /\ q.cookies = r.cookies
         /\ q.location = r.location /\ q.body = r.body
<1> DEFINE E == {"", "session", "connect", "request", "network"}
           J == [CookieName -> CookieValue \cup {NoCookie}]
           L == CookieValue \cup {NoCookie}
           B == Seq(Piece)
<1>1. Response = [error : E, status : Codes, cookies : J, location : L, body : B] /\ st \in Codes
  BY DEF Response, Codes
<1> HIDE DEF E, J, L, B
<1> QED
  BY <1>1

LEMMA ResponseLocation ==
  ASSUME NEW r \in Response, NEW v \in CookieValue \cup {NoCookie}
  PROVE  LET q == [r EXCEPT !.location = v]
         IN  /\ q \in Response /\ q.error = r.error /\ q.status = r.status /\ q.cookies = r.cookies
             /\ q.location = v /\ q.body = r.body
<1> DEFINE E == {"", "session", "connect", "request", "network"}
           C == 0..599
           J == [CookieName -> CookieValue \cup {NoCookie}]
           L == CookieValue \cup {NoCookie}
           B == Seq(Piece)
<1>1. Response = [error : E, status : C, cookies : J, location : L, body : B] /\ v \in L
  BY DEF Response
<1> HIDE DEF E, J, L, B, C
<1> QED
  BY <1>1

LEMMA ResponseBody ==
  ASSUME NEW r \in Response, NEW b \in Seq(Piece)
  PROVE  LET q == [r EXCEPT !.body = b]
         IN  /\ q \in Response /\ q.error = r.error /\ q.status = r.status /\ q.cookies = r.cookies
             /\ q.location = r.location /\ q.body = b
<1> DEFINE E == {"", "session", "connect", "request", "network"}
           C == 0..599
           J == [CookieName -> CookieValue \cup {NoCookie}]
           L == CookieValue \cup {NoCookie}
           B == Seq(Piece)
<1>1. Response = [error : E, status : C, cookies : J, location : L, body : B] /\ b \in B
  BY DEF Response
<1> HIDE DEF E, J, L, B, C
<1> QED
  BY <1>1

-----------------------------------------------------------------------------
(* Every step keeps what has arrived *)

\* What the answer under way looks like, whatever the state.
LEMMA Shapes ==
  ASSUME Arrives
  PROVE  /\ answer.status \in 100..599 /\ answer.lines \in Seq(Line) /\ answer.body \in Seq(Piece)
         /\ DOMAIN answer.lines = 1..Len(answer.lines) /\ Len(answer.lines) \in Nat
         /\ response \in Response /\ response.body \in Seq(Piece)
         /\ read \in Nat
<1>1. answer \in Answers \cup {NoAnswer} /\ response \in Response /\ read \in 0..Len(answer.lines)
  BY DEF Arrives
<1>2. answer.status \in 100..599 /\ answer.lines \in Seq(Line) /\ answer.body \in Seq(Piece)
  BY <1>1, AnswerIs
<1>3. DOMAIN answer.lines = 1..Len(answer.lines) /\ Len(answer.lines) \in Nat
  BY <1>2
<1>4. response.body \in Seq(Piece)
  BY <1>1 DEF Response
<1> QED
  BY <1>1, <1>2, <1>3, <1>4

LEMMA InitArrives == Init => Arrives
<1> SUFFICES ASSUME Init PROVE Arrives
  OBVIOUS
<1>1. response \in Response
  BY NothingIs DEF Init
<1>2. read \in 0..Len(answer.lines)
  <2>1. answer.lines = << >>
    BY DEF Init, NoAnswer
  <2> QED
    BY <2>1 DEF Init
<1>3. ReturnsTheAnswer
  BY DEF Init, ReturnsTheAnswer
<1> QED
  BY <1>1, <1>2, <1>3 DEF Init, Arrives, OfWin, OfCurl

LEMMA SendArrives ==
  ASSUME NEW s \in Server \cup {NoServer}, Arrives, Send(s)
  PROVE  Arrives'
<1>1. /\ client' = client /\ session' = session /\ connection' = connection /\ current' = current
      /\ server' = s /\ tried' = FALSE /\ answer' = NoAnswer /\ read' = 0
      /\ response' = [Nothing EXCEPT !.error = IF session THEN "" ELSE "session"]
      /\ pc' = IF ~session THEN "idle" ELSE IF client = "WinHttpClient" THEN "connect" ELSE "perform"
  BY DEF Send, handles
<1>2. client \in {"WinHttpClient", "CurlHttpClient"}
  BY HttpAssumption DEF Arrives
<1>3. response' \in Response
  BY <1>1, NothingIs, ResponseError
<1>4. read' \in 0..Len(answer'.lines)
  <2>1. answer'.lines = << >>
    BY <1>1 DEF NoAnswer
  <2>2. Len(answer'.lines) = 0
    BY <2>1
  <2>3. read' = 0
    BY <1>1
  <2> QED
    BY <2>2, <2>3
<1>5. session => response' = Nothing
  BY <1>1 DEF Nothing
<1>6. ReturnsTheAnswer'
  BY <1>1 DEF ReturnsTheAnswer
<1>7. pc' # "idle" => NothingYet' /\ session
  BY <1>1, <1>5 DEF NothingYet
<1>8. pc' \in {"idle", "connect", "perform"} /\ (pc' = "connect" => client = "WinHttpClient")
      /\ (pc' = "perform" => client = "CurlHttpClient")
  BY <1>1, <1>2
<1>9. {connection', current', server'} \subseteq Server \cup {NoServer}
  BY <1>1 DEF Arrives
<1>10. client' \in Clients /\ session' \in BOOLEAN /\ tried' \in BOOLEAN /\ answer' \in Answers \cup {NoAnswer}
  BY <1>1 DEF Arrives
<1>11. /\ pc' \in OfWin => client' = "WinHttpClient"
       /\ pc' \in OfCurl => client' = "CurlHttpClient"
       /\ pc' \in {"connect", "open", "exchange", "perform"} => NothingYet'
       /\ pc' \notin {"headers", "body", "receive"}
  BY <1>1, <1>7, <1>8 DEF OfWin, OfCurl
<1> QED
  BY <1>3, <1>4, <1>6, <1>9, <1>10, <1>11 DEF Arrives

\* A failure before the answer: there is nothing to return.
LEMMA FailsArrives ==
  ASSUME NEW e \in {"connect", "request", "network"}, Arrives, NothingYet, Fails(e),
         UNCHANGED <<client, session, server, answer, read>>, tried' \in BOOLEAN,
         {connection', current'} \subseteq Server \cup {NoServer}
  PROVE  Arrives'
<1>1. response' = [response EXCEPT !.error = e] /\ pc' = "idle"
  BY DEF Fails, Returns
<1>2. response' \in Response
  BY <1>1, ResponseError DEF Arrives
<1>3. ReturnsTheAnswer'
  BY DEF NothingYet, ReturnsTheAnswer
<1> QED
  BY <1>1, <1>2, <1>3 DEF Arrives, OfWin, OfCurl

LEMMA ConnectArrives == Arrives /\ Connect => Arrives'
<1> SUFFICES ASSUME Arrives, Connect PROVE Arrives'
  OBVIOUS
<1>1. NothingYet /\ client = "WinHttpClient"
  BY DEF Arrives, Connect, OfWin
<1>2. UNCHANGED <<client, session, server, answer, read>>
  BY DEF Connect
<1>3. tried' \in BOOLEAN /\ {connection', current'} \subseteq Server \cup {NoServer}
  <2>1. CASE IsStale
    BY <2>1 DEF Connect, Arrives
  <2>2. CASE ~IsStale
    BY <2>2 DEF Connect, Arrives
  <2> QED
    BY <2>1, <2>2
<1>4. CASE Fails("connect")
  BY <1>1, <1>2, <1>3, <1>4, FailsArrives
<1>5. CASE pc' = "open" /\ UNCHANGED response
  <2>1. ReturnsTheAnswer' /\ NothingYet'
    BY <1>1, <1>2, <1>5 DEF NothingYet, ReturnsTheAnswer
  <2> QED
    BY <1>1, <1>2, <1>3, <1>5, <2>1 DEF Arrives, OfWin, OfCurl
<1> QED
  BY <1>4, <1>5 DEF Connect

LEMMA OpenRequestArrives == Arrives /\ OpenRequest => Arrives'
<1> SUFFICES ASSUME Arrives, OpenRequest PROVE Arrives'
  OBVIOUS
<1>1. NothingYet /\ client = "WinHttpClient"
  BY DEF Arrives, OpenRequest, OfWin
<1>2. UNCHANGED <<client, session, server, answer, read>>
  BY DEF OpenRequest
<1>3. tried' \in BOOLEAN /\ {connection', current'} \subseteq Server \cup {NoServer}
  BY DEF OpenRequest, Arrives
<1>4. CASE Fails("request")
  BY <1>1, <1>2, <1>3, <1>4, FailsArrives
<1>5. CASE pc' = "exchange" /\ UNCHANGED response
  <2>1. ReturnsTheAnswer' /\ NothingYet'
    BY <1>1, <1>2, <1>5 DEF NothingYet, ReturnsTheAnswer
  <2> QED
    BY <1>1, <1>2, <1>3, <1>5, <2>1 DEF Arrives, OfWin, OfCurl
<1> QED
  BY <1>4, <1>5 DEF OpenRequest

LEMMA ExchangeArrives == Arrives /\ Exchange => Arrives'
<1> SUFFICES ASSUME Arrives, Exchange PROVE Arrives'
  OBVIOUS
<1>1. NothingYet /\ client = "WinHttpClient"
  BY DEF Arrives, Exchange, OfWin
<1>2. UNCHANGED <<client, session, connection, current, server, tried, read>>
  BY DEF Exchange
<1>3. CASE Fails("network") /\ UNCHANGED answer
  <2>1. tried' \in BOOLEAN /\ {connection', current'} \subseteq Server \cup {NoServer}
    BY <1>2 DEF Arrives
  <2> QED
    BY <1>1, <1>2, <1>3, <2>1, FailsArrives
<1>4. CASE answer' \in Answers /\ pc' = "headers" /\ UNCHANGED response
  <2>1. read' = 0
    BY <1>1, <1>2 DEF Arrives, NothingYet, NoAnswer
  <2>2. Len(answer'.lines) \in Nat
    BY <1>4, AnswerIs
  <2>3. ReturnsTheAnswer'
    BY <1>4 DEF ReturnsTheAnswer
  <2>4. response' = Nothing
    BY <1>1, <1>4 DEF NothingYet
  <2> QED
    BY <1>1, <1>2, <1>4, <2>1, <2>2, <2>3, <2>4 DEF Arrives, OfWin, OfCurl
<1> QED
  BY <1>3, <1>4 DEF Exchange

\* The redirect curl has passed on: it has one, or the lines are all read and
\* have none.
LEMMA LocationPassedOn ==
  ASSUME Arrives, Receiving, AsExpected(answer.lines),
         response.location # NoCookie \/ read = Len(answer.lines)
  PROVE  response.location = Redirect(answer.lines)
<1>1. /\ read \in 0..Len(answer.lines) /\ Len(answer.lines) \in Nat
      /\ DOMAIN answer.lines = 1..Len(answer.lines)
  BY Shapes DEF Arrives
<1>2. RedirectsIn(answer.lines, read) \subseteq RedirectOf(answer.lines)
  <2>1. \A j \in 1..read : j \in 1..Len(answer.lines)
    BY <1>1
  <2> QED
    BY <1>1, <2>1 DEF RedirectsIn, RedirectOf
<1>3. CASE response.location # NoCookie
  <2>1. response.location \in RedirectOf(answer.lines)
    BY <1>2, <1>3 DEF Receiving
  <2> QED
    BY <2>1, OneRedirect
<1>4. CASE response.location = NoCookie /\ read = Len(answer.lines)
  <2>1. RedirectOf(answer.lines) = RedirectsIn(answer.lines, read)
    BY <1>1, <1>4 DEF RedirectsIn, RedirectOf
  <2>2. RedirectOf(answer.lines) = {}
    BY <1>4, <2>1 DEF Receiving
  <2> QED
    BY <1>4, <2>2 DEF Redirect
<1> QED
  BY <1>3, <1>4

LEMMA QueryHeadersArrives == Arrives /\ QueryHeaders => Arrives'
<1> SUFFICES ASSUME Arrives, QueryHeaders PROVE Arrives'
  OBVIOUS
<1>1. /\ pc' = "body" /\ response = Nothing /\ client = "WinHttpClient"
      /\ UNCHANGED <<client, session, server, connection, current, tried, answer, read>>
  BY DEF Arrives, QueryHeaders, Step, handles, OfWin
<1>2. PICK st \in {answer.status, 0}, lines \in {answer.lines, << >>} :
        response' = [response EXCEPT !.status = st, !.cookies = ParseCookies(lines),
                                     !.location = FindLocation(lines)]
  BY DEF QueryHeaders
<1> DEFINE jar == ParseCookies(lines)
           place == FindLocation(lines)
<1>3. st \in 0..599 /\ lines \in Seq(Line) /\ answer.body \in Seq(Piece)
  <2>1. answer.status \in 100..599 /\ answer.lines \in Seq(Line) /\ answer.body \in Seq(Piece)
    BY Shapes
  <2>2. \A x \in 100..599 : x \in 0..599
    OBVIOUS
  <2>3. 0 \in 0..599
    OBVIOUS
  <2>4. st = answer.status \/ st = 0
    BY <1>2
  <2>5. lines = answer.lines \/ lines = << >>
    BY <1>2
  <2>6. lines \in Seq(Line)
    BY ONLY <2>1, <2>5, ReadOfNone
  <2>7. st \in 0..599
    <3>1. CASE st = answer.status
      <4>1. st \in 100..599
        BY ONLY <2>1, <3>1
      <4> QED
        BY ONLY <2>2, <4>1
    <3>2. CASE st = 0
      BY ONLY <2>3, <3>2
    <3> QED
      BY ONLY <2>4, <3>1, <3>2
  <2> QED
    BY ONLY <2>1, <2>6, <2>7
<1>4. jar \in [CookieName -> CookieValue \cup {NoCookie}] /\ place \in CookieValue \cup {NoCookie}
  BY <1>3, ParsedCookies, FoundLocation
<1>5. HeaderOf(answer.lines)' \/ HeaderOf(<< >>)' <=>
        \/ response'.cookies = ParseCookies(answer.lines) /\ response'.location = FindLocation(answer.lines)
        \/ response'.cookies = ParseCookies(<< >>) /\ response'.location = FindLocation(<< >>)
  BY <1>1 DEF HeaderOf
<1>6. (lines = answer.lines \/ lines = << >>) /\ (st = answer.status \/ st = 0)
  BY <1>2
<1> HIDE DEF jar, place
<1>7. response' = [error |-> "", status |-> st, cookies |-> jar, location |-> place, body |-> << >>]
  BY <1>1, <1>2 DEF Nothing, jar, place
<1>8. /\ response'.status = st /\ response'.cookies = jar
      /\ response'.location = place /\ response'.body = << >>
  BY <1>7
<1>9. response' \in Response
  <2>1. << >> \in Seq(Piece)
    OBVIOUS
  <2> QED
    BY <1>3, <1>4, <1>7, <2>1 DEF Response
<1>10. Queried'
  <2>1. IsPrefix(<< >>, answer.body)
    BY <1>3, EmptyPrefix
  <2>2. HeaderOf(answer.lines)' \/ HeaderOf(<< >>)'
    BY <1>5, <1>6, <1>8 DEF jar, place
  <2> QED
    BY <1>1, <1>6, <1>8, <2>1, <2>2 DEF Queried
<1>11. ReturnsTheAnswer'
  BY <1>1 DEF ReturnsTheAnswer
<1> QED
  BY <1>1, <1>9, <1>10, <1>11 DEF Arrives, OfWin, OfCurl

\* A piece of the body is the next of the answer's.
LEMMA BodyArrives ==
  ASSUME Arrives, Awaited, IsPrefix(response.body, answer.body)
  PROVE  LET r == Arrived(response)
         IN  /\ r \in Response /\ IsPrefix(r.body, answer.body)
             /\ r.error = response.error /\ r.status = response.status /\ r.cookies = response.cookies
             /\ r.location = response.location
<1> DEFINE b == Append(response.body, answer.body[Len(response.body) + 1])
<1>1. response.body \in Seq(Piece) /\ answer.body \in Seq(Piece) /\ response \in Response
  BY Shapes
<1>2. b \in Seq(Piece) /\ IsPrefix(b, answer.body)
  BY <1>1, NextOfPrefix DEF Awaited
<1>3. Arrived(response) = [response EXCEPT !.body = b]
  BY DEF Arrived
<1> HIDE DEF b
<1> QED
  BY <1>1, <1>2, <1>3, ResponseBody

LEMMA ReadDataArrives == Arrives /\ ReadData => Arrives'
<1> SUFFICES ASSUME Arrives, ReadData PROVE Arrives'
  OBVIOUS
<1>1. /\ pc = "body" /\ pc' = "body" /\ Awaited /\ response' = Arrived(response) /\ Queried
      /\ client = "WinHttpClient"
      /\ UNCHANGED <<client, session, server, connection, current, tried, answer, read>>
  BY DEF Arrives, ReadData, Step, handles, OfWin
<1>2. /\ response' \in Response /\ IsPrefix(response'.body, answer.body)
      /\ response'.status = response.status /\ response'.cookies = response.cookies
      /\ response'.location = response.location
  BY <1>1, BodyArrives DEF Queried
<1>3. Queried'
  BY <1>1, <1>2 DEF Queried, HeaderOf
<1>4. ReturnsTheAnswer'
  BY <1>1 DEF ReturnsTheAnswer
<1> QED
  BY <1>1, <1>2, <1>3, <1>4 DEF Arrives, OfWin, OfCurl

LEMMA EndOfBodyArrives == Arrives /\ response.error = "" /\ EndOfBody => Arrives'
<1> SUFFICES ASSUME Arrives, response.error = "", EndOfBody PROVE Arrives'
  OBVIOUS
<1>1. /\ pc = "body" /\ pc' = "idle" /\ response' = response /\ Queried /\ client = "WinHttpClient"
      /\ UNCHANGED <<client, session, server, connection, current, tried, answer, read>>
  BY DEF Arrives, EndOfBody, Step, OfWin
<1>2. answer.lines \in Seq(Line)
  BY Shapes
<1>3. AsExpected(answer.lines) =>
        \/ response.location = Redirect(answer.lines) /\ response.cookies = LastCookies(answer.lines)
        \/ response.location = NoCookie /\ response.cookies = Nothing.cookies
  BY <1>1, <1>2, ReadOfExpected, ReadOfNone DEF Queried, HeaderOf
<1>4. ReturnsTheAnswer'
  BY <1>1, <1>3 DEF Queried, ReturnsTheAnswer
<1> QED
  BY <1>1, <1>4 DEF Arrives, OfWin, OfCurl

LEMMA PerformArrives == Arrives /\ Perform => Arrives'
<1> SUFFICES ASSUME Arrives, Perform PROVE Arrives'
  OBVIOUS
<1>1. /\ pc = "perform" /\ pc' = "receive" /\ answer' \in Answers /\ response' = response
      /\ client = "CurlHttpClient" /\ NothingYet
      /\ UNCHANGED <<client, session, server, connection, current, tried, read>>
  BY DEF Arrives, Perform, Step, handles, OfCurl
<1>2. read' = 0
  BY <1>1 DEF Arrives, NothingYet, NoAnswer
<1>3. answer'.body \in Seq(Piece) /\ Len(answer'.lines) \in Nat
  BY <1>1, AnswerIs
<1>4. Receiving'
  <2>1. RedirectsIn(answer'.lines, read') = {}
    BY <1>2 DEF RedirectsIn
  <2>2. IsPrefix(<< >>, answer'.body)
    BY <1>3, EmptyPrefix
  <2>3. response' = Nothing
    BY <1>1 DEF NothingYet
  <2> QED
    BY <2>1, <2>2, <2>3, NothingIs DEF Receiving
<1>5. ReturnsTheAnswer'
  BY <1>1 DEF ReturnsTheAnswer
<1> QED
  BY <1>1, <1>2, <1>3, <1>4, <1>5 DEF Arrives, OfWin, OfCurl

LEMMA HeaderCallbackArrives == Arrives /\ HeaderCallback => Arrives'
<1> SUFFICES ASSUME Arrives, HeaderCallback PROVE Arrives'
  OBVIOUS
<1> DEFINE l == answer.lines[read + 1]
           v == Kept(l)
<1>1. /\ pc = "receive" /\ pc' = "receive" /\ read < Len(answer.lines) /\ read' = read + 1
      /\ response' = [response EXCEPT !.location = Kept(answer.lines[read'])]
      /\ client = "CurlHttpClient" /\ Receiving
      /\ UNCHANGED <<client, session, server, connection, current, tried, answer>>
  BY DEF Arrives, HeaderCallback, Step, handles, OfCurl
<1>2. read \in Nat /\ Len(answer.lines) \in Nat /\ response \in Response /\ answer.lines \in Seq(Line)
  BY Shapes
<1>3. read' \in 1..Len(answer.lines) /\ read' \in 0..Len(answer'.lines)
  BY <1>1, <1>2
<1>4. l \in Line
  BY <1>1, <1>2, <1>3
<1>5. l.value \in CookieValue /\ l.value # NoCookie
  BY <1>4, HttpAssumption DEF Line
<1>6. v \in CookieValue \cup {NoCookie}
  BY <1>2, <1>5 DEF Kept, Response
<1>7. response' = [response EXCEPT !.location = v]
  BY <1>1
<1>8. RedirectsIn(answer.lines, read') =
        RedirectsIn(answer.lines, read) \cup (IF l.name = "Location" THEN {l.value} ELSE {})
  BY <1>1, <1>2 DEF RedirectsIn
<1> HIDE DEF l
<1>9. /\ v \in RedirectsIn(answer.lines, read') \cup {NoCookie}
      /\ RedirectsIn(answer.lines, read') # {} => v # NoCookie
  <2>1. CASE l.name = "Location"
    BY <1>5, <1>8, <2>1 DEF Kept
  <2>2. CASE l.name # "Location"
    BY <1>1, <1>8, <2>2 DEF Kept, Receiving
  <2> QED
    BY <2>1, <2>2
<1> HIDE DEF v
<1>10. /\ response' \in Response /\ response'.location = v /\ response'.status = response.status
       /\ response'.cookies = response.cookies /\ response'.body = response.body
  BY <1>2, <1>6, <1>7, ResponseLocation
<1>11. Receiving'
  BY <1>1, <1>9, <1>10 DEF Receiving
<1>12. ReturnsTheAnswer'
  BY <1>1 DEF ReturnsTheAnswer
<1> QED
  BY <1>1, <1>3, <1>10, <1>11, <1>12 DEF Arrives, OfWin, OfCurl

LEMMA WriteCallbackArrives == Arrives /\ WriteCallback => Arrives'
<1> SUFFICES ASSUME Arrives, WriteCallback PROVE Arrives'
  OBVIOUS
<1>1. /\ pc = "receive" /\ pc' = "receive" /\ Awaited /\ response' = Arrived(response) /\ Receiving
      /\ client = "CurlHttpClient"
      /\ UNCHANGED <<client, session, server, connection, current, tried, answer, read>>
  BY DEF Arrives, WriteCallback, Step, handles, OfCurl
<1>2. /\ response' \in Response /\ IsPrefix(response'.body, answer.body)
      /\ response'.status = response.status /\ response'.cookies = response.cookies
      /\ response'.location = response.location
  BY <1>1, BodyArrives DEF Receiving
<1>3. Receiving'
  BY <1>1, <1>2 DEF Receiving
<1>4. ReturnsTheAnswer'
  BY <1>1 DEF ReturnsTheAnswer
<1> QED
  BY <1>1, <1>2, <1>3, <1>4 DEF Arrives, OfWin, OfCurl

LEMMA PerformReturnsArrives == Arrives /\ response.error = "" /\ PerformReturns => Arrives'
<1> SUFFICES ASSUME Arrives, response.error = "", PerformReturns PROVE Arrives'
  OBVIOUS
<1>1. /\ client = "CurlHttpClient" /\ pc \in {"perform", "receive"}
      /\ UNCHANGED <<client, session, server, connection, current, tried, answer, read>>
  BY DEF Arrives, PerformReturns, handles, OfCurl, Fails, Returns
<1>2. /\ answer.lines \in Seq(Line) /\ DOMAIN answer.lines = 1..Len(answer.lines) /\ read \in Nat
      /\ response \in Response /\ answer.status \in 0..599
      /\ response.body \in Seq(Piece) /\ answer.body \in Seq(Piece)
  <2>1. answer.status \in 100..599
    BY Shapes
  <2>2. answer.status \in 0..599
    BY ONLY <2>1
  <2> QED
    BY <2>2, Shapes
<1>4. CASE pc = "perform"
  <2>1. NothingYet /\ Fails("network")
    BY <1>4 DEF Arrives, PerformReturns
  <2>2. tried' \in BOOLEAN /\ {connection', current'} \subseteq Server \cup {NoServer}
    BY <1>1 DEF Arrives
  <2> QED
    BY <1>1, <2>1, <2>2, FailsArrives
<1>5. CASE pc = "receive" /\ Fails("network")
  <2>1. pc' = "idle" /\ response' = [response EXCEPT !.error = "network"] /\ Receiving
    BY <1>5 DEF Fails, Returns, Arrives
  <2>2. /\ response' \in Response /\ response'.error = "network" /\ response'.status = response.status
        /\ response'.cookies = response.cookies /\ response'.location = response.location
        /\ response'.body = response.body
    BY <1>2, <2>1, ResponseError
  <2>3. AsExpected(answer.lines) =>
          response.location = Redirect(answer.lines) \/ response.location = NoCookie
    BY <2>1, LocationPassedOn
  <2>4. ReturnsTheAnswer'
    BY <1>1, <2>1, <2>2, <2>3 DEF ReturnsTheAnswer, Receiving
  <2> QED
    BY <1>1, <2>1, <2>2, <2>4 DEF Arrives, OfWin, OfCurl
<1>6. CASE pc = "receive" /\ read = Len(answer.lines) /\ ~Awaited
           /\ Returns([response EXCEPT !.status = answer.status])
  <2>1. pc' = "idle" /\ response' = [response EXCEPT !.status = answer.status] /\ Receiving
    BY <1>6 DEF Returns, Arrives
  <2>2. /\ response' \in Response /\ response'.error = "" /\ response'.status = answer.status
        /\ response'.cookies = response.cookies /\ response'.location = response.location
        /\ response'.body = response.body
    <3>1. answer.status \in Codes /\ response \in Response
      BY <1>2 DEF Codes
    <3> DEFINE st == answer.status
               q == response'
    <3>2. response \in Response /\ st \in Codes /\ q = [response EXCEPT !.status = st]
      BY <2>1, <3>1
    <3> HIDE DEF st, q
    <3>3. /\ q \in Response /\ q.error = response.error /\ q.status = st
          /\ q.cookies = response.cookies /\ q.location = response.location /\ q.body = response.body
      BY ONLY <3>2, ResponseStatus
    <3>4. response.error = ""
      BY <1>6 DEF IInv
    <3> QED
      BY <3>3, <3>4 DEF st, q
  <2>3. response.body = answer.body
    BY <1>2, <1>6, <2>1, WholePrefix DEF Awaited, Receiving
  <2>4. AsExpected(answer.lines) => response.location = Redirect(answer.lines)
    BY <1>6, <2>1, LocationPassedOn
  <2>5. ReturnsTheAnswer'
    BY <1>1, <2>1, <2>2, <2>3, <2>4 DEF ReturnsTheAnswer, Receiving
  <2> QED
    BY <1>1, <2>1, <2>2, <2>5 DEF Arrives, OfWin, OfCurl
<1> QED
  BY <1>4, <1>5, <1>6 DEF PerformReturns

LEMMA NextArrives == IInv /\ Arrives /\ [Next]_vars => Arrives'
<1> SUFFICES ASSUME IInv, Arrives, [Next]_vars PROVE Arrives'
  OBVIOUS
<1>1. CASE UNCHANGED vars
  <2>1. ReturnsTheAnswer'
    BY <1>1 DEF vars, handles, Arrives, ReturnsTheAnswer
  <2> QED
    BY <1>1, <2>1 DEF vars, handles, Arrives, OfWin, OfCurl, NothingYet, Queried, HeaderOf, Receiving
<1>2. pc # "idle" => response.error = ""
  BY DEF IInv
<1>3. CASE EndOfBody \/ PerformReturns
  <2>1. pc # "idle"
    BY <1>3 DEF EndOfBody, PerformReturns, Step
  <2> QED
    BY <1>2, <1>3, <2>1, EndOfBodyArrives, PerformReturnsArrives
<1> QED
  BY <1>1, <1>3, SendArrives, ConnectArrives, OpenRequestArrives, ExchangeArrives,
     QueryHeadersArrives, ReadDataArrives, PerformArrives, HeaderCallbackArrives,
     WriteCallbackArrives DEF Next

-----------------------------------------------------------------------------
(* The theorems about what is returned *)

\* At every statement the response is what had arrived by then.
THEOREM ArrivesHolds == Spec => []Arrives
<1>1. Init => Arrives
  BY InitArrives
<1>2. IInv /\ Arrives /\ [Next]_vars => Arrives'
  BY NextArrives
<1> QED
  BY <1>1, <1>2, Invariance, PTL DEF Spec

\* Every variable keeps its type: the response is one on every return, the
\* cookies of WinHttpClient a map of names to values.
THEOREM TypeCorrect == Spec => []TypeOK
<1>1. IInv /\ Arrives => TypeOK
  <2> SUFFICES ASSUME IInv, Arrives PROVE TypeOK
    OBVIOUS
  <2>1. connections \in Nat /\ requests \in Nat
    BY DEF IInv, OneConnection
  <2>2. pc \in Statements
    BY DEF IInv
  <2> QED
    BY <2>1, <2>2 DEF Arrives, TypeOK, Statements
<1> QED
  BY <1>1, Invariance, ArrivesHolds, PTL

\* send() returns the router's answer: for every list of header lines the last
\* cookie of each name and the redirect, the body or a prefix of it, and
\* nothing that did not arrive.  Where the queries of WinHttpClient failed, the
\* status is 0 or there is nothing of the header lines.
THEOREM AnswerReturned == Spec => []ReturnsTheAnswer
<1>1. Arrives => ReturnsTheAnswer
  BY DEF Arrives
<1> QED
  BY <1>1, ArrivesHolds, PTL

-----------------------------------------------------------------------------
(* The clients implement HttpExchange *)

\* curl passes the body on when it has passed on the header lines.
HeadersFirst == pc = "receive" /\ read < Len(answer.lines) => response.body = << >>

LEMMA HeadersFirstHolds == Spec => []HeadersFirst
<1>1. Init => HeadersFirst
  BY DEF Init, HeadersFirst
<1>2. Arrives /\ HeadersFirst /\ [Next]_vars => HeadersFirst'
  <2> SUFFICES ASSUME Arrives, HeadersFirst, [Next]_vars PROVE HeadersFirst'
    OBVIOUS
  <2>1. CASE Perform
    <3>1. pc = "perform" /\ response' = response
      BY <2>1 DEF Perform, Step
    <3>2. response = Nothing
      BY <3>1 DEF Arrives, NothingYet
    <3>3. response'.body = << >>
      BY <3>1, <3>2, NothingIs
    <3> QED
      BY <3>3 DEF HeadersFirst
  <2>2. CASE HeaderCallback
    <3>1. /\ pc = "receive" /\ read < Len(answer.lines)
          /\ response' = [response EXCEPT !.location = Kept(answer.lines[read'])]
      BY <2>2 DEF HeaderCallback, Step
    <3>2. response \in Response
      BY DEF Arrives
    <3>3. response'.body = response.body
      BY <3>1, <3>2 DEF Response
    <3> QED
      BY <3>1, <3>3 DEF HeadersFirst
  <2>3. CASE WriteCallback
    <3>1. read' = read /\ answer' = answer /\ read = Len(answer.lines)
      BY <2>3 DEF WriteCallback
    <3>2. Len(answer.lines) \in Nat
      BY Shapes
    <3> QED
      BY <3>1, <3>2 DEF HeadersFirst
  <2>4. CASE UNCHANGED vars
    BY <2>4 DEF vars, HeadersFirst
  <2>5. CASE \/ \E s \in Server \cup {NoServer} : Send(s)
             \/ Connect \/ OpenRequest \/ Exchange \/ QueryHeaders \/ ReadData \/ EndOfBody
             \/ PerformReturns
    <3>1. pc' # "receive"
      BY <2>5 DEF Send, Connect, OpenRequest, Exchange, QueryHeaders, ReadData, EndOfBody,
                  PerformReturns, Step, Fails, Returns
    <3> QED
      BY <3>1 DEF HeadersFirst
  <2> QED
    BY <2>1, <2>2, <2>3, <2>4, <2>5 DEF Next
<1> QED
  BY <1>1, <1>2, ArrivesHolds, PTL DEF Spec

\* A response as the router client sees it; the two errors are named so that
\* the provers take them for values like the others.
ShownAs(e, st, c, l, p) == [error |-> e, status |-> st, cookies |-> c, location |-> l, page |-> p]
AnError == TRUE
NoError == FALSE

\* Its fields, and what changes with one of them.
LEMMA ShownFields ==
  ASSUME NEW e, NEW st, NEW c, NEW l, NEW p, NEW w, w = ShownAs(e, st, c, l, p)
  PROVE  w.error = e /\ w.status = st /\ w.cookies = c /\ w.location = l /\ w.page = p
  BY DEF ShownAs

LEMMA ShownError ==
  ASSUME NEW e, NEW st, NEW c, NEW l, NEW p, NEW w, w = ShownAs(e, st, c, l, p), NEW x
  PROVE  [w EXCEPT !.error = x] = ShownAs(x, st, c, l, p)
  BY DEF ShownAs

LEMMA ShownCookies ==
  ASSUME NEW e, NEW st, NEW c, NEW l, NEW p, NEW w, w = ShownAs(e, st, c, l, p), NEW x
  PROVE  [w EXCEPT !.cookies = x] = ShownAs(e, st, x, l, p)
  BY DEF ShownAs

LEMMA ShownPage ==
  ASSUME NEW e, NEW st, NEW c, NEW l, NEW p, NEW w, w = ShownAs(e, st, c, l, p), NEW x
  PROVE  [w EXCEPT !.page = x] = ShownAs(e, st, c, l, x)
  BY DEF ShownAs

LEMMA ShownLocation ==
  ASSUME NEW e, NEW st, NEW c, NEW l, NEW p, NEW w, w = ShownAs(e, st, c, l, p), NEW x, NEW y
  PROVE  [w EXCEPT !.location = x, !.page = y] = ShownAs(e, st, c, x, y)
<1> DEFINE u == [w EXCEPT !.location = x]
<1>1. u = ShownAs(e, st, c, x, p)
  BY DEF ShownAs
<1> HIDE DEF u
<1>2. [u EXCEPT !.page = y] = ShownAs(e, st, c, x, y)
  BY <1>1, ShownPage
<1> QED
  BY <1>2 DEF u

\* A response with an error and one without.
LEMMA ShownIs ==
  ASSUME NEW r
  PROVE  /\ r.error # "" => Shown(r) = ShownAs(AnError, r.status, r.cookies, r.location, r.body)
         /\ r.error = "" => Shown(r) = ShownAs(NoError, r.status, r.cookies, r.location, r.body)
<1>1. r.error # "" => (r.error # "") = AnError
  BY DEF AnError
<1>2. r.error = "" => (r.error # "") = NoError
  BY DEF NoError
<1> QED
  BY <1>1, <1>2 DEF Shown, ShownAs

\* What is shown of a request that failed before its answer came.
LEMMA ShownFailed == Promised!Failed = ShownAs(AnError, 0, Nothing.cookies, NoCookie, << >>)
<1> DEFINE w == Shown(Nothing)
<1>1. w = ShownAs(NoError, 0, Nothing.cookies, NoCookie, << >>)
  BY NothingIs, ShownIs
<1>2. Promised!Failed = [w EXCEPT !.error = AnError]
  BY DEF Promised!Failed, AnError
<1> HIDE DEF w
<1> QED
  BY <1>1, <1>2, ShownError

LEMMA ResponseFault ==
  ASSUME NEW r \in Response, NEW e, NEW q, q = [r EXCEPT !.error = e]
  PROVE  /\ q.error = e /\ q.status = r.status /\ q.cookies = r.cookies
         /\ q.location = r.location /\ q.body = r.body
  BY DEF Response

LEMMA ShownFailure ==
  ASSUME NEW e \in {"session", "connect", "request", "network"}, NEW q, q = [Nothing EXCEPT !.error = e]
  PROVE  Shown(q) = Promised!Failed
<1>1. /\ q.error = e /\ q.status = 0 /\ q.cookies = Nothing.cookies
      /\ q.location = NoCookie /\ q.body = << >>
  <2>1. Nothing \in Response /\ Nothing.status = 0 /\ Nothing.location = NoCookie /\ Nothing.body = << >>
    BY NothingIs
  <2> DEFINE n == Nothing
  <2>2. n \in Response /\ q = [n EXCEPT !.error = e]
    BY <2>1
  <2> HIDE DEF n
  <2>3. /\ q.error = e /\ q.status = n.status /\ q.cookies = n.cookies
        /\ q.location = n.location /\ q.body = n.body
    BY ONLY <2>2, ResponseFault
  <2> QED
    BY <2>1, <2>3 DEF n
<1>2. Shown(q) = ShownAs(AnError, 0, Nothing.cookies, NoCookie, << >>)
  BY <1>1, ShownIs
<1> QED
  BY <1>2, ShownFailed

\* A prefix of the body is a part of the page.
LEMMA BodyIsPart ==
  ASSUME Arrives, IsPrefix(response.body, answer.body)
  PROVE  response.body \in Promised!Parts(answer.body)
<1>1. response.body \in Seq(Piece) /\ answer.body \in Seq(Piece)
  BY Shapes
<1>2. Len(response.body) \in Nat /\ Len(answer.body) \in Nat /\ Len(response.body) <= Len(answer.body)
  BY <1>1, PrefixIs
<1>3. response.body = SubSeq(answer.body, 1, Len(response.body))
  <2>1. SubSeq(response.body, 1, Len(response.body)) = response.body
    BY <1>1
  <2> QED
    BY <2>1 DEF IsPrefix
<1> QED
  BY <1>2, <1>3 DEF Promised!Parts

\* An answer as a response, field by field.
LEMMA WireFields ==
  ASSUME NEW a
  PROVE  /\ OnTheWire(a).clear = AsExpected(a.lines)
         /\ OnTheWire(a).response = ShownAs(NoError, a.status, LastCookies(a.lines), Redirect(a.lines), a.body)
  BY DEF OnTheWire, ShownAs, NoError, LastCookies

\* What send() may return of the answer on its way.
Returnable(a, q) ==
  \E r \in Promised!Outcomes(OnTheWire(a).response) :
    IF OnTheWire(a).clear THEN Shown(q) = r ELSE Promised!SameButHeader(Shown(q), r)

\* It is enough to name an outcome, the same as what is shown or, if the answer
\* is not clear, the same but for the header.
LEMMA ReturnableIf ==
  ASSUME NEW a, NEW q, NEW e, NEW st, NEW c, NEW l, NEW p, NEW d, NEW m,
         Shown(q) = ShownAs(e, st, c, l, p),
         ShownAs(e, st, d, m, p) \in Promised!Outcomes(OnTheWire(a).response),
         AsExpected(a.lines) => c = d /\ l = m
  PROVE  Returnable(a, q)
<1> DEFINE u == Shown(q)
           r == ShownAs(e, st, d, m, p)
<1>1. u = ShownAs(e, st, c, l, p) /\ r \in Promised!Outcomes(OnTheWire(a).response)
  OBVIOUS
<1>2. AsExpected(a.lines) => u = r
  BY <1>1
<1>3. r = ShownAs(e, st, d, m, p)
  OBVIOUS
<1> HIDE DEF u, r
<1>4. Promised!SameButHeader(u, r)
  BY <1>1, <1>3, ShownFields DEF Promised!SameButHeader
<1>5. OnTheWire(a).clear = AsExpected(a.lines)
  BY WireFields
<1>6. \E s \in Promised!Outcomes(OnTheWire(a).response) :
        IF AsExpected(a.lines) THEN u = s ELSE Promised!SameButHeader(u, s)
  BY <1>1, <1>2, <1>4
<1> QED
  BY <1>5, <1>6 DEF Returnable, u

LEMMA ShownStatus ==
  ASSUME NEW e, NEW st, NEW c, NEW l, NEW p, NEW w, w = ShownAs(e, st, c, l, p), NEW x
  PROVE  [w EXCEPT !.status = x] = ShownAs(e, x, c, l, p)
  BY DEF ShownAs

\* The answer, or what is left of it when the calls for the status or the
\* header lines failed.
LEMMA ShownDelivered ==
  ASSUME NEW e, NEW st, NEW c, NEW l, NEW p, NEW w, w = ShownAs(e, st, c, l, p),
         NEW x, NEW y, NEW h
  PROVE  Promised!ReadAs(w, x, y, h) = ShownAs(e, y, h.cookies, h.location, x)
<1> DEFINE u == h.cookies
           v == h.location
           a == [w EXCEPT !.page = x]
           b == [a EXCEPT !.status = y]
           d == [b EXCEPT !.cookies = u]
           g == [d EXCEPT !.location = v]
<1>1. Promised!ReadAs(w, x, y, h) = g
  BY DEF Promised!ReadAs
<1> HIDE DEF u, v
<1>2. a = ShownAs(e, st, c, l, x)
  BY ShownPage
<1> HIDE DEF a
<1>3. b = ShownAs(e, y, c, l, x)
  BY <1>2, ShownStatus
<1> HIDE DEF b
<1>4. d = ShownAs(e, y, u, l, x)
  BY <1>3, ShownCookies
<1> HIDE DEF d
<1>5. g = ShownAs(e, y, u, v, x)
  BY <1>4 DEF ShownAs
<1> HIDE DEF g
<1> QED
  BY <1>1, <1>5 DEF u, v

\* The outcomes of the two clients.
LEMMA CutOutcome ==
  ASSUME client = "WinHttpClient", NEW st, NEW c, NEW l, NEW p, NEW w, w = ShownAs(NoError, st, c, l, p),
         NEW b \in Promised!Parts(p), NEW s \in {st, 0}
  PROVE  /\ ShownAs(NoError, s, c, l, b) \in Promised!Outcomes(w)
         /\ ShownAs(NoError, s, Nothing.cookies, NoCookie, b) \in Promised!Outcomes(w)
<1> DEFINE f == Promised!Failed
           j == Nothing.cookies
           x == NoCookie
           z == 0
<1>1. w.page = p /\ w.status = st /\ w.cookies = c /\ w.location = l
  BY ShownFields
<1>2. f = ShownAs(AnError, z, j, x, << >>)
  BY ShownFailed
<1> HIDE DEF f, j, x
<1>3. f.status = z /\ f.cookies = j /\ f.location = x
  BY <1>2, ShownFields
<1>4. /\ ShownAs(NoError, s, w.cookies, w.location, b) \in Promised!WinHttpDelivers(w, Promised!Parts(p), f)
      /\ ShownAs(NoError, s, f.cookies, f.location, b) \in Promised!WinHttpDelivers(w, Promised!Parts(p), f)
  <2>1. ASSUME NEW h \in {w, f}
        PROVE  ShownAs(NoError, s, h.cookies, h.location, b) \in Promised!WinHttpDelivers(w, Promised!Parts(p), f)
    <3>1. s \in {w.status, f.status}
      BY <1>1, <1>3
    <3>2. Promised!ReadAs(w, b, s, h) \in Promised!WinHttpDelivers(w, Promised!Parts(p), f)
      BY <3>1 DEF Promised!WinHttpDelivers
    <3>3. Promised!ReadAs(w, b, s, h) = ShownAs(NoError, s, h.cookies, h.location, b)
      BY ShownDelivered
    <3> QED
      BY <3>2, <3>3
  <2> QED
    BY <2>1
<1>5. Promised!WinHttpDelivers(w, Promised!Parts(p), f) \subseteq Promised!Outcomes(w)
  BY <1>1 DEF Promised!Outcomes, Promised!DeliveredBy, f
<1> QED
  BY <1>1, <1>3, <1>4, <1>5 DEF j, x

LEMMA WholeOutcome ==
  ASSUME client = "CurlHttpClient", NEW st, NEW c, NEW l, NEW p, NEW w, w = ShownAs(NoError, st, c, l, p)
  PROVE  ShownAs(NoError, st, Nothing.cookies, l, p) \in Promised!Outcomes(w)
<1> DEFINE f == Promised!Failed
           j == Nothing.cookies
<1>1. [w EXCEPT !.cookies = f.cookies] \in Promised!Outcomes(w)
  BY DEF Promised!Outcomes, Promised!DeliveredBy, Promised!CurlDelivers
<1>2. f = ShownAs(AnError, 0, j, NoCookie, << >>)
  BY ShownFailed
<1> HIDE DEF f, j
<1>3. f.cookies = j
  BY <1>2, ShownFields
<1>4. [w EXCEPT !.cookies = j] = ShownAs(NoError, st, j, l, p)
  BY ShownCookies
<1> QED
  BY <1>1, <1>3, <1>4 DEF j

LEMMA BrokenOutcome ==
  ASSUME client = "CurlHttpClient", NEW st, NEW c, NEW l, NEW p, NEW w, w = ShownAs(NoError, st, c, l, p),
         NEW b \in Promised!Parts(p)
  PROVE  /\ ShownAs(AnError, 0, Nothing.cookies, NoCookie, << >>) \in Promised!Outcomes(w)
         /\ ShownAs(AnError, 0, Nothing.cookies, l, b) \in Promised!Outcomes(w)
<1> DEFINE f == Promised!Failed
           j == Nothing.cookies
<1>1. w.page = p /\ w.location = l
  BY ShownFields
<1>2. {f, [f EXCEPT !.location = l, !.page = b]} \subseteq Promised!Outcomes(w)
  BY <1>1 DEF Promised!Outcomes, Promised!BrokenBy, Promised!CurlBreaks
<1>3. f = ShownAs(AnError, 0, j, NoCookie, << >>)
  BY ShownFailed
<1> DEFINE x == NoCookie
           y == << >>
           z == 0
<1>4. f = ShownAs(AnError, z, j, x, y)
  BY <1>3
<1> HIDE DEF f, j, x, y, z
<1>5. [f EXCEPT !.location = l, !.page = b] = ShownAs(AnError, z, j, l, b)
  <2> DEFINE u == [f EXCEPT !.location = l]
  <2>1. u = ShownAs(AnError, z, j, l, y)
    BY <1>4 DEF ShownAs
  <2> HIDE DEF u
  <2>2. [u EXCEPT !.page = b] = ShownAs(AnError, z, j, l, b)
    BY ONLY <2>1, ShownPage
  <2> QED
    BY <2>2 DEF u
<1> QED
  BY <1>2, <1>3, <1>5 DEF j, z

\* WinHttpClient, at the end of the body or where it broke off.
LEMMA QueriedReturnable ==
  ASSUME Arrives, Queried, client = "WinHttpClient", response.error = ""
  PROVE  Returnable(answer, response)
<1> DEFINE w == OnTheWire(answer).response
           st == answer.status
           d == LastCookies(answer.lines)
           m == Redirect(answer.lines)
           p == answer.body
           b == response.body
           s == response.status
           c == response.cookies
           l == response.location
           j == Nothing.cookies
           clear == AsExpected(answer.lines)
<1>1. w = ShownAs(NoError, st, d, m, p)
  BY WireFields
<1>2. b \in Promised!Parts(p) /\ s \in {st, 0}
  BY BodyIsPart DEF Queried
<1>3. Shown(response) = ShownAs(NoError, s, c, l, b)
  BY ShownIs
<1>4. (clear => c = d /\ l = m) \/ (c = j /\ l = NoCookie)
  <2>1. answer.lines \in Seq(Line)
    BY Shapes
  <2> QED
    BY <2>1, ReadOfExpected, ReadOfNone DEF Queried, HeaderOf
<1> HIDE DEF w, st, d, m, p, b, s, c, l, j, clear
<1>5. /\ ShownAs(NoError, s, d, m, b) \in Promised!Outcomes(w)
      /\ ShownAs(NoError, s, j, NoCookie, b) \in Promised!Outcomes(w)
  BY <1>1, <1>2, CutOutcome DEF j
<1>6. CASE clear => c = d /\ l = m
  <2>1. ShownAs(NoError, s, d, m, b) \in Promised!Outcomes(OnTheWire(answer).response)
    BY <1>5 DEF w
  <2> QED
    BY <1>3, <1>6, <2>1, ReturnableIf DEF clear
<1>7. CASE c = j /\ l = NoCookie
  <2>1. ShownAs(NoError, s, j, NoCookie, b) \in Promised!Outcomes(OnTheWire(answer).response)
    BY <1>5 DEF w
  <2> QED
    BY <1>3, <1>7, <2>1, ReturnableIf
<1> QED
  BY <1>4, <1>6, <1>7

\* What curl has passed on when the transfer fails.
LEMMA BrokenReturnable ==
  ASSUME Arrives, Receiving, HeadersFirst, pc = "receive", client = "CurlHttpClient",
         NEW q, q = [response EXCEPT !.error = "network"]
  PROVE  Returnable(answer, q)
<1> DEFINE w == OnTheWire(answer).response
           st == answer.status
           d == LastCookies(answer.lines)
           m == Redirect(answer.lines)
           p == answer.body
           b == response.body
           j == Nothing.cookies
           l == response.location
           x == AsExpected(answer.lines)
<1>1. w = ShownAs(NoError, st, d, m, p)
  BY WireFields
<1>2. b \in Promised!Parts(p)
  BY BodyIsPart DEF Receiving
<1>3. Shown(q) = ShownAs(AnError, 0, j, l, b)
  <2>1. /\ q.error = "network" /\ q.status = response.status /\ q.cookies = response.cookies
        /\ q.location = response.location /\ q.body = response.body
    BY ResponseError DEF Arrives
  <2> QED
    BY <2>1, ShownIs DEF Receiving
<1>4. x /\ ~(l = NoCookie /\ b = << >>) => l = m
  <2> SUFFICES ASSUME x, ~(l = NoCookie /\ b = << >>) PROVE l = m
    OBVIOUS
  <2>1. response.location # NoCookie \/ read = Len(answer.lines)
    <3>1. read \in 0..Len(answer.lines) /\ Len(answer.lines) \in Nat
      BY Shapes DEF Arrives
    <3> QED
      BY <3>1 DEF HeadersFirst
  <2> QED
    BY <2>1, LocationPassedOn
<1> HIDE DEF w, st, d, m, p, b, j, l, x
<1>5. /\ ShownAs(AnError, 0, j, NoCookie, << >>) \in Promised!Outcomes(w)
      /\ ShownAs(AnError, 0, j, m, b) \in Promised!Outcomes(w)
  BY <1>1, <1>2, BrokenOutcome DEF j
<1>6. CASE l = NoCookie /\ b = << >>
  <2>1. ShownAs(AnError, 0, j, l, b) \in Promised!Outcomes(OnTheWire(answer).response)
    BY <1>5, <1>6 DEF w
  <2> QED
    BY <1>3, <2>1, ReturnableIf
<1>7. CASE ~(l = NoCookie /\ b = << >>)
  <2>1. ShownAs(AnError, 0, j, m, b) \in Promised!Outcomes(OnTheWire(answer).response)
    BY <1>5 DEF w
  <2>2. AsExpected(answer.lines) => j = j /\ l = m
    BY <1>4, <1>7 DEF x
  <2> QED
    BY <1>3, <2>1, <2>2, ReturnableIf
<1> QED
  BY <1>6, <1>7

\* The same when the transfer is complete.
LEMMA CompleteReturnable ==
  ASSUME Arrives, Receiving, pc = "receive", client = "CurlHttpClient", response.error = "",
         read = Len(answer.lines), ~Awaited, NEW q, q = [response EXCEPT !.status = answer.status]
  PROVE  Returnable(answer, q)
<1> DEFINE w == OnTheWire(answer).response
           st == answer.status
           d == LastCookies(answer.lines)
           m == Redirect(answer.lines)
           p == answer.body
           j == Nothing.cookies
           l == response.location
<1>1. w = ShownAs(NoError, st, d, m, p)
  BY WireFields
<1>2. AsExpected(answer.lines) => j = j /\ l = m
  BY LocationPassedOn
<1>3. response \in Response /\ st \in Codes /\ q = [response EXCEPT !.status = st]
  <2>1. answer.status \in 100..599
    BY Shapes
  <2>2. answer.status \in Codes
    BY ONLY <2>1 DEF Codes
  <2> QED
    BY <2>2, Shapes
<1>4. response.body = p
  <2>1. response.body \in Seq(Piece) /\ answer.body \in Seq(Piece)
    BY Shapes
  <2> QED
    BY <2>1, WholePrefix DEF Awaited, Receiving
<1> HIDE DEF w, st, d, m, p, j
<1>5. /\ q.error = response.error /\ q.status = st /\ q.cookies = response.cookies
      /\ q.location = response.location /\ q.body = response.body
  BY ONLY <1>3, ResponseStatus
<1>6. Shown(q) = ShownAs(NoError, st, j, l, p)
  BY <1>4, <1>5, ShownIs DEF Receiving, j
<1> HIDE DEF l
<1>7. ShownAs(NoError, st, j, m, p) \in Promised!Outcomes(OnTheWire(answer).response)
  <2>1. ShownAs(NoError, st, j, m, p) \in Promised!Outcomes(w)
    BY <1>1, WholeOutcome DEF j
  <2> QED
    BY <2>1 DEF w
<1> QED
  BY <1>2, <1>6, <1>7, ReturnableIf

(* The steps *)

LEMMA PromisedInit == Init => Promised!ExchangeInit
  BY DEF Init, Promised!ExchangeInit, Phase, OnItsWay, Returned

\* A statement that asks nothing new and returns nothing is no step of the exchange.
LEMMA PhaseStays ==
  ASSUME Phase' = Phase, UNCHANGED <<client, answer>>, Phase = "answered" \/ UNCHANGED response
  PROVE  UNCHANGED Promised!exchangeVars
  BY DEF Promised!exchangeVars, OnItsWay, Returned

\* A failure before the answer.
LEMMA FailPromised ==
  ASSUME Arrives, Phase = "asked", NothingYet, NEW e \in {"connect", "request", "network"}, Fails(e),
         UNCHANGED client
  PROVE  Promised!Fail
<1>1. pc' = "idle" /\ response' = [Nothing EXCEPT !.error = e]
  BY DEF Fails, Returns, NothingYet
<1>2. Phase' = "idle"
  BY <1>1 DEF Phase
<1>3. Returned' = Promised!Failed
  BY <1>1, <1>2, ShownFailure DEF Returned
<1>4. OnItsWay' = OnItsWay
  BY <1>2 DEF OnItsWay
<1> QED
  BY <1>2, <1>3, <1>4 DEF Promised!Fail

\* The router's answer.
LEMMA AnswerPromised ==
  ASSUME Phase = "asked", Phase' = "answered", answer' \in Answers, UNCHANGED client
  PROVE  Promised!RouterAnswers
<1>1. OnItsWay' \in WireAnswers
  BY DEF OnItsWay, WireAnswers
<1>2. Returned' = Returned
  BY DEF Returned
<1> QED
  BY <1>1, <1>2 DEF Promised!RouterAnswers

\* The return of what came.
LEMMA ReturnPromised ==
  ASSUME Phase = "answered", pc' = "idle", UNCHANGED client, Returnable(answer, response')
  PROVE  Promised!Return
<1>1. Phase' = "idle"
  BY DEF Phase
<1>2. OnItsWay = OnTheWire(answer) /\ OnItsWay' = OnTheWire(NoAnswer) /\ Returned' = Shown(response')
  BY <1>1 DEF OnItsWay, Returned
<1> QED
  BY <1>1, <1>2 DEF Promised!Return, Returnable

LEMMA SendPromised ==
  ASSUME NEW s, Send(s), client \in {"WinHttpClient", "CurlHttpClient"}, session \in BOOLEAN
  PROVE  Promised!Refuse \/ Promised!Ask
<1>1. Phase = "idle" /\ OnItsWay = OnTheWire(NoAnswer) /\ client' = client
  BY DEF Send, Phase, OnItsWay
<1>2. CASE session
  <2>1. Phase' = "asked"
    BY <1>2 DEF Send, Phase
  <2>2. Returned' = Shown(Nothing) /\ OnItsWay' = OnItsWay
    BY <1>1, <2>1 DEF Returned, OnItsWay
  <2> QED
    BY <1>1, <2>1, <2>2 DEF Promised!Ask
<1>3. CASE ~session
  <2>1. pc' = "idle" /\ response' = [Nothing EXCEPT !.error = "session"]
    BY <1>3 DEF Send
  <2>2. Phase' = "idle"
    BY <2>1 DEF Phase
  <2>3. Returned' = Promised!Failed /\ OnItsWay' = OnItsWay
    BY <1>1, <2>1, <2>2, ShownFailure DEF Returned, OnItsWay
  <2> QED
    BY <1>1, <2>2, <2>3 DEF Promised!Refuse
<1> QED
  BY <1>2, <1>3

LEMMA PromisedStep ==
  ASSUME IInv, Arrives, HeadersFirst, [Next]_vars
  PROVE  [Promised!ExchangeNext]_(Promised!exchangeVars)
<1>1. CASE UNCHANGED vars
  <2>1. Phase' = Phase
    BY <1>1 DEF vars, Phase
  <2> QED
    BY <1>1, <2>1, PhaseStays DEF vars
<1>2. CASE \E s \in Server \cup {NoServer} : Send(s)
  <2>1. client \in {"WinHttpClient", "CurlHttpClient"} /\ session \in BOOLEAN
    BY HttpAssumption DEF Arrives
  <2> QED
    BY <1>2, <2>1, SendPromised DEF Promised!ExchangeNext
<1>3. ASSUME NEW e \in {"connect", "request", "network"}, Fails(e), UNCHANGED client,
             pc \in {"connect", "open", "exchange", "perform"}
      PROVE  Promised!ExchangeNext
  <2>1. NothingYet /\ Phase = "asked"
    BY <1>3 DEF Arrives, Phase
  <2> QED
    BY <1>3, <2>1, FailPromised DEF Promised!ExchangeNext
<1>4. CASE Connect \/ OpenRequest
  <2>1. UNCHANGED <<client, answer>> /\ pc \in {"connect", "open"}
    BY <1>4 DEF Connect, OpenRequest
  <2>2. \/ Fails("connect") \/ Fails("request")
        \/ pc' \in {"open", "exchange"} /\ UNCHANGED response
    BY <1>4 DEF Connect, OpenRequest
  <2>3. CASE pc' \in {"open", "exchange"} /\ UNCHANGED response
    <3>1. Phase' = Phase
      BY <2>1, <2>3 DEF Phase
    <3> QED
      BY <2>1, <2>3, <3>1, PhaseStays
  <2> QED
    BY <1>3, <2>1, <2>2, <2>3
<1>5. CASE Exchange \/ Perform
  <2>1. UNCHANGED client /\ pc \in {"exchange", "perform"}
    BY <1>5 DEF Exchange, Perform, Step
  <2>2. Fails("network") \/ (answer' \in Answers /\ pc' \in {"headers", "receive"})
    BY <1>5 DEF Exchange, Perform, Step
  <2>3. CASE answer' \in Answers /\ pc' \in {"headers", "receive"}
    <3>1. Phase = "asked" /\ Phase' = "answered"
      BY <2>1, <2>3 DEF Phase
    <3> QED
      BY <2>1, <2>3, <3>1, AnswerPromised DEF Promised!ExchangeNext
  <2> QED
    BY <1>3, <2>1, <2>2, <2>3
<1>6. CASE QueryHeaders \/ ReadData \/ HeaderCallback \/ WriteCallback
  <2>1. UNCHANGED <<client, answer>> /\ {pc, pc'} \subseteq {"headers", "body", "receive"}
    BY <1>6 DEF QueryHeaders, ReadData, HeaderCallback, WriteCallback, Step
  <2>2. Phase = "answered" /\ Phase' = Phase
    BY <2>1 DEF Phase
  <2> QED
    BY <2>1, <2>2, PhaseStays
<1>7. CASE EndOfBody
  <2>1. /\ pc = "body" /\ pc' = "idle" /\ UNCHANGED <<client, response>> /\ Queried
        /\ client = "WinHttpClient" /\ response.error = ""
    BY <1>7 DEF EndOfBody, Step, Arrives, OfWin, IInv
  <2>2. Phase = "answered" /\ Returnable(answer, response')
    BY <2>1, QueriedReturnable DEF Phase
  <2> QED
    BY <2>1, <2>2, ReturnPromised DEF Promised!ExchangeNext
<1>8. CASE PerformReturns
  <2>1. UNCHANGED client /\ pc \in {"perform", "receive"} /\ client = "CurlHttpClient"
        /\ (pc = "receive" => Receiving) /\ response.error = ""
    BY <1>8 DEF PerformReturns, Arrives, OfCurl, IInv
  <2>2. CASE pc = "perform"
    BY <1>3, <1>8, <2>1, <2>2 DEF PerformReturns
  <2>3. CASE pc = "receive"
    <3>1. Phase = "answered"
      BY <2>3 DEF Phase
    <3>2. pc' = "idle" /\ Returnable(answer, response')
      <4>1. CASE Fails("network")
        BY <2>1, <2>3, <4>1, BrokenReturnable DEF Fails, Returns
      <4>2. CASE /\ read = Len(answer.lines) /\ ~Awaited
                 /\ Returns([response EXCEPT !.status = answer.status])
        BY <2>1, <2>3, <4>2, CompleteReturnable DEF Returns
      <4> QED
        BY <1>8, <4>1, <4>2 DEF PerformReturns
    <3> QED
      BY <2>1, <3>1, <3>2, ReturnPromised DEF Promised!ExchangeNext
  <2> QED
    BY <2>1, <2>2, <2>3
<1> QED
  BY <1>1, <1>2, <1>4, <1>5, <1>6, <1>7, <1>8 DEF Next

(***************************************************************************)
(* What ManagedRouter takes send() for is what both clients make of it, in *)
(* any number of steps and whichever library call fails: one request, and  *)
(* its answer, a part of it, or an error.                                  *)
(***************************************************************************)
THEOREM RefinesHttpExchange == Spec => ImplementsHttpExchange
<1>1. Init => Promised!ExchangeInit
  BY PromisedInit
<1>2. IInv /\ Arrives /\ HeadersFirst /\ [Next]_vars
        => [Promised!ExchangeNext]_(Promised!exchangeVars)
  BY PromisedStep
<1> QED
  BY <1>1, <1>2, Invariance, ArrivesHolds, HeadersFirstHolds, PTL
     DEF Spec, ImplementsHttpExchange, Promised!ExchangeSpec

-----------------------------------------------------------------------------
(* That send() ends *)

\* The statements send() has yet to come to, at most, and what of the answer
\* has yet to come: with each step one of the two gets less.
StatementsLeft(at) ==
  IF at = "connect" THEN 5 ELSE IF at = "open" THEN 4 ELSE IF at = "exchange" THEN 3
  ELSE IF at \in {"headers", "perform"} THEN 2 ELSE IF at \in {"body", "receive"} THEN 1 ELSE 0
ToCome == (Len(answer.lines) - read) + (Len(answer.body) - Len(response.body))
Shortens ==
  \/ StatementsLeft(pc') < StatementsLeft(pc)
  \/ pc' = pc /\ ToCome' < ToCome

\* Header lines and pieces that are left are as many, one more read is one less.
LEMMA LeftOver ==
  ASSUME NEW l \in Nat, NEW r \in Nat, NEW a \in Nat, NEW b \in Nat
  PROVE  /\ r <= l /\ b <= a => (l - r) + (a - b) \in Nat
         /\ (l - (r + 1)) + (a - b) < (l - r) + (a - b)
         /\ (l - r) + (a - (b + 1)) < (l - r) + (a - b)
  OBVIOUS

LEMMA ToComeIs == IInv /\ Arrives /\ pc # "idle" => ToCome \in Nat
<1> SUFFICES ASSUME IInv, Arrives, pc # "idle" PROVE ToCome \in Nat
  OBVIOUS
<1>1. /\ answer.body \in Seq(Piece) /\ response.body \in Seq(Piece)
      /\ Len(answer.lines) \in Nat /\ read \in 0..Len(answer.lines)
  BY Shapes DEF Arrives
<1>2. IsPrefix(response.body, answer.body)
  <2>1. CASE response = Nothing
    BY <1>1, <2>1, NothingIs, EmptyPrefix
  <2>2. CASE response # Nothing
    BY <2>2 DEF Arrives, IInv, Statements, NothingYet, Queried, Receiving
  <2> QED
    BY <2>1, <2>2
<1>3. Len(response.body) <= Len(answer.body)
  BY <1>1, <1>2, PrefixIs
<1>4. Len(response.body) \in Nat /\ Len(answer.body) \in Nat
  BY <1>1
<1> QED
  <2>1. read \in Nat /\ read <= Len(answer.lines)
    BY <1>1
  <2> QED
    BY <1>1, <1>3, <1>4, <2>1, LeftOver DEF ToCome

\* A piece of the body, or a header line, is one less to come.
LEMMA PieceShortens ==
  ASSUME Arrives, Awaited, IsPrefix(response.body, answer.body), response' = Arrived(response),
         UNCHANGED <<answer, read>>
  PROVE  ToCome' < ToCome
<1>1. /\ response \in Response /\ response.body \in Seq(Piece) /\ answer.body \in Seq(Piece)
      /\ Len(answer.lines) \in Nat /\ read \in Nat
  BY Shapes
<1>2. response'.body = Append(response.body, answer.body[Len(response.body) + 1])
  BY <1>1 DEF Arrived, Response
<1>3. Len(response'.body) = Len(response.body) + 1
  BY <1>1, <1>2
<1>4. Len(response.body) \in Nat /\ Len(answer.body) \in Nat
  BY <1>1
<1>5. answer' = answer /\ read' = read
  OBVIOUS
<1> QED
  <2>1. ToCome' = (Len(answer.lines) - read) + (Len(answer.body) - (Len(response.body) + 1))
    BY ONLY <1>3, <1>5 DEF ToCome
  <2> QED
    BY <1>1, <1>4, <2>1, LeftOver DEF ToCome

LEMMA LineShortens ==
  ASSUME Arrives, HeaderCallback
  PROVE  ToCome' < ToCome
<1>1. /\ response \in Response /\ response.body \in Seq(Piece) /\ answer.body \in Seq(Piece)
      /\ Len(answer.lines) \in Nat /\ read \in Nat
  BY Shapes
<1>2. /\ read' = read + 1 /\ answer' = answer
      /\ response' = [response EXCEPT !.location = Kept(answer.lines[read'])]
  BY DEF HeaderCallback
<1>3. response'.body = response.body
  BY <1>1, <1>2 DEF Response
<1>4. Len(response.body) \in Nat /\ Len(answer.body) \in Nat
  BY <1>1
<1> QED
  <2>1. ToCome' = (Len(answer.lines) - (read + 1)) + (Len(answer.body) - Len(response.body))
    BY ONLY <1>2, <1>3 DEF ToCome
  <2> QED
    BY <1>1, <1>4, <2>1, LeftOver DEF ToCome

LEMMA EveryStepShortens ==
  ASSUME IInv, Arrives, [Next]_vars, pc # "idle", ~UNCHANGED vars
  PROVE  Shortens
<1>1. CASE Connect \/ OpenRequest \/ Exchange
  BY <1>1 DEF Connect, OpenRequest, Exchange, Fails, Returns, Shortens, StatementsLeft
<1>2. CASE QueryHeaders \/ EndOfBody \/ Perform
  BY <1>2 DEF QueryHeaders, EndOfBody, Perform, Step, Shortens, StatementsLeft
<1>3. CASE PerformReturns
  BY <1>3 DEF PerformReturns, Fails, Returns, Shortens, StatementsLeft
<1>4. CASE ReadData
  <2>1. /\ pc' = pc /\ Awaited /\ response' = Arrived(response) /\ UNCHANGED <<answer, read>>
        /\ IsPrefix(response.body, answer.body)
    BY <1>4 DEF ReadData, Step, Arrives, Queried
  <2> QED
    BY <2>1, PieceShortens DEF Shortens
<1>5. CASE WriteCallback
  <2>1. /\ pc' = pc /\ Awaited /\ response' = Arrived(response) /\ UNCHANGED <<answer, read>>
        /\ IsPrefix(response.body, answer.body)
    BY <1>5 DEF WriteCallback, Step, Arrives, Receiving
  <2> QED
    BY <2>1, PieceShortens DEF Shortens
<1>6. CASE HeaderCallback
  BY <1>6, LineShortens DEF HeaderCallback, Step, Shortens
<1>7. ~ \E s \in Server \cup {NoServer} : Send(s)
  BY DEF Send
<1> QED
  BY <1>1, <1>2, <1>3, <1>4, <1>5, <1>6, <1>7 DEF Next

(***************************************************************************)
(* send() ends on every answer that does: each of its steps leads to a     *)
(* later statement or leaves less of the answer to come, and what is left  *)
(* to come is a number.  No answer makes a loop of it run on, whatever the *)
(* header lines and wherever the body breaks off.                          *)
(***************************************************************************)
THEOREM SendEnds == Spec => /\ [](pc # "idle" => ToCome \in Nat)
                            /\ [][pc # "idle" => Shortens]_vars
<1>1. IInv /\ Arrives => (pc # "idle" => ToCome \in Nat)
  BY ToComeIs
<1>2. IInv /\ Arrives /\ [Next]_vars => [pc # "idle" => Shortens]_vars
  BY EveryStepShortens
<1> QED
  BY <1>1, <1>2, Invariance, ArrivesHolds, PTL DEF Spec

=============================================================================
