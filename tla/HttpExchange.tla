---------------------------- MODULE HttpExchange -----------------------------
(***************************************************************************)
(* What the router client may rely on when it calls IHttpClient::send(),   *)
(* with the libraries left out: the router is asked once, and what comes   *)
(* back is its answer, whole, cut short, without its status or header      *)
(* lines, or broken off, as HttpAnswers says, or a failure that holds      *)
(* nothing of it.  Nothing of one exchange is returned by a later one.     *)
(* HttpClients implements it, for both clients.                            *)
(*                                                                         *)
(* An answer is clear if its header lines are written as the clients look  *)
(* for them.  What they read in the header of another is left open, but    *)
(* not its status and its body.                                            *)
(***************************************************************************)
EXTENDS HttpAnswers, Integers, Sequences

CONSTANTS
  Clients,     \* the two implementations
  Answers,     \* the router's: clear or not, and the response that is all of it
  Unanswered,
  Blank        \* the response before anything came

VARIABLES
  client,
  phase,       \* of the request: "idle", "asked", "answered"
  answer,
  response     \* of the last request, Blank while one is under way

exchangeVars == <<client, phase, answer, response>>

Failed      == [Blank EXCEPT !.error = TRUE]
Parts(page) == {SubSeq(page, 1, n) : n \in 0..Len(page)}

ExchangeInit == client \in Clients /\ phase = "idle" /\ answer = Unanswered /\ response = Blank

\* The client has no session handle: nothing is asked.
Refuse ==
  /\ phase = "idle"
  /\ response' = Failed
  /\ UNCHANGED <<client, phase, answer>>

Ask ==
  /\ phase = "idle"
  /\ phase' = "asked"
  /\ response' = Blank
  /\ UNCHANGED <<client, answer>>

\* The request does not get through, or its answer does not.
Fail ==
  /\ phase = "asked"
  /\ phase' = "idle"
  /\ response' = Failed
  /\ UNCHANGED <<client, answer>>

RouterAnswers ==
  /\ phase = "asked"
  /\ phase' = "answered"
  /\ answer' \in Answers
  /\ UNCHANGED <<client, response>>

\* The same but for what is read in the header.
SameButHeader(r, s) == r.error = s.error /\ r.status = s.status /\ r.page = s.page

Outcomes(r) ==
  DeliveredBy(client, r, Parts(r.page), Failed) \cup BrokenBy(client, r, Parts(r.page), Failed)

Return ==
  /\ phase = "answered"
  /\ phase' = "idle"
  /\ answer' = Unanswered
  /\ \E r \in Outcomes(answer.response) :
       IF answer.clear THEN response' = r ELSE SameButHeader(response', r)
  /\ UNCHANGED client

ExchangeNext == Refuse \/ Ask \/ Fail \/ RouterAnswers \/ Return

ExchangeSpec == ExchangeInit /\ [][ExchangeNext]_exchangeVars

=============================================================================
