----------------------------- MODULE HttpAnswers -----------------------------
(***************************************************************************)
(* What send() of the two HTTP clients makes of the router's answer, in    *)
(* one step.  r is the answer as the response that holds all of it, none   *)
(* the failed response that holds nothing, and parts what can have come of *)
(* the page when the rest did not.                                         *)
(*                                                                         *)
(* WinHttpClient reports an exchange that broke off before the headers as  *)
(* an error and nothing else.  What fails later it does not report: a body *)
(* that stops short is returned as if it were whole, and the status, or    *)
(* the header lines, may be missing.  It reads every Set-Cookie line.      *)
(*                                                                         *)
(* CurlHttpClient reports any broken exchange as an error, next to the     *)
(* headers and the part of the body that had arrived.  It keeps the last   *)
(* header of a name and never fills response.cookies.                      *)
(***************************************************************************)

\* The answer r with so much of its page and its status, and the header of h.
ReadAs(r, page, status, h) ==
  [r EXCEPT !.page = page, !.status = status, !.cookies = h.cookies, !.location = h.location]

\* The exchange ended without an error.
WinHttpDelivers(r, parts, none) ==
  {ReadAs(r, p, s, h) : p \in parts, s \in {r.status, none.status}, h \in {r, none}}
CurlDelivers(r, none) == {[r EXCEPT !.cookies = none.cookies]}

\* The exchange failed: nothing of the answer was read, or, with curl, a part.
WinHttpBreaks(none) == {none}
CurlBreaks(r, parts, none) ==
  {none} \cup {[none EXCEPT !.location = r.location, !.page = p] : p \in parts}

\* The client main() has built, by platform.
DeliveredBy(client, r, parts, none) ==
  IF client = "WinHttpClient" THEN WinHttpDelivers(r, parts, none) ELSE CurlDelivers(r, none)
BrokenBy(client, r, parts, none) ==
  IF client = "WinHttpClient" THEN WinHttpBreaks(none) ELSE CurlBreaks(r, parts, none)

=============================================================================
