---------------------------- MODULE HttpTransport ----------------------------
(***************************************************************************)
(* The HTTP client below the router client, in one step: HttpAnswers says  *)
(* what either makes of an answer, HttpClients has the steps.  Both turn   *)
(* redirects off, give up after timeoutSeconds (of the whole transfer, or  *)
(* with WinHttpClient of a step of it), and never retry.  The cookie store *)
(* of WinHTTP itself, which send() leaves on, is not modelled: what goes   *)
(* out is the jar of the client.                                           *)
(***************************************************************************)
EXTENDS ZteF670LRouterClient, HttpAnswers

CONSTANT Transport  \* the HTTP client main() builds: by platform

ASSUME TransportAssumption == Transport \in {"WinHttpClient", "CurlHttpClient"}

NoAnswer == [NoResponse EXCEPT !.error = TRUE]

\* A page without anything the client looks for.
CutPage == [EmptyPage EXCEPT !.blank = FALSE]

\* What can have arrived of a page: some of its fields, or nothing, or all.
PartsOf(page) ==
  {EmptyPage, page} \cup
    IF page.blank THEN {}
    ELSE {[CutPage EXCEPT !.inputs = SubSeq(page.inputs, 1, n)] : n \in 0..Len(page.inputs)}

\* The answer r as the client gets it.
Delivered(r) == DeliveredBy(Transport, r, PartsOf(r.page), NoAnswer)
Broken(r)    == BrokenBy(Transport, r, PartsOf(r.page), NoAnswer)

=============================================================================
