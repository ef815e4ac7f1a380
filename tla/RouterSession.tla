---------------------------- MODULE RouterSession ----------------------------
(***************************************************************************)
(* What a user of IRouterClient may rely on, with the exchanges left out:  *)
(* when there is a session, what is asked of the router in it, and what a  *)
(* call's success says.  ZteF670LRouterClient implements it.               *)
(*                                                                         *)
(* A change of the access control list is prepared (the page is read) and  *)
(* then posted; each needs the session.  A change reported as sent was     *)
(* posted, and the session outlived its answer.  A read or a change can    *)
(* lose the session but never gain it, and a failed login leaves none.  A  *)
(* successful login promises less: see LoginSuccessMeansSession in         *)
(* ZteF670LRouterClient.                                                   *)
(***************************************************************************)

VARIABLES
  session,  \* the client believes it is logged in
  phase,    \* what the running call is at, "none" between calls
  ok        \* the last call returned success

abstractVars == <<session, phase, ok>>

AbstractInit == session = FALSE /\ phase = "none" /\ ok = FALSE

Begin(first) ==
  /\ phase = "none"
  /\ first # "login" => session
  /\ phase' = first
  /\ ok' = FALSE
  /\ UNCHANGED session

\* Nothing to ask: the call ends where it began, and only a logout can succeed.
Answer ==
  /\ phase = "none"
  /\ ok' \in BOOLEAN
  /\ ok' => ~session
  /\ UNCHANGED <<session, phase>>

LoginGoesOn == phase = "login" /\ session' \in BOOLEAN /\ UNCHANGED <<phase, ok>>

LoginReturns ==
  /\ phase = "login"
  /\ phase' = "none"
  /\ ok' \in BOOLEAN
  /\ session' \in (IF ok' THEN BOOLEAN ELSE {FALSE})

LogoutReturns == phase = "logout" /\ phase' = "none" /\ ok' /\ ~session'

Keeps == session' \in BOOLEAN /\ (session' => session)

ReadReturns == phase = "read" /\ phase' = "none" /\ ~ok' /\ Keeps

ChangeFails == phase = "prepare" /\ phase' = "none" /\ ~ok' /\ Keeps

PostChange == phase = "prepare" /\ session /\ phase' = "change" /\ UNCHANGED <<session, ok>>

ChangeReturns ==
  /\ phase = "change"
  /\ phase' = "none"
  /\ Keeps
  /\ ok' \in BOOLEAN
  /\ ok' => session'

\* The process died in a read and was started again.
Crash == phase = "read" /\ phase' = "none" /\ ~session' /\ ~ok'

AbstractNext ==
  \/ \E first \in {"login", "logout", "read", "prepare"} : Begin(first)
  \/ Answer
  \/ LoginGoesOn
  \/ LoginReturns
  \/ LogoutReturns
  \/ ReadReturns
  \/ ChangeFails
  \/ PostChange
  \/ ChangeReturns
  \/ Crash

AbstractSpec == AbstractInit /\ [][AbstractNext]_abstractVars

=============================================================================
