SPECIFICATION Spec
CONSTANTS
  d1 = d1
  d2 = d2
  Base <- Names
  Text <- MCText
  Digits <- MCDigits
  Lower <- MCLower
  CookieName = {"SID"}
  CookieValue = {"c1", "c2"}
  NoCookie = NoCookie
  Device <- MCDevice
  Overflow = Overflow
  Mac = {"", "aa", "bb"}
  Responses <- MCResponses
INVARIANTS
  TypeOK
  GatedRequests
  PostedFromThisPage
  SuccessWasAnswered
  LoginOutcome
  EndedSessionForgotten
PROPERTIES
  ExpiryReported
  SessionChange
  CallReturns
  ImplementsRouterSession
