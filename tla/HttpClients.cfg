SPECIFICATION Spec
CONSTANTS
  v1 = v1
  v2 = v2
  piece = piece
  Clients = {"WinHttpClient", "CurlHttpClient"}
  Server = {"router", "other"}
  NoServer = "none"
  CookieName = {"SID"}
  CookieValue <- MCValues
  NoCookie = NoCookie
  Piece = {piece}
  Answers <- MCAnswers
INVARIANTS
  TypeOK
  GoesToItsServer
  NoHandleLost
  ConnectsAgain
  ReturnsTheAnswer
PROPERTIES
  ImplementsHttpExchange
