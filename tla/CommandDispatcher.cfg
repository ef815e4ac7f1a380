SPECIFICATION ProgramSpec
CONSTANTS
  d1 = d1
  Base <- Names
  Text <- MCText
  Digits <- MCDigits
  Lower <- MCLower
  CookieName = {}
  CookieValue = {}
  NoCookie = NoCookie
  Device <- MCDevice
  Overflow = Overflow
  Mac = {"", "aa"}
  Responses <- MCResponses
  Lines <- Kinds
PROPERTIES
  EndedInputSendsNothing
  CacheChange
  CommandsEnd
