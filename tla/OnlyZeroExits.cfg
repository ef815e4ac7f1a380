SPECIFICATION ProgramSpec
CONSTANTS
  d1 = d1
  Base <- Names
  Text <- MCText
  Digits <- MCDigits
  Lower <- MCLower
  CookieName = {}
  CookieValue = {}
  NoCookie = NoCookie
  Device <- MCDevice
  Overflow = Overflow
  Mac = {"", "aa"}
  Responses <- MCResponses
  Lines = {"0", "1", "2", "3", "other", "text"}
INVARIANT OnlyZeroExits
