SPECIFICATION ManagedSpec
SYMMETRY Interchangeable
CONSTANTS
  s1 = s1
  s2 = s2
  t1 = t1
  t2 = t2
  Base <- Names
  Text <- MCText
  Digits <- MCDigits
  Lower <- MCLower
  CookieName = {"SID"}
  CookieValue <- MCSessions
  NoCookie = NoCookie
  Device = {}
  Overflow = Overflow
  Mac = {"aa"}
  Responses = {}
  Transport = "WinHttpClient"
  SessionCookie = "SID"
  Token <- MCTokens
  OtherMac = {"bb"}
  RowNames <- MCRowNames
  MaxLive = 1
  MaxLate = 1
INVARIANT LoginFormIsFailure
