SPECIFICATION Spec
CONSTANTS
  Match <- MCMatch
  Given <- MCGiven
  MaxInt = 10
  MaxMatches = 4
INVARIANTS
  TypeOK
  ListsTheLeases
  NamesAreShown
  FoundByWhatIsShown
