SPECIFICATION Spec
CONSTANTS
  Text <- MCText
  MaxInt = 31
  Files <- MCFiles
INVARIANTS
  TypeOK
  ConfigIsTheFiles
  EndsByTypeOnly
