\* A row of the instance list keeps the address of the row decoded before it.
SPECIFICATION FairSpec
CONSTANTS
  ArgLists <- MCArgLists
  Files <- MCFiles
  Defaults <- MCDefaults
  Languages <- MCLanguages
  Text <- MCText
  Published <- MCPublished
  MaxRows = 2
INVARIANT AboutAsPublished
CHECK_DEADLOCK FALSE
