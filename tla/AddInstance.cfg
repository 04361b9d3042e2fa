\* --add-instance polls for a list that nothing downloads.
SPECIFICATION FairSpec
CONSTANTS
  ArgLists <- MCArgLists
  Files <- MCFiles
  Defaults <- MCDefaults
  Languages <- MCLanguages
  Text <- MCText
  Published <- MCPublished
  MaxRows = 2
PROPERTY AddInstanceEnds
CHECK_DEADLOCK FALSE
