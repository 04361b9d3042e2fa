\* Every start, up to the listener and with the list refreshed for ever; an exit
\* is the end of the process.
SPECIFICATION FairSpec
CONSTANTS
  ArgLists <- MCArgLists
  Files <- MCFiles
  Defaults <- MCDefaults
  Languages <- MCLanguages
  Text <- MCText
  Published <- MCPublished
  MaxRows = 2
INVARIANTS
  TypeOK
  OwnRequestsBounded
  TitlesAsPublished
PROPERTIES
  NoLateWrites
  ComesUp
CHECK_DEADLOCK FALSE
