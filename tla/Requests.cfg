\* Every handler over every answer, lists of up to two deviations.
SPECIFICATION Spec
CONSTANTS
  Instances <- MCInstances
  Lists <- MCLists
  Pages <- MCPages
  Counts <- MCCounts
  Texts <- MCTexts
  Statuses <- MCStatuses
  Accepts <- MCAccepts
INVARIANTS
  TypeOK
  FailuresUncached
  AnsweredOnce
  RetryAfterSaid
  TypeFitsBody
  HiddenStaysHidden
  VisibleListed
  BarsLead
  LanguageAsked
