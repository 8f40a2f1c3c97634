SPECIFICATION VisitsSpec
CONSTANTS
  MaxClicks = 2
  MaxLoads = 3
  Words = 3
  MaxVisits = 2
  Transitions = {t1, t2}
  RenderErrors = {e1, e2}
INVARIANTS
  VisitsTypeOK
  SettledWorkIsAnswered SuccessIsNotRepeated
  InteractionPauseEnds
  NothingOutlivesThePage
  CapturedByOneClient
PROPERTIES
  ClickIsAnswered
  ShownAsItWas RemovalIsNotUndone LookupSettles
  ChosenWordIsBroughtIn ScrollKeepsItsWord AutoplayShowsEveryWord
  PageBecomesReadable
  OneFailureIsSurvived
CHECK_DEADLOCK FALSE
