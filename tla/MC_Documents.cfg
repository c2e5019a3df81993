CONSTANTS
  max = 5
  DocWidth = {60, 300, 700}
  Link <- MCLink
  OffsetLeft <- MCOffsetLeft
  Unplaced = {"lost"}
  MouseX = {10, 690}
  TipWidth <- MCTipWidth
  None = None
  Box = {"quote", "code", "prototype"}
  Parent <- MCParent
  Agent <- MCAgent
  N = 5
  mode = "HTML"
  Entry <- MCEntry
  SearchText <- MCSearchText
SPECIFICATION Spec
INVARIANTS
  FindsWhatThereIs
  TurnsWhatIsBelow
  HidesTheOthers
  OnlyTheHoveredTip
  SettledBoxesFit
PROPERTIES
  ComesUpOnThePage
  ComesToRest
