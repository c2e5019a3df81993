CONSTANTS
  Setting <- MCSetting
  Text <- MCText
  SearchType = {"General", "Files"}
  Unmatched <- MCUnmatched
  TimerBound = 2
SPECIFICATION Spec
INVARIANTS
  FocusedPanelStaysActive
  NoTextIsForgotten
  FrameFollowsLastSearch
PROPERTIES
  NeverReusesAnEmptyPage
  LeftPanelIsReset
