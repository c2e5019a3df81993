CONSTANTS
  Setting <- StaleSetting
  Text <- MCText
  SearchType = {"General", "Files"}
  Unmatched <- MCUnmatched
  TimerBound = 1
SPECIFICATION Spec
INVARIANT
  ReperformsOnTheRightPage
