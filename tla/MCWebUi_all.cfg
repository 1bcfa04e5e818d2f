SPECIFICATION FairSpec
CONSTANTS
  NSlots = 2
  Modules = {"good", "odd"}
  Refused = {}
  Unreadable = {"odd"}
  None = "None"
  Calls = {1, 2}
  Files <- McFiles
  Others <- McOthers
  MaxClicks = 2
  MaxEdits = 3
INVARIANTS TypeOK HolesOnlyAfterLoading SuccessMeansInSync
PROPERTY Answered
