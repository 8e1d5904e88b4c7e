CONSTANTS
  alpha = alpha
  Alpha = Alpha
  beta = beta
  a1 = a1
  a2 = a2
  b1 = b1
  c1 = c1
  c2 = c2
  notes = notes
  data = data
  MaxId = 6
  Names <- MCNames
  Nobody = Nobody
  Folded <- MCFolded
  Commands <- MCCommands
  Worlds <- MCWorlds
  Selections <- MCSelections
  PageSize = 1
  Attaches <- MCAttaches
  BrowserTabs <- MCBrowserTabs
  NoShell = NoShell
  Plans <- MCPlans
  MaxVersion = 2
  MaxWorkloads = 2
  Sizes = {0, 80, 120}
  Unset = 0
  Default = 80
  MaxChanges = 2
  MaxInput = 1
  MaxFrames = 1
  Copies <- MCCopies
  Files <- MCFiles
  Contents <- MCContents
  NoFile = NoFile
  Starts <- MCStarts
SPECIFICATION RemoteSpec
CHECK_DEADLOCK FALSE
INVARIANT InStep
PROPERTIES
  LandsWhole
  ChangesTheNamed
  AnswersTrue
  EditsKeepRest
  TabsKept
  SizeArrives
  ExitIsTheShells
