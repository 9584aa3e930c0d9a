CONSTANTS
  Picks <- MCPicks
  Ranges <- MCRanges
  Opening <- MCOpening
  Months <- MCMonths
  FirstOfMonth <- MCFirstOfMonth
  WeekdayOfZero = 1
  FirstWeekday = 0
  NoMonth = NoMonth
  NoDate = NoDate
  Garbage = Garbage
  Shapes <- MCShapes
  Overlap <- MCOverlap
  AnswerRow = {r1, r2}
  Starts = {0, 10}
  Terms = {"", "a"}
  MaxAsked = 2
  BoxRow = {r1, r2}
  Box = {b1}
  Granted <- MCGranted
  MaxFlying = 2
  FormRow = {r1, r2}
  MaxOpened = 3
  LinkRow = {r1, r2}
  Tokens = {"", "a", "b"}
  Counts = {"", "0", "3", "4"}
  Numerals = {"3", "4"}
  Lists <- MCLists
  Group = {g1, g2}
  Address = {a, b}
  MaxServed = 3
  Letter = {"i", "n", "s"}
  Keywords <- MCKeywords
  MaxLine = 3
  MaxQueries = 3
  Slice = 2
  Spill = 1
  LineHeights = {1, 2}
  MaxLines = 6
  Char = {"a"}
  UndoDepth = 2
  MaxText = 2
  MaxChanges = 3
  Window = 1
  Margin = 1
  Slack = 2
  Wide = 4
  MaxRows = 4
  MaxLineN = 4
  MaxSteps = 2
  SqlLines <- MCSqlLines
  Every = 2
  Lookback = 2
  Ahead = 1
  InView = 1
  MaxSql = 3
  Key = {"a"}
  MaxField = 2
  MaxArea = 2
SPECIFICATION ConsoleSpec
INVARIANTS
  RangeWhole
  CalendarsWhole
  DiagramWhole
  LaidOut
  AnswersFollow
  BoxesStored
  EditsKeepRows
  LinkNamesOpenRow
  FormAsShown
  CompletedWhole
  CreatedMeansStored
  LogAndMessagesAgree
  TreeHoldsLines
  HistoryFaithful
  DisplayFollows
  ColoursSettle
  TypedOnce
PROPERTIES
  ImplementsChooser
