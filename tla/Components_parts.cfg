SPECIFICATION Spec
CONSTANTS
  Parts = {"TableOtsl", "TablePages", "PageBoxes", "VisualWave", "AclStream", "DocumentReader",
           "PluginHost", "CsvRows", "InputSize", "LayoutFrames", "BudgetController"}
  MaxRows = 3
  MaxColumns = 3
  MaxPages = 3
  Layouts <- MCLayouts
  MaxBoxes = 3
  Extents <- MCExtents
  Kinds <- MCKinds
  Redetections <- MCRedetections
  Visual = {1, 2, 4}
  Prompt = {1, 3}
  MaxWaiting = 4
  ScanLimit = 3
  Captures <- MCCaptures
  Edges = {2}
  Concurrency = 3
  TokenBudget = 6
  Inputs = 2
  Outputs = 2
  MaxCalls = 3
  Physical = 2
  PageLimit = 2
  ToolChunks = 2
  PipeSize = 2
  OutputLimit = 2
  Reads = 2
  Libraries = {"a", "b"}
  PluginIds = {"own", "more", "onnx"}
  Instances = {"i", "j"}
  MaxPluginCalls = 2
  MaxText = 5
  MaxEdge = 6
  Limits <- MCLimits
  Areas <- MCAreas
  Factors = {1, 2, 3}
  PageSize <- MCPageSize
  InputSizes <- MCInputSizes
  Rectangles <- MCRectangles
  MaxRegions = 2
  Margin = 4
  MinBudget = 4
  MaxBudget = 32
  Curves <- MCCurves
  WildRates = {1, 10, 40}
  Growth = 10
  Gain = 3
  Step = 10
  Backoff = 85
  Patience = 25
INVARIANTS
  TableReads
  EveryRowOnce
  PageAccountedFor
  WavePlanned
  CallsDoNotMix
  PagesAreTrue
  NothingLeftBehind
  PluginsStayLoaded
  CsvReads
  InputsFit
  BoxesInPlace
  FindsTheKnee
CHECK_DEADLOCK FALSE
