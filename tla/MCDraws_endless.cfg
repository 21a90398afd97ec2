CONSTANTS
  MaxItems = 1
  MaxWeight = 1
  NoWeights = NoWeights
  AnyLength = AnyLength
  MaxTables = 1
  MaxRows = 1
  MaxShare = 1
  MaxInt = 1
  Limits = {5}
  WordLists <- MCEmpty
  MaxAttempts = 2
  Bits = 7
  NetworkClasses <- MCClasses
  PrivateNetworks <- MCPrivate
  ExcludedNetworks <- MCReserved
  Ticks = 2
  DaySeconds = 3
  MaxYear = 9999
  Today <- MCNoDay
  TimesOfDay = {0, 5}
  Zones <- MCZones
  Locals <- MCLocals
  Starts <- MCStarts
  MaxAge = 3
  MaxSpan = 2
  MaxWait = 2
  Margin = 9
  TokenTexts <- MCNoText
  KnownNames <- MCKnown
  FillTexts <- MCFewFills
  LetterSets <- MCLetters
  DefaultLetters <- MCDefault
  FormatTables <- MCFormats
  HandleEnds <- MCSuffixes
  MaxDigits = 9
  TemplateTables <- MCTemplates
  LeafTexts <- MCLeaves
  MaxLevels = 2
  MaxDepth = 5
  RawTables <- MCNoRaw
  RawGroups <- MCNoRaw
  RawLists <- MCNoRaw
  SpanTexts <- MCNoSpan
  Units <- MCUnits
  Threads = {t1}
  MaxNesting = 1
SPECIFICATION DrawSpec
PROPERTY TextEnds
