CONSTANTS
  MaxItems = 3
  MaxWeight = 2
  NoWeights = NoWeights
  AnyLength = AnyLength
  MaxTables = 2
  MaxRows = 2
  MaxShare = 2
  MaxInt = 3
  Limits = {4, 5, 24, 25, 99, 100}
  WordLists <- MCWordLists
  MaxAttempts = 2
  Bits = 7
  NetworkClasses <- MCClasses
  PrivateNetworks <- MCPrivate
  ExcludedNetworks <- MCReserved
  Ticks = 2
  DaySeconds = 3
  MaxYear = 9999
  Today <- MCToday
  TimesOfDay = {0, 5}
  Zones <- MCZones
  Locals <- MCLocals
  Starts <- MCStarts
  MaxAge = 3
  MaxSpan = 2
  MaxWait = 2
  Margin = 9
  TokenTexts <- MCTexts
  KnownNames <- MCKnown
  FillTexts <- MCFills
  LetterSets <- MCLetters
  DefaultLetters <- MCDefault
  FormatTables <- MCFormats
  HandleEnds <- MCSuffixes
  MaxDigits = 9
  TemplateTables <- MCTemplates
  LeafTexts <- MCLeaves
  MaxLevels = 2
  MaxDepth = 5
  RawTables <- MCRawTables
  RawGroups <- MCRawGroups
  RawLists <- MCRawLists
  SpanTexts <- MCSpans
  Units <- MCUnits
  Threads = {t1, t2}
  MaxNesting = 3
SPECIFICATION DrawSpec
INVARIANT SampleInv
INVARIANT DistinctPicks
INVARIANT ZeroWeightLast
INVARIANT AsConcatenated
INVARIANT RandrangeAgrees
INVARIANT TextFits
INVARIANT PoolExact
INVARIANT NetworkEligible
INVARIANT AgeInRange
INVARIANT WithinPeriod
INVARIANT FuturePast
INVARIANT ReadAlike
INVARIANT ReplacedOnce
INVARIANT NamesWellFormed
INVARIANT NoReentry
INVARIANT PanicsOnlyOnEmpty
INVARIANT OwnGender
INVARIANT ParsedLikeRegex
INVARIANT RefusedOnlyWithin
PROPERTY TextEnds
PROPERTY RenderingEnds
