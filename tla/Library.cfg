CONSTANTS
  BlockSize = 4
  LengthSize = 2
  WordSpan = 64
  MaxChunk = 11
  MaxBytes = 11
  MaxMessages = 2
  Options <- OptionNames
  ShortName <- OptionShort
  LongName <- OptionLong
  ArgumentType <- OptionType
  Attribute <- OptionAttribute
  Arguments <- OptionArguments
  Unreadable <- OptionUnreadable
  MaxArgs = 3
  Size = 5
  Span = 64
  MaxStep = 7
  p1 = p1
  p2 = p2
  p3 = p3
  Passers = {p1, p2, p3}
  COUNTER = 2
  Reporters = {p1, p2}
  LOG_TIME_PERIOD = 2
  MaxTime = 8
  Frame = 2
  Starts = {0, 2, 5}
  MaxB = 3
  MaxGroups = 5
  Byte = {0, 1, 6}
  Skipped = {0, 6}
  MaxBuffer = 10
  Offers <- DigestOffers
  Uris = {"/"}
  MaxNonces = 2
  Bodies <- DigestBodies
  NoBody <- DigestNoBody
  HasZero <- DigestHasZero
  MaxRequests = 3
  Unit = 80
  Floats <- PlaylistFloats
  Decimals <- PlaylistDecimals
  Horizon = 160
  Err = 10
  Urls <- PlaylistUrls
  Lines <- PlaylistLines
  Seconds <- PlaylistSeconds
  MaxLines = 5
  MaxPlaylists = 2
  Octets = {0, 97, 255}
  MaxOctets = 7
  Parts <- AllParts
SPECIFICATION Spec
INVARIANTS
  HashesPaddedMessage ParsedByPosition SilenceIsBounded LinesPerPeriod UnitsFound
  ConversionsKept NeverTakenForAnother PlaylistsRead
PROPERTIES SkipReachesEdge DtsIncreases
CHECK_DEADLOCK FALSE
