CONSTANTS
  Threads = {th1, th2}
  Calls <- TwoLevels
  IntMax = 3
  Types = {"A", "B"}
  Callbacks = {"f", "g"}
  MaxSubs = 2
  EvThreads = {e1, e2, e3}
  WgThreads = {g1, g2, g3}
  CounterMax = 3
  SemThreads = {s1, s2, s3}
  PermitMax = 3
  Prios = {1, 2, 3}
  PqBound = 6
  HpNodes = {n1, n2, n3, n4}
  Heaps = {h1, h2}
  HpPrios = {1, 2}
  VcIds = {i1, i2, i3}
  VcLimit = 4
  VcMax = 5
  LsHeads = {l1, l2}
  LsNodes = {m1, m2, m3}
  RbCaps = {1, 2, 4}
  RbBytes = {1, 2}
  RbChunk = 3
  SizeRange = 256
  ByCap = 5
  ByInts <- Ints
  ByStrings <- Strings
  ByCalls = 3
  CdBytes = {0, 171, 255}
  CdChars = {48, 61, 65, 126}
  CdLen = 5
  DgBlock = 4
  DgLen = 2
  DgWord = 64
  DgIndex = 16
  DgMax = 20
  Tokens <- Argv
  ArgcMax = 3
  ArgType <- Options
  StartDates <- Dates
  Shifts <- Days
  ShiftsMax = 3
SPECIFICATION Spec
INVARIANTS WaitersJustified DeliveredToSubscribers StuckOnlyByReentry
INVARIANTS SequencesIntact HeapsIntact BytesIntact EncodingsInvert OptionsAsGiven ShiftsAddUp
\* The instances with a bound on the number of calls stop at it.
CHECK_DEADLOCK FALSE
