\* Strings of four characters, one letter and the delimiters.
\* Compression: texts of seven characters, codes of three bits, two rounds.
\* Documents: one bus with two addresses, one parameter, three calls.
\* Dates: four walks over two years and their leap days, four rules of weeks.
\* Codes: up to six bytes, three characters, five fields, two parameters.
\* Formulas of seven tokens; averages of two samples, a counter up to five.
\* Ciphers: six octets of two bits, checksums of four bits.
\* Clocks: a timer that wraps after five ticks, ten ticks.
\* Characters: texts of four letters, ints of four bits, rooms of two and eight.
\* Lists: five values of which up to three are in a list.
CONSTANTS
  Alphabets <- FourAlphabets
  MaxOpText = 4
  OpPatterns <- FourPatterns
  INTBITS = 4
  CHUNK = 8
  SPARE = 2
  LINE = 2
  ListValues <- FiveValues
  ListOptions <- SevenOptions
  Wheres <- ThreeWheres
  MaxListed = 3
  MaxListLen = 12
  NamePaths <- SixNamePaths
  Letters = {120}
  MaxStr = 4
  Indices <- SomeIndices
  BYTE = 2
  BITS = 3
  LONG = 8
  LongBits = {8, 16}
  LzTexts <- TwoLetters
  MaxRounds = 2
  Modules = {"m"}
  Buses = {"0"}
  Addresses = {"1", "2"}
  Params = {"p"}
  XmlValues = {"7"}
  FirstDocs <- FourDocs
  MaxXmlCalls = 3
  FirstDates <- FourDates
  Walk = 788
  WeekRules <- FourRules
  Zones <- FarZones
  Seconds = {0, 1, 43200, 86399}
  LettersOf <- SomeLetters
  LengthOf <- SomeLengths
  Operands = {1, 2}
  Operators <- AllOperators
  MaxTokens = 8
  N = 2
  CountMod = 5
  Samples = {1, 2, 4}
  MaxSamples = 6
  OCTET = 2
  CRC = 4
  Longs = {4, 8}
  POLY = 12
  POLYMPG = 3
  BLOCK = 4
  WORD = 32
  RawKeys <- TwoKeys
  KeyLens <- TwoLens
  Octets = {0, 1, 3}
  MaxOctets = 6
  TimerMod = 5
  SECOND = 3
  Limit = 1
  Leak = 2
  Items = 3
  Steps = {1, 2}
  MaxClock = 10
SPECIFICATION AllSpec
INVARIANTS
  StringFieldsKept
  
  
CHECK_DEADLOCK FALSE
