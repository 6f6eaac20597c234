SPECIFICATION FairSpec
CONSTANTS
  Numbers <- SmallNumbers
  NoSeed = NoSeed
  NoNumber = NoNumber
  Digests <- FourDigests
  Sha <- CyclicSha
  MaxSteps = 122
INVARIANTS TypeOK PrimeCorrect CheckedCounts CollatzCorrect
PROPERTY CallsEnd
CHECK_DEADLOCK FALSE
