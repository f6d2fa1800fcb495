SPECIFICATION FairSpec
CONSTANTS
  Attempt <- MCAttempt
  Key = {"append", "once", "settle", "illegal"}
  KindOf <- MCKindOf
  Faulty = {1}
  NoKey = NoKey
  NoOne = NoOne
  NoAnswer = NoAnswer
INVARIANTS
  TypeOK
  ExecutedOnce
  OneAnswer
PROPERTIES
  AttemptAnswered
