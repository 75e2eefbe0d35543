SPECIFICATION FairSpec
CONSTANTS
  Names = {"login", "getLayout"}
  MaxCalls = 3
  MaxDocs = 3
INVARIANT IInv
PROPERTIES OwnAnswers InOrder CallsEnd
CHECK_DEADLOCK FALSE
