\* Answers, requests and configurations, short, exact and oversized.
SPECIFICATION FairSpec
CONSTANTS
  Names = {"R2DI", "R2DD"}
  Sizes = {1, 2, 3}
  InfoSize = 2
  Timeout = 2
  MaxArrived = 3
  MaxElapsed = 3
INVARIANTS TypeOK AnswersReported TimelyAnswersFound
PROPERTY Terminates
CHECK_DEADLOCK FALSE
