SPECIFICATION FairSpec
CONSTANTS
  MaxRetries = 1
  MaxTries = 2
  Parallel = {TRUE, FALSE}
  AutoDelete = {TRUE, FALSE}
  Live = {TRUE, FALSE}
  SetupErrors <- SetupTexts
  AttemptErrors <- AttemptTexts
  Textless <- OnlyOverloadsAndFailuresLate
INVARIANTS TypeOK TextOnce AttemptConsistent SessionAlive SessionsAccounted OneLogin
PROPERTIES ContractSpec EveryRunEnds
CHECK_DEADLOCK FALSE
