SPECIFICATION FairSpec
CONSTANTS
  Tasks = {t1}
  t1 = t1
  MaxEvents = 3
  MaxKills = 2
  MaxRetries = 1
INVARIANTS
  TypeOK
  NoneUnseen
PROPERTIES
  AnsweredOnce
  AheadIsAnswered
CHECK_DEADLOCK FALSE
