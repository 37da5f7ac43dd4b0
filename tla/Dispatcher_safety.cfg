SPECIFICATION FairSpec
CONSTANTS
  walk = walk
  say = say
  release = release
  Close = close
  Kill = kill
  Term = term
  Task <- MCTask
  Front <- MCFront
  Adders <- MCAdders
  Expiring <- MCExpiring
INVARIANTS TypeOK QueueIsHonest NoLostWakeup ExitLeavesNothing
PROPERTY TaskIsTaken
CHECK_DEADLOCK FALSE
