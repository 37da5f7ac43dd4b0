SPECIFICATION FairSpec
CONSTANTS
  walk = walk
  say = say
  release = release
  Close = close
  Kill = kill
  Term = term
  Task <- MCTask
  Front <- MCFront
  Adders <- MCAdders
  Expiring <- MCExpiring
PROPERTY SigtermEndsTheProcess
CHECK_DEADLOCK FALSE
