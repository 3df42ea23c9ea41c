\* A reading and a writing rule on one descriptor; cancel callbacks may do
\* anything.  After Result::Exit the application makes no further calls.
SPECIFICATION FairSpec
CHECK_DEADLOCK FALSE
CONSTANTS
  a = a
  b = b
  reader = reader
  writer = writer
  Fd = {a}
  Rule = {reader, writer}
  RuleFd <- duplexFd
  RuleDir <- copyDir
  MaxIn = 1
  CancelWakes = TRUE
  PollMayFail = FALSE
  ReentrantAdd = FALSE
INVARIANTS
  TypeOK
  Aligned
PROPERTIES
  ReadyServed
  NoDataAbandoned
  FinishedRuleRetired
  ReadyRuleNotStarved
