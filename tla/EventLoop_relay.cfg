\* A rule on each of two descriptors, polls that may fail, and cancel callbacks
\* that close descriptors but wake no rule.
SPECIFICATION Spec
CHECK_DEADLOCK FALSE
CONSTANTS
  a = a
  b = b
  reader = reader
  writer = writer
  Fd = {a, b}
  Rule = {reader, writer}
  RuleFd <- relayFd
  RuleDir <- copyDir
  MaxIn = 1
  CancelWakes = FALSE
  PollMayFail = TRUE
  ReentrantAdd = FALSE
PROPERTIES
  NoDataAbandoned
  ExitMeansDone
