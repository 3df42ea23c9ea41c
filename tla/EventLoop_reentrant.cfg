\* What eventloop.cc says of pollfds, with callbacks that add rules.
SPECIFICATION Spec
CHECK_DEADLOCK FALSE
CONSTANTS
  a = a
  b = b
  reader = reader
  writer = writer
  Fd = {a, b}
  Rule = {reader, writer}
  RuleFd <- relayFd
  RuleDir <- copyDir
  MaxIn = 1
  CancelWakes = TRUE
  PollMayFail = FALSE
  ReentrantAdd = TRUE
INVARIANT
  EachRuleHasPollfd
