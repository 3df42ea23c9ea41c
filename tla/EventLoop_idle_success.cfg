\* What eventloop.hh documents of Result::Success; poll(2) does not fail.
SPECIFICATION Spec
CHECK_DEADLOCK FALSE
CONSTANTS
  a = a
  b = b
  reader = reader
  writer = writer
  Fd = {a, b}
  Rule = {reader, writer}
  RuleFd <- relayFd
  RuleDir <- copyDir
  MaxIn = 1
  CancelWakes = TRUE
  PollMayFail = FALSE
  ReentrantAdd = FALSE
PROPERTY
  SuccessMeansTriggered
