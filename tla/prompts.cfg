SPECIFICATION FairSpec
CONSTANTS
  c1 = c1  t1 = t1
  approval = approval  command = command  input = input  other = other
  Callers = {c1}
  Shape <- MCShape
  Turns = {t1}
  TurnOf <- MCTurnOf
  Receiver = Receiver
  NoPrompt = NoPrompt
  HasTimeout = TRUE
  Decisions = {"plain", "amendment"}
  MaxAsked = 2
  MaxReplies = 2
  Faults = {"cancel", "sendFail", "handlerFails"}
INVARIANTS TypeOK OneReply InputKept
PROPERTIES NoStaleDecision KeptUntilAnswered UnattendedAnswered
CHECK_DEADLOCK FALSE
