SPECIFICATION Spec
CONSTANTS
  c1 = c1  t1 = t1
  approval = approval  command = command  input = input  other = other
  Callers = {c1}
  Shape <- CommandShape
  Turns = {t1}
  TurnOf <- CommandTurnOf
  Receiver = Receiver
  NoPrompt = NoPrompt
  HasTimeout = TRUE
  Decisions = {"plain"}
  MaxAsked = 2
  MaxReplies = 2
  Faults = {"cancel"}
INVARIANT InputNotForgotten
CHECK_DEADLOCK FALSE
