SPECIFICATION FairSpec
CONSTANTS
  c1 = c1  c2 = c2  c3 = c3  p1 = p1  o1 = o1  o2 = o2
  None = None  Stop = Stop
  Callers = {c1, c2, c3}
  Prompts = {p1}
  Observers = {o1, o2}
  Faults = {"connectFails", "cancel", "serverExits", "garbage", "handlerCloses"}
INVARIANTS TypeOK CloseReleases NoHandlerOutlivesClose OneConversation ObserversDrain
PROPERTIES ObserversEnd CloseCompletes
CHECK_DEADLOCK FALSE
