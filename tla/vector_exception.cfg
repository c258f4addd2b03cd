SPECIFICATION SpecInterrupts
CONSTANTS
  W = 3
  Delta = 2
  Top = 5
  Targets = {7}
  Harts = 2
  Id = {1, 2}
  ContextOf <- MCContextOf
  Contexts = 2
  MaxPriority = 3
  Clients <- MCClients
  Cpu = {3}
  Local = {16}
  IntBits = 4
  MaxLevels = 16
  Users <- MCUsers
  Clint = {3}
  Wired = {16}
  Codes = {3}
  Functions = {"a", "b"}
  Size = 3
  Code <- MCCode
  Starts = {0, 1}
PROPERTY ExceptionHandled
CHECK_DEADLOCK FALSE
