SPECIFICATION EngineSpec
CONSTANTS
  hello = hello
  command = command
  Prompts = {hello, command}
  Subtasks = {}
  Flagged = {}
  Tools = {"edit"}
  MaxTurns = 2
  SessionYolo = FALSE
  Yolos = {FALSE}
  ColdStart = FALSE
INVARIANT AnsweredServesAll
CHECK_DEADLOCK FALSE
