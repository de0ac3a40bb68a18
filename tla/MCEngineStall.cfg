SPECIFICATION EngineFairSpec
CONSTANTS
  hello = hello
  command = command
  Prompts = {hello, command}
  Subtasks = {}
  Flagged = {}
  Tools = {"edit"}
  MaxTurns = 2
  SessionYolo = FALSE
  Yolos = {TRUE, FALSE}
  ColdStart = FALSE
PROPERTY RequestPickedUp
CHECK_DEADLOCK FALSE
