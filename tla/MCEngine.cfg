SPECIFICATION EngineFairSpec
CONSTANTS
  hello = hello
  command = command
  Prompts = {hello, command}
  Subtasks = {command}
  Flagged = {hello}
  Tools = {"task_complete", "invalid"}
  MaxTurns = 3
  SessionYolo = FALSE
  Yolos = {TRUE, FALSE}
  ColdStart = TRUE
INVARIANTS EngineTypeOK NoIdleTransition
PROPERTIES SubtaskRunsOnce LadderEnds
CHECK_DEADLOCK FALSE
