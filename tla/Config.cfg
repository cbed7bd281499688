SPECIFICATION Spec
CONSTANTS
  Body = 2
  Heights = {1, 3}
  MaxCommands = 3
  None = None
INVARIANT FilesSound
 
CHECK_DEADLOCK FALSE
