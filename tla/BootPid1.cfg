SPECIFICATION Spec
CONSTANT NoProgram = NoProgram
INVARIANT SpiderBecomesPid1
CHECK_DEADLOCK FALSE
