CONSTANT QueueLength = 3
SPECIFICATION QueueSpec
INVARIANT AnswerIsOfOneTarget
CHECK_DEADLOCK FALSE
