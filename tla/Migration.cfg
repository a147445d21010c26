SPECIFICATION Spec
CONSTANT MAX_TASK_NUM = 3
INVARIANT TasksKept
CHECK_DEADLOCK FALSE
