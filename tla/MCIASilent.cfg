SPECIFICATION SessionSpec
CONSTANT MaxTasks = 3
PROPERTY SilentIsDisconnected
CHECK_DEADLOCK FALSE
