SPECIFICATION MCSpec
CONSTANT MaxTasks = 3
  
PROPERTIES KeepsPromise  Delivered ComesBack SessionFollowsClient
CHECK_DEADLOCK FALSE
