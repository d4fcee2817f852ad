CONSTANTS
  ChatProjects = {"p", "q"}
  MaxChats = 3
  MaxRetries = 1
SPECIFICATION ClientSpec
INVARIANT MessagesKeepProjectsApart
CHECK_DEADLOCK FALSE
