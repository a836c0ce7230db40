SPECIFICATION FairServers
CONSTANT N = 2
PROPERTY Answered
CHECK_DEADLOCK FALSE
