SPECIFICATION Spec
CONSTANTS
    Lists <- MCLists
    MaxConns = 3
    MaxChanges = 2
INVARIANTS NoIdleConnection
PROPERTIES StaysWhileOffline Mirrors
CHECK_DEADLOCK FALSE
