CONSTANTS
    Callers = {"a", "b"}
    Process <- MCProcess
    Tiled = TRUE
    Blocks = 2
SPECIFICATION Spec
INVARIANT Atomic
