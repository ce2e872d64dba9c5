CONSTANTS
    Callers = {"a", "b", "c"}
    Process <- MCProcess
    Tiled = FALSE
    Blocks = 3
SPECIFICATION Spec
INVARIANTS Atomic NoneRefused
