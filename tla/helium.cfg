\* Pairs of instructions and programs about the system.
SPECIFICATION PromiseSpec
CONSTANT Programs <- Regular
INVARIANTS
    TypeOK
    RequestsMeetIdle
    WordsArrive
PROPERTIES
    MemoryAsPromised
    ImplementsProgram
    Ends
CHECK_DEADLOCK TRUE
