SPECIFICATION Spec
CONSTANTS
    Jobs <- MCJobs
    Random <- MCRandom
    BootLines <- MCBootLines
INVARIANTS
    TypeOK
    SignedConditionsDecide
    DasmReassembles
PROPERTIES
    ImplementsWritten
    Terminates
