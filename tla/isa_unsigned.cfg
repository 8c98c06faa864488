SPECIFICATION Spec
CONSTANTS
    Jobs <- CompareJobs
    Random <- MCRandom
    BootLines <- MCBootLines
INVARIANT UnsignedConditionsDecide
