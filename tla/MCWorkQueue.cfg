SPECIFICATION FairSpec
CONSTANTS
    Work = {agent, ota, schedule}
    Agent = agent
    QUEUE_SIZE = 2
    MaxAccepted = 4
INVARIANTS
    WorkerInv
PROPERTIES
    FifoSpec
    Drains
