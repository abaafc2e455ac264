SPECIFICATION FairSpec
CONSTANTS
    a = a
    b = b
    x = x
    y = y
    z = z
    None = None
    Agent <- TwoAgents
    AgentOf <- AgentOfRun
    PlanOf <- PlanTime
    Run <- OneRun
    Active = {}
    Noseize = FALSE
    Attempts = 2
    Faults = {"slow", "kill", "crash", "store", "lose"}
PROPERTIES TableCleared LockReturned
CHECK_DEADLOCK FALSE
