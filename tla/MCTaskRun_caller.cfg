SPECIFICATION FairSpec
CONSTANTS
    a = a
    b = b
    x = x
    y = y
    z = z
    None = None
    Agent <- TwoAgents
    AgentOf <- AgentOfRun
    PlanOf <- PlanTime
    Run <- OneRun
    Active = {x}
    Noseize = FALSE
    Attempts = 2
    Faults = {"slow"}
PROPERTIES CallerAnswered
CHECK_DEADLOCK FALSE
