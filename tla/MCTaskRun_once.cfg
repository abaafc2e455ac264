SPECIFICATION Spec
CONSTANTS
    a = a
    b = b
    x = x
    y = y
    z = z
    None = None
    Agent <- TwoAgents
    AgentOf <- AgentOfRun
    PlanOf <- PlanTime
    Run <- TwoRuns
    Active = {y}
    Noseize = FALSE
    Attempts = 1
    Faults = {"slow", "kill", "crash", "deny"}
INVARIANTS TypeOK OncePerPlan
CHECK_DEADLOCK FALSE
