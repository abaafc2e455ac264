SPECIFICATION Spec
CONSTANTS
    a = a
    b = b
    x = x
    y = y
    z = z
    None = None
    Agent <- TwoAgents
    AgentOf <- AgentOfRun
    PlanOf <- PlanTime
    Run <- ThreeRuns
    Active = {z}
    Noseize = FALSE
    Attempts = 1
    Faults = {"stop", "close", "unreachable"}
INVARIANTS TablesTruthful ReportedBeforeForgotten AloneInCluster
  
CHECK_DEADLOCK FALSE
