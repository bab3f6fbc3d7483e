SPECIFICATION GatewaySpec
CONSTANTS
    Requests = {r1}
    Clients = {"zhang", "li", "deep", "far", "wide", "not2", "nobody"}
    Rules <- MCRules
    CondOf <- MCCondOf
    StepOf <- MCStepOf
    Facts <- MCFacts
    Tables = {"t1", "t2"}
    None = None
    MaxSteps = 10
    MaxDepth = 3
    MaxNesting = 5
    MaxServed = 2
INVARIANTS
    ExecutionIsFaithful
    
PROPERTY
    EveryRequestAnswered
