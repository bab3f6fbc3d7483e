SPECIFICATION SafetySpec
CONSTANTS
    Requests = {r1, r2}
    Clients = {"zhang", "li"}
    Rules <- MCRulesTwo
    CondOf <- MCCondOf
    StepOf <- MCStepOfTwo
    Facts <- MCFactsTwo
    Tables = {"t1"}
    None = None
    MaxSteps = 8
    MaxDepth = 3
    MaxNesting = 3
    MaxServed = 2
SYMMETRY MCSymmetry
INVARIANTS
    ExecutionIsFaithful
    
