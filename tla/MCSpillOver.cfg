SPECIFICATION ConvergeSpec
CONSTANTS
    Facts <- MCFacts
    Envelopes = {"expression", "tolerant", "counter"}
    Predicates <- MCPredicates
    Clauses <- MCClauses
    Observed <- MCObserved
    Declared <- MCDeclared
    Normalized <- MCNormalized
    Assess <- MCAssess
    MaxVersion = 1
    Window = 4
    Poll = 2
    Reproduce = 2
    MaxPolls = 4
    MaxNow = 6
INVARIANT
    ObservedChangesAreCovered
CHECK_DEADLOCK FALSE
