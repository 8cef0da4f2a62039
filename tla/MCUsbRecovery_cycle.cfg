SPECIFICATION FairSpec
CONSTANTS
    Attempts = 2
    Faults = 2
    MaxTries = 1
    MaxCycles = 1
INVARIANTS
    OneWorker
    BudgetKept
PROPERTIES
    SickIsActedOn
    CuredIsOpened
