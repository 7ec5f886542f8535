\* Every list of up to three assets with two priorities, balances of
\* 0 to 2 and thresholds of 0 or 1 minor units, and every amount from 0 to 5.
CONSTANTS
    MaxAssets = 3
    Priorities = {1, 2}
    MaxBalance = 2
    MaxThreshold = 1
    MaxAmount = 5
SPECIFICATION Spec
INVARIANTS
    TypeOK
    PlanIsFairShare
    PlanAddsUp
