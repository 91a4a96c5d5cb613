SPECIFICATION FairSpec
CONSTANTS
    left = left
    right = right
    first = first
    second = second
    none = none
    Ids <- MCOneId
    Objects <- MCOneObject
    Budgets <- MCBudgets
PROPERTY JoinReturns
CHECK_DEADLOCK FALSE
