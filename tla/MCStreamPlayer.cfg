SPECIFICATION Spec
CONSTANTS
    left = left
    right = right
    first = first
    second = second
    none = none
    Ids <- MCIds
    Objects <- MCObjects
    Budgets <- MCBudgets
INVARIANTS
    SelectionIsThere
    NoSleeperForgotten
SYMMETRY Symmetry
CHECK_DEADLOCK FALSE
