SPECIFICATION MCSpec
CONSTANTS
    N = 4
    Thread = {t1, t2}
    Mark = {m}
    Budgets <- MCBudgets
SYMMETRY Symmetry
INVARIANTS
    ParentHigher LockedRoot AnswersRight ListIsSet ListClosed NothingLost
PROPERTIES
    SetsOnlyGrow
