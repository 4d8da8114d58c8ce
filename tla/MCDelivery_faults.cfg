\* Two operations on a message at once, with settings saved in between, every
\* kind of settings, caretaker and classification, and every failure.
SPECIFICATION Spec
CONSTANTS
    Tasks = {t1, t2}
    Operations = {"process", "deliver", "forward"}
    Earlier = {"urgent"}
    Rows <- NamedRows
    Saved <- SavedRows
    Caretaker = {"email", "unknown", "none"}
    Answers <- EveryPriority
    Faults = {"lost", "exception", "rollback"}
    MaxEdits = 1
SYMMETRY TaskSymmetry
INVARIANTS
    LedgerHonest
    LossExplained
    DuplicatesOnlyAfterLoss
    ForkIsIndependent
    StatusTells
PROPERTIES
    ImplementsLedger
CHECK_DEADLOCK FALSE
