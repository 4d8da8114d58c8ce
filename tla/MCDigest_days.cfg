\* Two days, two users with a message each, two deliveries of the task at once,
\* every kind of fault, two of them.
SPECIFICATION Spec
CONSTANTS
    u1 = u1
    u2 = u2
    m1 = m1
    m2 = m2
    Users = {u1, u2}
    Messages = {m1, m2}
    Owner <- OwnerOf
    Slots = {s1, s2}
    Day = 4
    Kinds <- EveryKind
    MaxTime = 9
    MaxFaults = 2
SYMMETRY SlotSymmetry
INVARIANTS
    TypeOK
    MissedExplained
    TwiceExplained
CHECK_DEADLOCK FALSE
