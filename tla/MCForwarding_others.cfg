SPECIFICATION Spec
CONSTANTS
    Users = {u1, u2}
    Owner = u1
    Requests = {r1}
    Forms <- PageForms
    AppConfigs <- Environments
INVARIANTS
    OthersNeverRing
