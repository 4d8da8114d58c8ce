\* Calls resolved while two requests edit the settings of two users.
SPECIFICATION Spec
CONSTANTS
    Users = {u1, u2}
    Owner = u1
    Requests = {r1, r2}
    Forms <- PageForms
    AppConfigs <- Environments
SYMMETRY RequestSymmetry
INVARIANTS
    OwnersSettingsWin
PROPERTIES
    PutsMerge
