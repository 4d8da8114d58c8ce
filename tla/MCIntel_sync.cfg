\* Two lookups of one number at once while the daily task runs, with an external
\* list that comes, fails or cannot be applied, and one fault.
SPECIFICATION Spec
CONSTANTS
    None = None
    Numbers = {n1, n2}
    Asked = {n1}
    Lookups = {l1, l2}
    Answers <- TwoAnswers
    Verstats = {None}
    Lists <- TwoLists
    Drivers = {TRUE, FALSE}
    Earlier <- Almost
    Histories <- UpToThreshold
    MaxFaults = 1
INVARIANTS
    FlagsHaveCause
    RowsAgree
PROPERTIES
    FlagNeverLost
    ReportedIsFlagged
