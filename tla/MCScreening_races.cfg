\* Utterances and the end of the call handled concurrently.
SPECIFICATION Spec
CONSTANTS
    Tasks = {t1, t2, t3}
    Answers <- TypicalAnswers
    MaxStarts = 2
    MaxUtterances = 6
SYMMETRY TaskSymmetry
INVARIANTS
    ClassifiedInTime
    NothingHeardAfterEnd
    FarewellIsResult
CHECK_DEADLOCK FALSE
