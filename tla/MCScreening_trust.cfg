\* One utterance, whatever the LLM answers.
SPECIFICATION Spec
CONSTANTS
    Tasks = {t1}
    Answers <- EveryAnswer
    MaxStarts = 1
    MaxUtterances = 1
INVARIANTS
    EndReturnsResult
CHECK_DEADLOCK FALSE
