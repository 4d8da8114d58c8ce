\* Results, errors, the close and the end of the audio in every order.
SPECIFICATION Spec
CONSTANTS
    MaxResults = 4
    MaxErrors = 2
    Faults = {"connect", "socket"}
    None = None
INVARIANTS
    HeardBeforeEnd
    FeedIsOver
PROPERTIES
    ImplementsStream
    EndsAtLast
CHECK_DEADLOCK FALSE
